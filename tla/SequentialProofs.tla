---- MODULE SequentialProofs ----
(***************************************************************************)
(* The parts that run by themselves: what tailLines has read of a log of   *)
(* any length in chunks of any size while it grows; that the hello made    *)
(* for any name looks real, to the parser and to the scan; how any         *)
(* client's stream reaches the upstream, what it carries there and where   *)
(* its name is cut, wherever the first read ended.                         *)
(***************************************************************************)
EXTENDS TailLines, FirstFlight, StartupProofs

-----------------------------------------------------------------------------
(* tailLines                                                                 *)

\* pos and filled divide what the file held at the start; a buffer of its own holds the
\* file's bytes, but for the last chunk of them. While buf shares tmp it is one chunk.
TailInv ==
    /\ log \in Seq(Bytes) /\ tmp \in [1 .. Chunk -> Bytes]
    /\ size \in Nat /\ pos \in Nat /\ filled \in Nat
    /\ pos + filled = size /\ size <= Len(log)
    /\ pc \in {"read", "split", "done"}
    /\ pc = "read" => pos > 0
    /\ shared \in BOOLEAN
    /\ filled = 0 => ~shared
    /\ shared => filled <= Chunk
    /\ ~shared => own \in Seq(Bytes) /\ Len(own) = filled
    /\ \A i \in 1 .. filled : i + Chunk <= filled => own[i] = log[pos + i]

\* A chunk never reaches before the file's start.
LEMMA ChunkFits ==
    ASSUME TailInv, pc = "read"
    PROVE  ChunkLen \in 1 .. Chunk /\ ChunkLen <= pos
  BY TailAssumption DEF TailInv, ChunkLen

\* The array after ReadAt: file bytes first, then what the chunk before left.
LEMMA ReadChunkStep ==
    ASSUME TailInv, ReadChunk
    PROVE  TailInv'
<1>1. PICK n \in 1 .. Chunk : n = ChunkLen /\ n <= pos
  BY ChunkFits DEF ReadChunk
<1>2. Chunk \in Nat /\ n \in Nat /\ pos \in Nat /\ filled \in Nat /\ size \in Nat
      /\ pos + filled = size /\ size <= Len(log) /\ log \in Seq(Bytes) /\ Len(log) \in Nat
  BY <1>1, TailAssumption DEF TailInv
<1>3. /\ pos' = pos - n /\ filled' = n + filled /\ shared' = (filled = 0)
      /\ log' = log /\ size' = size
  BY <1>1 DEF ReadChunk
<1>4. pos' \in Nat /\ filled' \in Nat /\ pos' + filled' = size /\ filled' > 0
  BY <1>1, <1>2, <1>3
<1>5. pc' \in {"read", "split"} /\ (pc' = "read" => pos' # 0)
  BY DEF ReadChunk
<1>6. tmp' = [i \in 1 .. Chunk |-> IF i <= n THEN log[pos - n + i] ELSE tmp[i]]
  BY <1>1 DEF ReadChunk
<1>7. /\ tmp' \in [1 .. Chunk -> Bytes]
      /\ \A i \in 1 .. n : tmp'[i] = log[pos' + i]
  <2>1. \A i \in 1 .. n : pos - n + i \in 1 .. Len(log)
    BY <1>1, <1>2
  <2>2. \A i \in 1 .. n : log[pos - n + i] \in Bytes
    BY <1>2, <2>1
  <2>3. \A i \in 1 .. Chunk : i <= n => i \in 1 .. n
    BY <1>1, <1>2
  <2>4. \A i \in 1 .. Chunk : tmp'[i] \in Bytes
    BY <1>6, <2>2, <2>3 DEF TailInv
  <2>5. tmp' \in [1 .. Chunk -> Bytes]
    BY <1>6, <2>4
  <2>6. \A i \in 1 .. n : i \in 1 .. Chunk /\ i <= n
    BY <1>1, <1>2
  <2> QED
    BY <1>6, <1>3, <2>5, <2>6
<1>8. CASE filled = 0
  <2>1. shared' /\ filled' <= Chunk
    <3>1. shared'
      BY <1>3, <1>8
    <3>2. filled' <= Chunk
      BY <1>1, <1>2, <1>3, <1>8
    <3> QED
      BY <3>1, <3>2
  <2>2. \A i \in 1 .. filled' : ~(i + Chunk <= filled')
    BY <1>2, <1>4, <2>1
  <2> QED
    BY <1>2, <1>3, <1>4, <1>5, <1>7, <2>1, <2>2 DEF TailInv
<1>9. CASE filled # 0
  <2> DEFINE chunk == SubSeq(tmp', 1, n)
             rest == Buffer(tmp')
  <2>1. own' = chunk \o rest
    BY <1>1, <1>9 DEF ReadChunk, Appended
  <2>2. tmp' \in Seq(Bytes) /\ Len(tmp') = Chunk
    BY <1>2, <1>7, LenProperties
  <2>3. chunk \in Seq(Bytes) /\ Len(chunk) = n /\ \A i \in 1 .. n : chunk[i] = tmp'[i]
    BY <1>1, <1>2, <2>2, SubSeqProperties
  <2>4. rest \in Seq(Bytes) /\ Len(rest) = filled
    <3>1. CASE shared
      <4>1. filled \in 0 .. Chunk
        BY <1>2, <3>1 DEF TailInv
      <4> QED
        BY <2>2, <3>1, <4>1, SubSeqProperties DEF Buffer
    <3>2. CASE ~shared
      BY <3>2 DEF Buffer, TailInv
    <3> QED
      BY <3>1, <3>2
  <2> HIDE DEF chunk, rest
  <2>5. own' \in Seq(Bytes) /\ Len(own') = filled'
    BY <1>2, <1>3, <2>1, <2>3, <2>4, ConcatProperties
  <2>6. ASSUME NEW i \in 1 .. filled', i + Chunk <= filled'
        PROVE  own'[i] = log[pos' + i]
    <3>1. CASE i <= n
      <4>1. own'[i] = chunk[i] /\ i \in 1 .. n
        BY <1>2, <1>4, <2>1, <2>3, <2>4, <3>1, ConcatProperties
      <4> QED
        BY <1>7, <2>3, <4>1
    <3>2. CASE i > n
      <4>1. i - n \in 1 .. filled /\ (i - n) + Chunk <= filled
        BY <1>1, <1>2, <1>3, <1>4, <2>6, <3>2
      <4>2. ~shared
        BY <1>2, <4>1 DEF TailInv
      <4>3. own'[i] = rest[i - n]
        <5>1. i \in 1 .. Len(chunk) + Len(rest) /\ ~(i <= Len(chunk)) /\ Len(chunk) = n
          BY <1>2, <1>3, <1>4, <2>1, <2>3, <2>4, <3>2
        <5>2. \A j \in 1 .. Len(chunk) + Len(rest) :
                 (chunk \o rest)[j] = IF j <= Len(chunk) THEN chunk[j] ELSE rest[j - Len(chunk)]
          BY <2>3, <2>4, ConcatProperties, Zenon
        <5>3. (chunk \o rest)[i] = rest[i - Len(chunk)]
          BY <5>1, <5>2, Zenon
        <5> QED
          BY <2>1, <5>1, <5>3, Zenon
      <4>4. rest[i - n] = log[pos + (i - n)]
        BY <4>1, <4>2 DEF Buffer, TailInv, rest
      <4>5. pos + (i - n) = pos' + i
        BY <1>2, <1>3, <1>4
      <4> QED
        BY <4>3, <4>4, <4>5
    <3> QED
      BY <1>2, <1>4, <3>1, <3>2
  <2>7. ~shared'
    BY <1>3, <1>9
  <2> QED
    BY <1>2, <1>3, <1>4, <1>5, <1>7, <2>5, <2>6, <2>7 DEF TailInv
<1> QED
  BY <1>8, <1>9

\* What is appended to the file does not change what was there.
LEMMA LogGrowsStep ==
    ASSUME TailInv, LogGrows
    PROVE  TailInv'
<1>1. PICK b \in Bytes : log' = Append(log, b)
  BY DEF LogGrows
<1>2. UNCHANGED <<maxLines, size, pos, tmp, shared, own, filled, result, pc>>
  BY DEF LogGrows
<1>3. /\ log' \in Seq(Bytes) /\ Len(log') = Len(log) + 1 /\ Len(log) \in Nat
      /\ \A i \in 1 .. Len(log) : log'[i] = log[i]
  BY <1>1, AppendProperties, LenProperties DEF TailInv
<1>4. size <= Len(log')
  BY <1>3 DEF TailInv
<1>5. ASSUME NEW i \in 1 .. filled, i + Chunk <= filled
      PROVE  own[i] = log'[pos + i]
  <2>1. pos + i \in 1 .. Len(log)
    BY <1>3 DEF TailInv
  <2> QED
    BY <1>3, <1>5, <2>1 DEF TailInv
<1> QED
  BY <1>2, <1>3, <1>4, <1>5 DEF TailInv

LEMMA TailInvHolds == Spec => []TailInv
<1>1. Init => TailInv
  <2> SUFFICES ASSUME Init PROVE TailInv
    OBVIOUS
  <2>1. PICK k \in 0 .. MaxFile : log \in [1 .. k -> Bytes]
    BY DEF Init, Logs
  <2>2. log \in Seq(Bytes) /\ Len(log) = k /\ k \in Nat
    BY <2>1, TailAssumption
  <2>3. tmp \in [1 .. Chunk -> Bytes]
    BY DEF Init, Bytes
  <2>4. size = k /\ pos = k /\ filled = 0 /\ own = <<>> /\ shared = FALSE
    BY <2>2 DEF Init
  <2>5. own \in Seq(Bytes) /\ Len(own) = 0
    BY <2>4
  <2>6. pc \in {"read", "split", "done"} /\ (pc = "read" => pos > 0)
    BY DEF Init
  <2>7. \A i \in 1 .. filled : own[i] = log[pos + i]
    BY <2>4
  <2>8. /\ size \in Nat /\ pos \in Nat /\ filled \in Nat
        /\ pos + filled = size /\ size <= Len(log)
    BY <2>2, <2>4
  <2>9. shared \in BOOLEAN /\ ~shared /\ Len(own) = filled
    BY <2>4, <2>5
  <2> QED
    BY <2>2, <2>3, <2>5, <2>6, <2>7, <2>8, <2>9 DEF TailInv
<1>2. TailInv /\ [Next]_vars => TailInv'
  <2>1. ASSUME TailInv, SplitLines PROVE TailInv'
    BY <2>1 DEF TailInv, SplitLines
  <2>2. ASSUME TailInv, UNCHANGED vars PROVE TailInv'
    BY <2>2 DEF TailInv, vars
  <2> QED
    BY <2>1, <2>2, ReadChunkStep, LogGrowsStep DEF Next
<1> QED
  BY <1>1, <1>2, PTL DEF Spec

\* What the chunks before the last one brought is the file's, whatever their number
\* and size, and however the log grows meanwhile.
THEOREM ChunksAreTheFile == Spec => []EarlierChunksExact
<1>1. TailInv => EarlierChunksExact
  <2> SUFFICES ASSUME TailInv, NEW i \in 1 .. filled, i + Chunk <= filled
               PROVE  Buffer(tmp)[i] = log[pos + i]
    BY DEF EarlierChunksExact
  <2>1. own[i] = log[pos + i]
    BY DEF TailInv
  <2>2. ~shared
    <3>1. filled \in Nat /\ Chunk \in Nat /\ (shared => filled <= Chunk)
      BY TailAssumption DEF TailInv
    <3>2. ~(filled <= Chunk)
      BY <3>1
    <3> QED
      BY <3>1, <3>2, Zenon
  <2> QED
    BY <2>1, <2>2, Zenon DEF Buffer
<1> QED
  BY TailInvHolds, <1>1, PTL

\* Line feeds are counted as places.
LEMMA FeedsCount ==
    ASSUME NEW b \in Seq(Bytes)
    PROVE  /\ Len(b) \in Nat /\ LineFeedPlaces(b) \in SUBSET (1 .. Len(b)) /\ LineFeeds(b) \in Nat
           /\ CountUpTo(LineFeedPlaces(b), 0) = 0
           /\ CountUpTo(LineFeedPlaces(b), Len(b)) = LineFeeds(b)
<1>1. Len(b) \in Nat
  OBVIOUS
<1>2. LineFeedPlaces(b) \in SUBSET (1 .. Len(b))
  BY DEF LineFeedPlaces
<1> QED
  BY <1>1, <1>2, Counts DEF LineFeeds

\* In a joined text, the line feeds of the second part count on from those of the first.
LEMMA FeedsOfJoined ==
    ASSUME NEW a \in Seq(Bytes), NEW b \in Seq(Bytes), NEW p \in 0 .. Len(b)
    PROVE  CountUpTo(LineFeedPlaces(a \o b), Len(a) + p)
             = LineFeeds(a) + CountUpTo(LineFeedPlaces(b), p)
<1> DEFINE ab == a \o b
           A == LineFeedPlaces(a)
           B == LineFeedPlaces(b)
           J == LineFeedPlaces(ab)
           T == {x \in 0 .. Len(b) : CountUpTo(J, Len(a) + x) # LineFeeds(a) + CountUpTo(B, x)}
<1>1. /\ ab \in Seq(Bytes) /\ Len(ab) = Len(a) + Len(b) /\ Len(a) \in Nat /\ Len(b) \in Nat
      /\ \A i \in 1 .. Len(a) : ab[i] = a[i]
      /\ \A i \in 1 .. Len(b) : ab[Len(a) + i] = b[i]
  OBVIOUS
<1>2. /\ A \in SUBSET (1 .. Len(a)) /\ B \in SUBSET (1 .. Len(b)) /\ J \in SUBSET (1 .. Len(ab))
      /\ LineFeeds(a) \in Nat /\ CountUpTo(B, 0) = 0
  BY <1>1, FeedsCount
<1> HIDE DEF ab
<1>3. CountUpTo(J, Len(a)) = LineFeeds(a)
  <2>1. \A q \in J : q <= Len(a) => q \in A
    BY <1>1 DEF LineFeedPlaces
  <2>2. \A q \in A : q \in J /\ q <= Len(a)
    BY <1>1 DEF LineFeedPlaces
  <2>3. {q \in J : q <= Len(a)} = A
    BY <2>1, <2>2, Zenon
  <2> QED
    BY <2>3 DEF CountUpTo, LineFeeds
<1>4. \A y \in 0 .. Len(b) : y + 1 <= Len(b) => ((Len(a) + y) + 1 \in J <=> y + 1 \in B)
  BY <1>1 DEF LineFeedPlaces
<1> HIDE DEF A, B, J, T
<1>5. SUFFICES ASSUME T # {} PROVE FALSE
  BY DEF T, ab, B, J
<1>6. PICK x \in T : \A y \in T : x <= y
  <2>1. T \subseteq Nat
    BY DEF T
  <2> QED
    BY <1>5, <2>1, LeastNumber
<1>7. x \in 0 .. Len(b) /\ CountUpTo(J, Len(a) + x) # LineFeeds(a) + CountUpTo(B, x)
  BY DEF T
<1>8. x # 0
  BY <1>1, <1>2, <1>3, <1>7
<1>9. PICK y \in 0 .. Len(b) : y + 1 = x /\ y + 1 <= Len(b)
  <2>1. x - 1 \in 0 .. Len(b) /\ (x - 1) + 1 = x /\ x <= Len(b)
    BY <1>1, <1>7, <1>8
  <2> QED
    BY <2>1
<1>10. CountUpTo(J, Len(a) + y) = LineFeeds(a) + CountUpTo(B, y)
  <2>1. y \notin T
    BY <1>6, <1>9
  <2> QED
    BY <2>1 DEF T
<1>11. Len(ab) \in Nat /\ Len(a) + y \in Nat /\ y \in Nat
  BY <1>1
<1>12. /\ CountUpTo(B, y) \in Nat
       /\ y + 1 \in B => CountUpTo(B, y + 1) = CountUpTo(B, y) + 1
       /\ y + 1 \notin B => CountUpTo(B, y + 1) = CountUpTo(B, y)
  BY <1>1, <1>2, <1>11, Counts
<1>13. /\ (Len(a) + y) + 1 \in J
            => CountUpTo(J, (Len(a) + y) + 1) = CountUpTo(J, Len(a) + y) + 1
       /\ (Len(a) + y) + 1 \notin J
            => CountUpTo(J, (Len(a) + y) + 1) = CountUpTo(J, Len(a) + y)
  BY <1>2, <1>11, Counts
<1>14. (Len(a) + y) + 1 = Len(a) + x
  BY <1>1, <1>9
<1>15. CountUpTo(J, Len(a) + x) = LineFeeds(a) + CountUpTo(B, x)
  <2>1. CASE y + 1 \in B
    <3>1. CountUpTo(J, Len(a) + x) = CountUpTo(J, Len(a) + y) + 1
      BY <1>4, <1>9, <1>13, <1>14, <2>1
    <3>2. CountUpTo(B, x) = CountUpTo(B, y) + 1
      BY <1>9, <1>12, <2>1
    <3> QED
      BY <1>2, <1>10, <1>12, <3>1, <3>2
  <2>2. CASE y + 1 \notin B
    <3>1. CountUpTo(J, Len(a) + x) = CountUpTo(J, Len(a) + y)
      BY <1>4, <1>9, <1>13, <1>14, <2>2
    <3>2. CountUpTo(B, x) = CountUpTo(B, y)
      BY <1>9, <1>12, <2>2
    <3> QED
      BY <1>10, <3>1, <3>2
  <2> QED
    BY <2>1, <2>2
<1> QED
  BY <1>7, <1>15

\* Where lines end, in the text and in a text it is the end of.
LEMMA LineEnds ==
    ASSUME NEW b \in Seq(Bytes), NEW k \in 0 .. LineFeeds(b) + 1
    PROVE  /\ LineEnd(b, k) \in 0 .. Len(b) + 1
           /\ k # 0 => LineEnd(b, k) # 0
           /\ k \in 1 .. LineFeeds(b) => /\ LineEnd(b, k) \in LineFeedPlaces(b)
                                         /\ CountUpTo(LineFeedPlaces(b), LineEnd(b, k)) = k
<1>1. Len(b) \in Nat /\ LineFeedPlaces(b) \in SUBSET (1 .. Len(b)) /\ LineFeeds(b) \in Nat
  BY FeedsCount
<1>2. CASE k = 0
  BY <1>1, <1>2 DEF LineEnd
<1>3. CASE k = LineFeeds(b) + 1
  BY <1>1, <1>3 DEF LineEnd
<1>4. CASE k \in 1 .. LineFeeds(b)
  <2>1. LineEnd(b, k) = KthOf(LineFeedPlaces(b), k)
    BY <1>1, <1>4 DEF LineEnd
  <2>2. /\ KthOf(LineFeedPlaces(b), k) \in LineFeedPlaces(b)
        /\ CountUpTo(LineFeedPlaces(b), KthOf(LineFeedPlaces(b), k)) = k
    BY <1>1, <1>4, KthIsPlace DEF LineFeeds
  <2>3. LineEnd(b, k) \in 1 .. Len(b)
    BY <1>1, <2>1, <2>2
  <2> QED
    BY <1>1, <2>1, <2>2, <2>3
<1> QED
  BY <1>1, <1>2, <1>3, <1>4

LEMMA LineEndsOfJoined ==
    ASSUME NEW a \in Seq(Bytes), NEW b \in Seq(Bytes), NEW k \in 1 .. LineFeeds(b) + 1
    PROVE  /\ LineFeeds(a \o b) = LineFeeds(a) + LineFeeds(b)
           /\ LineEnd(a \o b, LineFeeds(a) + k) = Len(a) + LineEnd(b, k)
<1> DEFINE ab == a \o b
           J == LineFeedPlaces(ab)
<1>1. /\ ab \in Seq(Bytes) /\ Len(ab) = Len(a) + Len(b) /\ Len(a) \in Nat /\ Len(b) \in Nat
      /\ \A i \in 1 .. Len(b) : ab[Len(a) + i] = b[i]
  OBVIOUS
<1>2. LineFeeds(a) \in Nat /\ LineFeeds(b) \in Nat
  BY FeedsCount
<1> HIDE DEF ab
<1>3. J \in SUBSET (1 .. Len(ab)) /\ CountUpTo(J, Len(ab)) = LineFeeds(ab)
  BY <1>1, FeedsCount
<1>4. \A p \in 0 .. Len(b) : CountUpTo(J, Len(a) + p) = LineFeeds(a) + CountUpTo(LineFeedPlaces(b), p)
  BY FeedsOfJoined DEF ab
<1>5. LineFeeds(ab) = LineFeeds(a) + LineFeeds(b)
  BY <1>1, <1>3, <1>4, FeedsCount
<1>6. CASE k = LineFeeds(b) + 1
  BY <1>1, <1>2, <1>5, <1>6 DEF LineEnd, ab
<1>7. CASE k \in 1 .. LineFeeds(b)
  <2> DEFINE p == LineEnd(b, k)
  <2>1. p \in LineFeedPlaces(b) /\ CountUpTo(LineFeedPlaces(b), p) = k /\ p \in 1 .. Len(b)
    BY <1>2, <1>7, LineEnds, FeedsCount
  <2> HIDE DEF p
  <2>2. b[p] = "LF"
    BY <2>1 DEF LineFeedPlaces
  <2>3. Len(a) + p \in J
    BY <1>1, <2>1, <2>2 DEF LineFeedPlaces
  <2>4. CountUpTo(J, Len(a) + p) = LineFeeds(a) + k
    BY <1>4, <2>1
  <2>5. Len(ab) \in Nat
    BY <1>1
  <2>6. KthOf(J, LineFeeds(a) + k) = Len(a) + p
    BY <1>3, <2>3, <2>4, <2>5, KthIsUnique
  <2>7. LineEnd(ab, LineFeeds(a) + k) = KthOf(J, LineFeeds(a) + k)
    BY <1>2, <1>5, <1>7 DEF LineEnd
  <2> QED
    BY <1>5, <2>6, <2>7 DEF p, ab
<1> QED
  BY <1>2, <1>6, <1>7

\* The piece of s from just after position p to q.
LEMMA PieceIs ==
    ASSUME NEW S, NEW s \in Seq(S), NEW q \in 0 .. Len(s), NEW n \in 0 .. q
    PROVE  /\ SubSeq(s, (q - n) + 1, q) \in Seq(S)
           /\ Len(SubSeq(s, (q - n) + 1, q)) = n
           /\ \A i \in 1 .. n : SubSeq(s, (q - n) + 1, q)[i] = s[(q - n) + i]
<1>1. Len(s) \in Nat /\ q \in Nat /\ n \in Nat
  OBVIOUS
<1>2. (q - n) + 1 \in Int /\ q \in Int /\ \A i \in (q - n) + 1 .. q : s[i] \in S
  BY <1>1
<1>3. /\ SubSeq(s, (q - n) + 1, q) \in Seq(S)
      /\ Len(SubSeq(s, (q - n) + 1, q)) = IF (q - n) + 1 <= q THEN q - ((q - n) + 1) + 1 ELSE 0
      /\ \A i \in 1 .. q - ((q - n) + 1) + 1 :
            SubSeq(s, (q - n) + 1, q)[i] = s[((q - n) + 1) + i - 1]
  BY <1>2, SubSeqProperties
<1>4. \A i \in 1 .. n : i \in 1 .. q - ((q - n) + 1) + 1 /\ ((q - n) + 1) + i - 1 = (q - n) + i
  BY <1>1
<1>5. Len(SubSeq(s, (q - n) + 1, q)) = n
  BY <1>1, <1>3
<1>6. \A i \in 1 .. n : SubSeq(s, (q - n) + 1, q)[i] = s[(q - n) + i]
  BY <1>3, <1>4
<1> QED
  BY <1>3, <1>5, <1>6

\* Pieces with the same bytes are the same piece, wherever they lie.
LEMMA SubSeqShifted ==
    ASSUME NEW S, NEW s \in Seq(S), NEW t \in Seq(S), NEW d \in Nat,
           NEW m \in Nat, NEW n \in Nat, n - 1 <= Len(t), d + Len(t) <= Len(s),
           \A i \in 1 .. Len(t) : s[d + i] = t[i]
    PROVE  SubSeq(s, (d + m) + 1, (d + n) - 1) = SubSeq(t, m + 1, n - 1)
<1> DEFINE x == SubSeq(s, (d + m) + 1, (d + n) - 1)
           y == SubSeq(t, m + 1, n - 1)
<1>1. Len(s) \in Nat /\ Len(t) \in Nat
  OBVIOUS
<1>2. /\ (d + m) + 1 \in Int /\ (d + n) - 1 \in Int /\ m + 1 \in Int /\ n - 1 \in Int
      /\ \A i \in (d + m) + 1 .. (d + n) - 1 : i \in 1 .. Len(s)
      /\ \A i \in m + 1 .. n - 1 : i \in 1 .. Len(t)
  BY <1>1
<1>3. /\ \A i \in (d + m) + 1 .. (d + n) - 1 : s[i] \in S
      /\ \A i \in m + 1 .. n - 1 : t[i] \in S
  BY <1>2
<1>4. /\ x \in Seq(S)
      /\ Len(x) = IF (d + m) + 1 <= (d + n) - 1 THEN ((d + n) - 1) - ((d + m) + 1) + 1 ELSE 0
      /\ \A i \in 1 .. ((d + n) - 1) - ((d + m) + 1) + 1 : x[i] = s[((d + m) + 1) + i - 1]
  BY <1>2, <1>3, SubSeqProperties
<1>5. /\ y \in Seq(S)
      /\ Len(y) = IF m + 1 <= n - 1 THEN (n - 1) - (m + 1) + 1 ELSE 0
      /\ \A i \in 1 .. (n - 1) - (m + 1) + 1 : y[i] = t[(m + 1) + i - 1]
  BY <1>2, <1>3, SubSeqProperties
<1> HIDE DEF x, y
<1>6. Len(x) = Len(y) /\ \A i \in 1 .. Len(x) : i \in 1 .. (n - 1) - (m + 1) + 1
  BY <1>4, <1>5
<1>7. ASSUME NEW i \in 1 .. Len(x) PROVE x[i] = y[i]
  <2>1. i \in 1 .. (n - 1) - (m + 1) + 1
    BY <1>6
  <2>2. x[i] = s[((d + m) + 1) + i - 1] /\ y[i] = t[(m + 1) + i - 1]
    BY <1>4, <1>5, <2>1
  <2>3. ((d + m) + 1) + i - 1 = d + (m + i) /\ (m + 1) + i - 1 = m + i /\ m + i \in 1 .. Len(t)
    BY <1>1, <2>1
  <2> QED
    BY <2>2, <2>3
<1>8. x = y
  BY <1>4, <1>5, <1>6, <1>7, SeqEqual
<1> QED
  BY <1>8 DEF x, y

\* Lines are pieces of the text.
LEMMA LinesAreText ==
    ASSUME NEW b \in Seq(Bytes)
    PROVE  /\ Lines(b) \in Seq(Seq(Bytes)) /\ Len(Lines(b)) = LineFeeds(b) + 1
           /\ \A k \in 1 .. LineFeeds(b) + 1 :
                Lines(b)[k] = SubSeq(b, LineEnd(b, k - 1) + 1, LineEnd(b, k) - 1)
<1> DEFINE c == LineFeeds(b) + 1
           line(k) == SubSeq(b, LineEnd(b, k - 1) + 1, LineEnd(b, k) - 1)
<1>1. LineFeeds(b) \in Nat /\ c \in Nat /\ Len(b) \in Nat
  BY FeedsCount
<1>2. ASSUME NEW k \in 1 .. c PROVE line(k) \in Seq(Bytes)
  <2>1. k - 1 \in 0 .. LineFeeds(b) + 1 /\ k \in 0 .. LineFeeds(b) + 1
    BY <1>1
  <2>2. LineEnd(b, k - 1) \in 0 .. Len(b) + 1 /\ LineEnd(b, k) \in 0 .. Len(b) + 1
    BY <2>1, LineEnds
  <2>3. \A i \in LineEnd(b, k - 1) + 1 .. LineEnd(b, k) - 1 : b[i] \in Bytes
    BY <1>1, <2>2
  <2>4. LineEnd(b, k - 1) + 1 \in Int /\ LineEnd(b, k) - 1 \in Int
    BY <1>1, <2>2
  <2> QED
    BY <2>3, <2>4, SubSeqProperties
<1>3. Lines(b) = [k \in 1 .. c |-> line(k)]
  BY DEF Lines
<1> HIDE DEF line, c
<1>4. Lines(b) \in Seq(Seq(Bytes)) /\ Len(Lines(b)) = c /\ \A k \in 1 .. c : Lines(b)[k] = line(k)
  BY <1>1, <1>2, <1>3
<1> QED
  BY <1>4 DEF c, line

\* strings.Split and the cut to the last n lines look at nothing before the last n line
\* feeds but one: the last lines of a text are those of any end of it with more than n.
LEMMA LastLinesOfJoined ==
    ASSUME NEW a \in Seq(Bytes), NEW b \in Seq(Bytes), NEW n \in Nat, LineFeeds(b) > n
    PROVE  LastLines(Lines(a \o b), n) = LastLines(Lines(b), n)
<1> DEFINE ab == a \o b
           A == LineFeeds(a)
           B == LineFeeds(b)
<1>1. /\ ab \in Seq(Bytes) /\ Len(ab) = Len(a) + Len(b) /\ Len(a) \in Nat /\ Len(b) \in Nat
      /\ \A i \in 1 .. Len(b) : ab[Len(a) + i] = b[i]
  OBVIOUS
<1>2. A \in Nat /\ B \in Nat /\ B > n /\ 1 \in 1 .. B + 1
  BY FeedsCount
<1>3. LineFeeds(ab) = A + B
  BY <1>2, LineEndsOfJoined
<1>4. \A k \in 1 .. B + 1 : LineEnd(ab, A + k) = Len(a) + LineEnd(b, k)
  BY LineEndsOfJoined
<1> HIDE DEF ab, A, B
<1>5. ASSUME NEW k \in 2 .. B + 1 PROVE Lines(ab)[A + k] = Lines(b)[k]
  <2> DEFINE s == LineEnd(b, k - 1)
             e == LineEnd(b, k)
  <2>1. k - 1 \in 1 .. B + 1 /\ k \in 1 .. B + 1 /\ A + k \in 1 .. (A + B) + 1
        /\ k - 1 \in 0 .. B + 1 /\ k \in 0 .. B + 1 /\ k - 1 # 0 /\ (A + k) - 1 = A + (k - 1)
    BY <1>2
  <2>2. s \in 0 .. Len(b) + 1 /\ s # 0 /\ e \in 0 .. Len(b) + 1
    BY <2>1, LineEnds DEF B
  <2>3. Lines(b)[k] = SubSeq(b, s + 1, e - 1)
    BY <2>1, LinesAreText DEF B
  <2>4. Lines(ab)[A + k] = SubSeq(ab, LineEnd(ab, (A + k) - 1) + 1, LineEnd(ab, A + k) - 1)
    BY <1>1, <1>3, <2>1, LinesAreText
  <2>5. LineEnd(ab, (A + k) - 1) = Len(a) + s /\ LineEnd(ab, A + k) = Len(a) + e
    BY <1>4, <2>1
  <2> HIDE DEF s, e
  <2>6. SubSeq(ab, (Len(a) + s) + 1, (Len(a) + e) - 1) = SubSeq(b, s + 1, e - 1)
    <3>1. s \in Nat /\ e \in Nat /\ e - 1 <= Len(b) /\ Len(a) + Len(b) <= Len(ab)
      BY <1>1, <2>2
    <3> QED
      BY <1>1, <3>1, SubSeqShifted, SMTT(30)
  <2> QED
    BY <2>3, <2>4, <2>5, <2>6
<1>6. /\ Lines(ab) \in Seq(Seq(Bytes)) /\ Len(Lines(ab)) = (A + B) + 1
      /\ Lines(b) \in Seq(Seq(Bytes)) /\ Len(Lines(b)) = B + 1
  BY <1>1, <1>3, LinesAreText DEF B
<1> DEFINE l == Lines(ab)
           m == Lines(b)
           L == A + B + 1
           M == B + 1
<1>7. LastLines(l, n) = SubSeq(l, (L - n) + 1, L) /\ LastLines(m, n) = SubSeq(m, (M - n) + 1, M)
  BY <1>2, <1>6 DEF LastLines
<1> HIDE DEF l, m
<1>8. \A i \in 1 .. n : (L - n) + i = A + ((M - n) + i) /\ (M - n) + i \in 2 .. B + 1
  BY <1>2
<1>9. \A i \in 1 .. n : l[(L - n) + i] = m[(M - n) + i]
  BY <1>5, <1>8 DEF l, m
<1>10. SubSeq(l, (L - n) + 1, L) = SubSeq(m, (M - n) + 1, M)
  <2>1. /\ l \in Seq(Seq(Bytes)) /\ Len(l) = L /\ m \in Seq(Seq(Bytes)) /\ Len(m) = M
    BY <1>6 DEF l, m
  <2>2. /\ L \in Nat /\ M \in Nat /\ n < L /\ n < M
    BY <1>2
  <2> HIDE DEF L, M
  <2> DEFINE x == SubSeq(l, (L - n) + 1, L)
             y == SubSeq(m, (M - n) + 1, M)
  <2>3. /\ x \in Seq(Seq(Bytes)) /\ Len(x) = n
        /\ \A i \in 1 .. n : x[i] = l[(L - n) + i]
    BY <2>1, <2>2, PieceIs
  <2>4. /\ y \in Seq(Seq(Bytes)) /\ Len(y) = n
        /\ \A i \in 1 .. n : y[i] = m[(M - n) + i]
    BY <2>1, <2>2, PieceIs
  <2> HIDE DEF x, y
  <2>5. x = y
    BY <1>9, <2>3, <2>4, SeqEqual
  <2> QED
    BY <2>5 DEF x, y
<1> QED
  BY <1>7, <1>10 DEF l, m, ab

\* The end of the file that the first chunk holds, and when it is all tailLines needs.
LastChunk == SubSeq(log, (IF size > Chunk THEN size - Chunk ELSE 0) + 1, size)
OneEnough == size <= Chunk \/ LineFeeds(LastChunk) > maxLines

OneChunkInv ==
    /\ maxLines \in Nat
    /\ pc # "read" /\ filled = 0 => size = 0
    /\ OneEnough /\ pc = "read" => filled = 0
    /\ OneEnough /\ pc # "read" => Buffer(tmp) = LastChunk
    /\ OneEnough /\ pc = "done" => result = LastLines(Lines(LastChunk), maxLines)

\* What is appended meanwhile is not in it.
LEMMA LastChunkKept ==
    ASSUME TailInv, LogGrows
    PROVE  LastChunk' = LastChunk
<1> DEFINE from == IF size > Chunk THEN size - Chunk ELSE 0
<1>1. PICK b \in Bytes : log' = Append(log, b)
  BY DEF LogGrows
<1>2. /\ log \in Seq(Bytes) /\ size \in Nat /\ size <= Len(log) /\ Chunk \in Nat /\ size' = size
  BY TailAssumption DEF TailInv, LogGrows
<1>3. log' \in Seq(Bytes) /\ Len(log') = Len(log) + 1 /\ \A i \in 1 .. Len(log) : log'[i] = log[i]
  BY <1>1, <1>2, AppendProperties
<1>4. from \in Nat /\ from <= size
  BY <1>2
<1> HIDE DEF from
<1> DEFINE n == size - from
           x == SubSeq(log, (size - n) + 1, size)
           y == SubSeq(log', (size - n) + 1, size)
<1>5. n \in 0 .. size /\ size \in 0 .. Len(log) /\ size \in 0 .. Len(log') /\ size - n = from
  BY <1>2, <1>3, <1>4
<1> HIDE DEF n
<1>6. x \in Seq(Bytes) /\ Len(x) = n /\ \A i \in 1 .. n : x[i] = log[(size - n) + i]
  BY <1>2, <1>5, PieceIs
<1>7. y \in Seq(Bytes) /\ Len(y) = n /\ \A i \in 1 .. n : y[i] = log'[(size - n) + i]
  BY <1>3, <1>5, PieceIs
<1>8. \A i \in 1 .. n : (size - n) + i \in 1 .. Len(log)
  BY <1>2, <1>5
<1> HIDE DEF x, y
<1>9. x = y
  BY <1>3, <1>6, <1>7, <1>8, SeqEqual
<1>10. SubSeq(log, from + 1, size) = SubSeq(log', from + 1, size)
  BY <1>5, <1>9 DEF x, y
<1> QED
  BY <1>2, <1>10 DEF LastChunk, from

\* The first chunk read is that end.
LEMMA FirstChunk ==
    ASSUME TailInv, ReadChunk, filled = 0
    PROVE  /\ SubSeq(tmp', 1, ChunkLen) = LastChunk
           /\ Appended(tmp', Buffer(tmp')) = LastChunk
           /\ Buffer(tmp)' = LastChunk
           /\ size <= Chunk => pos' = 0
<1>1. PICK n \in 1 .. Chunk : n = ChunkLen /\ n <= pos
  BY ChunkFits DEF ReadChunk
<1>2. /\ Chunk \in Nat /\ n \in Nat /\ pos \in Nat /\ size \in Nat
      /\ pos = size /\ size <= Len(log) /\ log \in Seq(Bytes)
      /\ ~shared /\ own \in Seq(Bytes) /\ Len(own) = 0
  BY <1>1, TailAssumption DEF TailInv
<1>3. /\ pos' = pos - n /\ filled' = n + filled /\ shared' = (filled = 0)
      /\ tmp' = [i \in 1 .. Chunk |-> IF i <= n THEN log[pos - n + i] ELSE tmp[i]]
  BY <1>1 DEF ReadChunk
<1>4. n = IF size < Chunk THEN size ELSE Chunk
  BY <1>1, <1>2 DEF ChunkLen
<1>5. (IF size > Chunk THEN size - Chunk ELSE 0) = size - n
  BY <1>2, <1>4
<1>6. LastChunk = SubSeq(log, (size - n) + 1, size)
  BY <1>5 DEF LastChunk
<1>7. /\ LastChunk \in Seq(Bytes) /\ Len(LastChunk) = n
      /\ \A i \in 1 .. n : LastChunk[i] = log[(size - n) + i]
  <2>1. size \in 0 .. Len(log) /\ n \in 0 .. size
    BY <1>1, <1>2
  <2> QED
    BY <1>2, <1>6, <2>1, PieceIs
<1>8. \A i \in 1 .. n : tmp'[i] = LastChunk[i]
  <2>1. \A i \in 1 .. n : i \in 1 .. Chunk /\ i <= n
    BY <1>1, <1>2
  <2> QED
    BY <1>2, <1>3, <1>7, <2>1
<1> DEFINE chunk == SubSeq(tmp', 1, n)
<1>9. /\ chunk \in Seq(Bytes) /\ Len(chunk) = n /\ \A i \in 1 .. n : chunk[i] = LastChunk[i]
  <2>1. \A i \in 1 .. n : tmp'[i] \in Bytes
    BY <1>7, <1>8
  <2>2. /\ chunk \in Seq(Bytes) /\ Len(chunk) = (IF 1 <= n THEN n - 1 + 1 ELSE 0)
        /\ \A i \in 1 .. n - 1 + 1 : chunk[i] = tmp'[1 + i - 1]
    BY <1>2, <2>1, SubSeqProperties
  <2>3. \A i \in 1 .. n : i \in 1 .. n - 1 + 1 /\ 1 + i - 1 = i
    BY <1>2
  <2>4. Len(chunk) = n
    BY <1>2, <2>2
  <2> QED
    BY <1>8, <2>2, <2>3, <2>4
<1> HIDE DEF chunk
<1>10. chunk = LastChunk
  BY <1>7, <1>9, SeqEqual
<1>11. Appended(tmp', Buffer(tmp')) = chunk \o own
  BY <1>1, <1>2 DEF Appended, Buffer, chunk
<1>12. chunk \o own = chunk
  <2>1. own = <<>>
    BY <1>2
  <2> QED
    BY <1>9, <2>1, ConcatEmptySeq
<1>13. Buffer(tmp)' = chunk
  <2>1. filled' = n /\ shared'
    <3>1. filled' = n
      BY <1>2, <1>3
    <3>2. shared'
      BY <1>3
    <3> QED
      BY <3>1, <3>2
  <2> QED
    BY <2>1 DEF Buffer, chunk
<1>14. size <= Chunk => pos' = 0
  BY <1>2, <1>3, <1>4
<1> QED
  BY <1>1, <1>10, <1>11, <1>12, <1>13, <1>14 DEF chunk

LEMMA OneChunkInit == Init => OneChunkInv
<1> SUFFICES ASSUME Init PROVE OneChunkInv
  OBVIOUS
<1>1. maxLines \in Nat
  BY TailAssumption DEF Init
<1>2. filled = 0 /\ shared = FALSE /\ own = <<>> /\ pc # "done" /\ (pc # "read" => ~(pos > 0))
      /\ pos = size
  BY DEF Init
<1>3. PICK k \in 0 .. MaxFile : log \in [1 .. k -> Bytes]
  BY DEF Init, Logs
<1>4. log \in Seq(Bytes) /\ Len(log) = k /\ k \in Nat /\ size = k
  BY <1>3, TailAssumption DEF Init
<1>5. pc # "read" => size = 0
  BY <1>2, <1>4
<1>6. ASSUME pc # "read" PROVE Buffer(tmp) = LastChunk
  <2>1. Buffer(tmp) = <<>>
    BY <1>2 DEF Buffer
  <2>2. LastChunk = SubSeq(log, 1, 0)
    BY <1>5, <1>6, TailAssumption DEF LastChunk
  <2>3. SubSeq(log, 1, 0) = <<>>
    BY SubSeqEmpty
  <2> QED
    BY <2>1, <2>2, <2>3
<1> QED
  BY <1>1, <1>2, <1>5, <1>6 DEF OneChunkInv

LEMMA OneChunkNext ==
    ASSUME TailInv, OneChunkInv, [Next]_vars
    PROVE  OneChunkInv'
<1>1. CASE ReadChunk
  <2>1. /\ pc = "read" /\ UNCHANGED <<log, maxLines, size, result>>
        /\ pc' = IF pos' = 0 \/ Enough(Appended(tmp', Buffer(tmp'))) THEN "split" ELSE "read"
        /\ filled' = ChunkLen + filled
    BY <1>1 DEF ReadChunk
  <2>2. filled' # 0
    BY <2>1, ChunkFits, TailAssumption DEF TailInv
  <2>3. LastChunk' = LastChunk /\ OneEnough' = OneEnough
    BY <2>1 DEF LastChunk, OneEnough
  <2>4. ASSUME OneEnough PROVE pc' = "split" /\ Buffer(tmp)' = LastChunk
    <3>1. filled = 0
      BY <2>1, <2>4 DEF OneChunkInv
    <3>2. Buffer(tmp)' = LastChunk
      BY <1>1, <3>1, FirstChunk
    <3>3. CASE size <= Chunk
      <4>1. pos' = 0
        BY <1>1, <3>1, <3>3, FirstChunk
      <4> QED
        BY <2>1, <3>2, <4>1
    <3>4. CASE LineFeeds(LastChunk) > maxLines
      <4>1. Enough(Appended(tmp', Buffer(tmp')))
        BY <1>1, <3>1, <3>4, FirstChunk DEF Enough
      <4> QED
        BY <2>1, <3>2, <4>1
    <3> QED
      BY <2>4, <3>3, <3>4 DEF OneEnough
  <2>5. pc' # "done" /\ maxLines' \in Nat
    BY <2>1 DEF OneChunkInv
  <2> QED
    BY <2>2, <2>3, <2>4, <2>5 DEF OneChunkInv
<1>2. CASE SplitLines
  <2>1. /\ pc = "split" /\ pc' = "done"
        /\ result' = LastLines(Lines(Buffer(tmp)), maxLines)
        /\ UNCHANGED <<log, maxLines, size, pos, tmp, shared, own, filled>>
    BY <1>2 DEF SplitLines
  <2>2. LastChunk' = LastChunk /\ OneEnough' = OneEnough /\ Buffer(tmp)' = Buffer(tmp)
    BY <2>1 DEF LastChunk, OneEnough, Buffer
  <2> QED
    BY <2>1, <2>2 DEF OneChunkInv
<1>3. CASE LogGrows
  <2>1. /\ pc # "done"
        /\ UNCHANGED <<maxLines, size, pos, tmp, shared, own, filled, result, pc>>
    BY <1>3 DEF LogGrows
  <2>2. LastChunk' = LastChunk
    BY <1>3, LastChunkKept
  <2>3. OneEnough' = OneEnough /\ Buffer(tmp)' = Buffer(tmp)
    BY <2>1, <2>2 DEF OneEnough, Buffer
  <2> QED
    BY <2>1, <2>2, <2>3 DEF OneChunkInv
<1>4. CASE UNCHANGED vars
  <2>1. UNCHANGED <<log, maxLines, size, pos, tmp, shared, own, filled, result, pc>>
    BY <1>4 DEF vars
  <2>2. LastChunk' = LastChunk /\ OneEnough' = OneEnough /\ Buffer(tmp)' = Buffer(tmp)
    BY <2>1 DEF LastChunk, OneEnough, Buffer
  <2> QED
    BY <2>1, <2>2 DEF OneChunkInv
<1> QED
  BY <1>1, <1>2, <1>3, <1>4 DEF Next

\* Whenever one chunk is enough, tailLines returns the file's last lines: for every log,
\* chunk size and number of lines, and however the log grows meanwhile.
THEOREM OneChunkTail == Spec => []OneChunkSuffices
<1>1. TailInv /\ OneChunkInv => OneChunkSuffices
  <2> SUFFICES ASSUME TailInv, OneChunkInv, pc = "done", OneEnough
               PROVE  result = WantedTail(maxLines)
    BY DEF OneChunkSuffices, OneEnough, LastChunk
  <2>1. result = LastLines(Lines(LastChunk), maxLines)
    BY DEF OneChunkInv
  <2>2. CASE size <= Chunk
    <3>1. LastChunk = SubSeq(log, 1, size)
      BY <2>2, TailAssumption DEF LastChunk, TailInv
    <3> QED
      BY <2>1, <3>1 DEF WantedTail
  <2>3. CASE size > Chunk
    <3> DEFINE a == SubSeq(log, 1, size - Chunk)
    <3>1. /\ log \in Seq(Bytes) /\ size \in Nat /\ Chunk \in Nat /\ size <= Len(log)
          /\ maxLines \in Nat /\ Chunk # 0
      BY TailAssumption DEF TailInv, OneChunkInv
    <3>2. LineFeeds(LastChunk) > maxLines
      BY <2>3, <3>1 DEF OneEnough
    <3>3. LastChunk = SubSeq(log, (size - Chunk) + 1, size)
      BY <2>3 DEF LastChunk
    <3>4. a \o LastChunk = SubSeq(log, 1, size)
      <4>1. /\ 1 \in 1 .. Len(log) + 1 /\ size - Chunk \in 1 - 1 .. Len(log)
            /\ size \in size - Chunk .. Len(log)
        BY <2>3, <3>1
      <4> QED
        BY <3>1, <3>3, <4>1, ConcatAdjacentSubSeq
    <3>5. a \in Seq(Bytes) /\ LastChunk \in Seq(Bytes)
      <4>1. /\ size - Chunk \in 0 .. Len(log) /\ size \in 0 .. Len(log) /\ Chunk \in 0 .. size
            /\ (size - Chunk) - (size - Chunk) = 0 /\ size - Chunk \in 0 .. size - Chunk
        BY <2>3, <3>1
      <4>2. LastChunk \in Seq(Bytes)
        BY <3>1, <3>3, <4>1, PieceIs
      <4>3. SubSeq(log, ((size - Chunk) - (size - Chunk)) + 1, size - Chunk) \in Seq(Bytes)
        BY <3>1, <4>1, PieceIs
      <4> QED
        BY <4>1, <4>2, <4>3
    <3> HIDE DEF a
    <3>6. LastLines(Lines(a \o LastChunk), maxLines) = LastLines(Lines(LastChunk), maxLines)
      BY <3>1, <3>2, <3>5, LastLinesOfJoined
    <3> QED
      BY <2>1, <3>4, <3>6 DEF WantedTail
  <2>4. size \in Nat /\ Chunk \in Nat
    BY TailAssumption DEF TailInv
  <2> QED
    BY <2>2, <2>3, <2>4
<1>2. Spec => []OneChunkInv
  BY OneChunkInit, OneChunkNext, TailInvHolds, PTL DEF Spec
<1> QED
  BY TailInvHolds, <1>1, <1>2, PTL

-----------------------------------------------------------------------------
(* The hello the builder makes                                               *)

Octet == 0 .. 255

\* Byte sequences of length n.
Text(n) == {s \in Seq(Octet) : Len(s) = n}

LEMMA OctetsAreNumbers == ASSUME NEW s \in Seq(Octet) PROVE s \in Seq(Nat)
<1>1. Len(s) \in Nat
  BY LenProperties, Zenon
<1>2. \A x \in Octet : x \in Nat
  BY DEF Octet
<1>3. ASSUME NEW i \in 1 .. Len(s) PROVE s[i] \in Nat
  <2>1. s[i] \in Octet
    BY ElementOfSeq, Zenon
  <2> QED
    BY <1>2, <2>1, Zenon
<1>4. SubSeq(s, 1, Len(s)) \in Seq(Nat)
  BY <1>1, <1>3, SubSeqProperties
<1> QED
  BY <1>4, SubSeqFull

LEMMA Joined ==
    ASSUME NEW m \in Nat, NEW n \in Nat, NEW k, k = m + n, NEW a \in Text(m), NEW b \in Text(n)
    PROVE  a \o b \in Text(k)
<1>1. a \in Seq(Octet) /\ b \in Seq(Octet) /\ Len(a) = m /\ Len(b) = n
  BY DEF Text
<1>2. a \o b \in Seq(Octet) /\ Len(a \o b) = Len(a) + Len(b)
  BY <1>1, ConcatProperties, Zenon
<1> QED
  BY <1>1, <1>2, Zenon DEF Text

LEMMA TwoBytesAre == ASSUME NEW n \in Nat PROVE TwoBytes(n) \in Text(2)
<1> DEFINE a == (n \div 256) % 256
           b == n % 256
<1>1. a \in Octet /\ b \in Octet
  BY DEF Octet
<1> HIDE DEF a, b
<1>2. <<a, b>> \in Seq(Octet) /\ Len(<<a, b>>) = 2
  BY <1>1
<1> QED
  BY <1>2 DEF TwoBytes, Text, a, b

LEMMA FillerIs == ASSUME NEW n \in Nat PROVE Filler(n) \in Text(n)
BY DEF Filler, Text, Octet

LEMMA LengthOfText == ASSUME NEW n, NEW s \in Text(n) PROVE Len(s) = n
  BY DEF Text

\* An extension adds a header of four bytes.
LEMMA ExtensionIs ==
    ASSUME NEW type \in Nat, NEW n \in Nat, NEW body \in Text(n), NEW k, k = 4 + n
    PROVE  Extension(type, body) \in Text(k)
<1> DEFINE h == TwoBytes(type) \o TwoBytes(Len(body))
<1>1. TwoBytes(type) \in Text(2) /\ TwoBytes(Len(body)) \in Text(2)
  BY LengthOfText, TwoBytesAre
<1>2. h \in Text(4)
  BY <1>1, Joined, 4 = 2 + 2, 2 \in Nat, Zenon
<1> HIDE DEF h
<1>3. h \o body \in Text(k)
  BY <1>2, Joined, 4 \in Nat, Zenon
<1> QED
  BY <1>3, Zenon DEF Extension, h

LEMMA SNIExtensionIs ==
    ASSUME NEW n \in Nat, NEW name \in Text(n)
    PROVE  BuildSNIExtension(name) \in Text(9 + n)
<1> DEFINE h == <<0>> \o TwoBytes(Len(name))
           entry == h \o name
           body == TwoBytes(Len(entry)) \o entry
<1>1. TwoBytes(Len(name)) \in Text(2)
  BY LengthOfText, TwoBytesAre
<1>2. <<0>> \in Text(1)
  BY DEF Text, Octet
<1>3. h \in Text(3)
  BY <1>1, <1>2, Joined, 3 = 1 + 2, 1 \in Nat, 2 \in Nat, Zenon
<1> HIDE DEF h
<1>4. entry \in Text(3 + n) /\ 3 + n \in Nat
  BY <1>3, Joined, 3 \in Nat, 3 + n \in Nat, Zenon
<1> HIDE DEF entry
<1>5. TwoBytes(Len(entry)) \in Text(2)
  BY <1>4, LengthOfText, TwoBytesAre
<1>6. body \in Text(5 + n) /\ 5 + n \in Nat
  BY <1>4, <1>5, Joined, 5 + n = 2 + (3 + n), 2 \in Nat, 5 + n \in Nat, Zenon
<1> HIDE DEF body
<1>7. Extension(0, body) \in Text(9 + n)
  BY <1>6, ExtensionIs, 9 + n = 4 + (5 + n), 0 \in Nat, Zenon
<1> QED
  BY <1>7 DEF BuildSNIExtension, body, entry, h

LEMMA KeyShareIs == BuildKeyShareExtension(Filler(32)) \in Text(42)
<1> DEFINE key == Filler(32)
           h == TwoBytes(29) \o TwoBytes(Len(key))
           entry == h \o key
           body == TwoBytes(Len(entry)) \o entry
<1>1. key \in Text(32)
  BY FillerIs
<1> HIDE DEF key
<1>2. TwoBytes(29) \in Text(2) /\ TwoBytes(Len(key)) \in Text(2)
  BY <1>1, LengthOfText, TwoBytesAre
<1>3. h \in Text(4)
  BY <1>2, Joined, 4 = 2 + 2, 2 \in Nat, Zenon
<1> HIDE DEF h
<1>4. entry \in Text(36)
  BY <1>1, <1>3, Joined, 36 = 4 + 32, 4 \in Nat, 32 \in Nat, Zenon
<1> HIDE DEF entry
<1>5. TwoBytes(Len(entry)) \in Text(2)
  BY <1>4, LengthOfText, TwoBytesAre
<1>6. body \in Text(38)
  BY <1>4, <1>5, Joined, 38 = 2 + 36, 2 \in Nat, 36 \in Nat, Zenon
<1> HIDE DEF body
<1>7. Extension(51, body) \in Text(42)
  BY <1>6, ExtensionIs, 42 = 4 + 38, 51 \in Nat, 38 \in Nat, Zenon
<1> QED
  BY <1>7 DEF BuildKeyShareExtension, body, entry, h, key

\* An extension whose body is filler.
LEMMA FilledExtensionIs ==
    ASSUME NEW type \in Nat, NEW n \in Nat
    PROVE  Extension(type, Filler(n)) \in Text(4 + n)
BY FillerIs, ExtensionIs, Zenon

LEMMA EmptyExtensionIs == ASSUME NEW type \in Nat PROVE Extension(type, <<>>) \in Text(4)
<1>1. <<>> \in Text(0)
  BY DEF Text
<1> QED
  BY <1>1, ExtensionIs, 4 = 4 + 0, 0 \in Nat, Zenon

LEMMA FixedExtensionsAre == FixedExtensions \in Text(125)
<1> DEFINE e1 == Extension(11, Filler(4))
           e2 == Extension(10, Filler(22))
           e3 == Extension(35, <<>>)
           e4 == Extension(16, Filler(14))
           e5 == Extension(22, <<>>)
           e6 == Extension(23, <<>>)
           e7 == Extension(13, Filler(42))
           e8 == Extension(43, Filler(5))
           e9 == Extension(45, Filler(2))
           f2 == e1 \o e2
           f3 == f2 \o e3
           f4 == f3 \o e4
           f5 == f4 \o e5
           f6 == f5 \o e6
           f7 == f6 \o e7
           f8 == f7 \o e8
           f9 == f8 \o e9
<1>1. e1 \in Text(4 + 4) /\ e2 \in Text(4 + 22) /\ e4 \in Text(4 + 14) /\ e7 \in Text(4 + 42)
      /\ e8 \in Text(4 + 5) /\ e9 \in Text(4 + 2)
  BY FilledExtensionIs
<1>2. e3 \in Text(4) /\ e5 \in Text(4) /\ e6 \in Text(4)
  BY EmptyExtensionIs
<1> HIDE DEF e1, e2, e3, e4, e5, e6, e7, e8, e9, f2, f3, f4, f5, f6, f7, f8, f9
<1>3. e1 \in Text(8) /\ e2 \in Text(26) /\ e4 \in Text(18) /\ e7 \in Text(46) /\ e8 \in Text(9)
      /\ e9 \in Text(6)
  BY <1>1
<1>4. f2 \in Text(34)
  BY <1>3, Joined, 34 = 8 + 26, 8 \in Nat, 26 \in Nat, Zenon DEF f2
<1>5. f3 \in Text(38)
  BY <1>2, <1>4, Joined, 38 = 34 + 4, 34 \in Nat, 4 \in Nat, Zenon DEF f3
<1>6. f4 \in Text(56)
  BY <1>3, <1>5, Joined, 56 = 38 + 18, 38 \in Nat, 18 \in Nat, Zenon DEF f4
<1>7. f5 \in Text(60)
  BY <1>2, <1>6, Joined, 60 = 56 + 4, 56 \in Nat, 4 \in Nat, Zenon DEF f5
<1>8. f6 \in Text(64)
  BY <1>2, <1>7, Joined, 64 = 60 + 4, 60 \in Nat, 4 \in Nat, Zenon DEF f6
<1>9. f7 \in Text(110)
  BY <1>3, <1>8, Joined, 110 = 64 + 46, 64 \in Nat, 46 \in Nat, Zenon DEF f7
<1>10. f8 \in Text(119)
  BY <1>3, <1>9, Joined, 119 = 110 + 9, 110 \in Nat, 9 \in Nat, ZenonT(60) DEF f8
<1>11. f8 \o e9 \in Text(125)
  <2>1. e9 \in Text(6)
    BY <1>3
  <2>2. \A k : k = 119 + 6 => f8 \o e9 \in Text(k)
    BY <2>1, <1>10, Joined, 119 \in Nat, 6 \in Nat, Zenon
  <2> QED
    BY <2>2, 125 = 119 + 6, Zenon
<1>12. f9 \in Text(125)
  BY <1>11 DEF f9
<1> QED
  BY <1>12, Zenon DEF FixedExtensions, e1, e2, e3, e4, e5, e6, e7, e8, e9,
                      f2, f3, f4, f5, f6, f7, f8, f9

LEMMA RecordIs ==
    ASSUME NEW type \in Octet, NEW n \in Nat, NEW content \in Text(n), NEW k, k = 5 + n
    PROVE  Record(type, content) \in Text(k)
<1> DEFINE h == <<type, 3, 1>> \o TwoBytes(Len(content))
<1>1. <<type, 3, 1>> \in Text(3)
  BY DEF Text, Octet
<1>2. TwoBytes(Len(content)) \in Text(2)
  BY LengthOfText, TwoBytesAre
<1>3. h \in Text(5)
  BY <1>1, <1>2, Joined, 5 = 3 + 2, 3 \in Nat, 2 \in Nat, Zenon
<1> HIDE DEF h
<1>4. h \o content \in Text(k)
  BY <1>3, Joined, 5 \in Nat, Zenon
<1> QED
  BY <1>4, Zenon DEF Record, h

LEMMA HandshakeIs ==
    ASSUME NEW n \in Nat, NEW body \in Text(n), NEW k, k = 4 + n
    PROVE  Handshake(body) \in Text(k)
<1> DEFINE high == (Len(body) \div 65536) % 256
           h == <<1, high>> \o TwoBytes(Len(body))
<1>1. Len(body) = n
  BY LengthOfText
<1>2. high \in Octet
  BY <1>1 DEF Octet
<1>3. TwoBytes(Len(body)) \in Text(2)
  BY <1>1, TwoBytesAre
<1>4. Handshake(body) = h \o body
  BY DEF Handshake
<1> HIDE DEF high
<1>5. <<1, high>> \in Text(2)
  BY <1>2 DEF Text, Octet
<1>6. h \in Text(4)
  BY <1>3, <1>5, Joined, 4 = 2 + 2, 2 \in Nat, Zenon
<1> HIDE DEF h
<1>7. h \o body \in Text(k)
  BY <1>6, Joined, 4 \in Nat, Zenon
<1> QED
  BY <1>4, <1>7, Zenon

\* Version, random, session id, suites and compression.
LEMMA FieldsAre ==
    <<3, 3>> \o Filler(32) \o <<32>> \o Filler(32) \o TwoBytes(36) \o Filler(36) \o <<1, 0>> \in Text(107)
<1> DEFINE a == <<3, 3>>
           b == Filler(32)
           c == <<32>>
           d == TwoBytes(36)
           e == Filler(36)
           f == <<1, 0>>
           g1 == a \o b
           g2 == g1 \o c
           g3 == g2 \o b
           g4 == g3 \o d
           g5 == g4 \o e
           g6 == g5 \o f
<1>1. a \in Text(2) /\ c \in Text(1) /\ f \in Text(2)
  BY DEF Text, Octet
<1>2. b \in Text(32) /\ e \in Text(36)
  BY FillerIs
<1>3. d \in Text(2)
  BY TwoBytesAre
<1> HIDE DEF a, b, c, d, e, f, g1, g2, g3, g4, g5, g6
<1>4. g1 \in Text(34)
  BY <1>1, <1>2, Joined, 34 = 2 + 32, 2 \in Nat, 32 \in Nat, Zenon DEF g1
<1>5. g2 \in Text(35)
  BY <1>1, <1>4, Joined, 35 = 34 + 1, 34 \in Nat, 1 \in Nat, Zenon DEF g2
<1>6. g3 \in Text(67)
  BY <1>2, <1>5, Joined, 67 = 35 + 32, 35 \in Nat, 32 \in Nat, Zenon DEF g3
<1>7. g4 \in Text(69)
  BY <1>3, <1>6, Joined, 69 = 67 + 2, 67 \in Nat, 2 \in Nat, Zenon DEF g4
<1>8. g5 \in Text(105)
  BY <1>2, <1>7, Joined, 105 = 69 + 36, 69 \in Nat, 36 \in Nat, Zenon DEF g5
<1>9. g6 \in Text(107)
  BY <1>1, <1>8, Joined, 107 = 105 + 2, 105 \in Nat, 2 \in Nat, ZenonT(60) DEF g6
<1> QED
  BY <1>9, Zenon DEF a, b, c, d, e, f, g1, g2, g3, g4, g5, g6

\* Room for the header and the zeros is left for names of up to 219 bytes.
LEMMA PaddingIs ==
    ASSUME NEW n \in Nat
    PROVE  /\ n <= 219 => BuildPaddingExtension(517, 294 + n) \in Text(223 - n)
           /\ n > 219 => BuildPaddingExtension(517, 294 + n) \in Text(0)
<1>1. CASE n <= 219
  <2> DEFINE m == 517 - (294 + n) - 4
             zeros == [i \in 1 .. m |-> 0]
  <2>1. m \in Nat /\ 223 - n = 4 + m /\ ~(294 + n + 4 > 517)
    BY <1>1
  <2>2. 223 - n = 4 + m /\ BuildPaddingExtension(517, 294 + n) = Extension(21, zeros)
    BY <2>1 DEF BuildPaddingExtension
  <2> HIDE DEF m
  <2>3. zeros \in Text(m)
    BY <2>1 DEF Text, Octet
  <2> HIDE DEF zeros
  <2>4. Extension(21, zeros) \in Text(223 - n)
    BY <2>1, <2>2, <2>3, ExtensionIs, 21 \in Nat, ZenonT(60)
  <2> QED
    BY <1>1, <2>2, <2>4
<1>2. CASE n > 219
  BY <1>2 DEF BuildPaddingExtension, Text
<1> QED
  BY <1>1, <1>2

\* Record, handshake and length fields add eleven bytes to fields, extensions and padding.
\* A handshake record of k bytes, and nothing else.
OneRecord(k) == {d \in Text(k) : \E content \in Seq(Octet) : d = Record(22, content)}

LEMMA WrappedHello ==
    ASSUME NEW l \in Nat, NEW m \in Nat, NEW p \in Nat,
           NEW fields \in Text(l), NEW exts \in Text(m), NEW padding \in Text(p),
           NEW k, k = 11 + l + m + p
    PROVE  Record(22, Handshake(fields \o TwoBytes(Len(exts \o padding)) \o exts \o padding))
             \in OneRecord(k)
<1> DEFINE mp == m + p
           l2 == l + 2
           lm == l2 + m
           lmp == lm + p
           h == 4 + lmp
           padded == exts \o padding
           b1 == fields \o TwoBytes(Len(padded))
           b2 == b1 \o exts
           body == b2 \o padding
           hs == Handshake(body)
<1>1. mp \in Nat /\ l2 \in Nat /\ lm \in Nat /\ lmp \in Nat /\ h \in Nat /\ k = 5 + h
  OBVIOUS
<1>2. mp = m + p /\ l2 = l + 2 /\ lm = l2 + m /\ lmp = lm + p /\ h = 4 + lmp
  OBVIOUS
<1> HIDE DEF mp, l2, lm, lmp, h
<1>3. padded \in Text(mp)
  BY <1>2, Joined, Zenon
<1> HIDE DEF padded
<1>4. TwoBytes(Len(padded)) \in Text(2)
  <2>1. Len(padded) = mp
    BY <1>3, LengthOfText, Zenon
  <2> QED
    BY <1>1, <2>1, TwoBytesAre
<1>5. b1 \in Text(l2)
  BY <1>2, <1>4, Joined, 2 \in Nat, Zenon
<1> HIDE DEF b1
<1>6. b2 \in Text(lm)
  BY <1>1, <1>2, <1>5, Joined, Zenon
<1> HIDE DEF b2
<1>7. body \in Text(lmp)
  BY <1>1, <1>2, <1>6, Joined, Zenon
<1> HIDE DEF body
<1>8. hs \in Text(h)
  BY <1>1, <1>2, <1>7, HandshakeIs, Zenon
<1> HIDE DEF hs
<1>9. 22 \in Octet
  BY DEF Octet
<1>10. Record(22, hs) \in Text(k)
  BY <1>1, <1>8, <1>9, RecordIs, Zenon
<1>11. Record(22, hs) \in OneRecord(k)
  BY <1>8, <1>10 DEF Text, OneRecord
<1> QED
  BY <1>11, Zenon DEF hs, body, b2, b1, padded

\* What the builder returns for a name of n bytes: 517 bytes, or as many as it takes.
LEMMA HelloIs ==
    ASSUME NEW n \in Nat, NEW name \in Text(n)
    PROVE  /\ n <= 219 => BuildClientHello(name) \in OneRecord(517)
           /\ n > 219 => BuildClientHello(name) \in OneRecord(294 + n)
<1> DEFINE m1 == 9 + n
           m2 == m1 + 125
           m == m2 + 42
           sni == BuildSNIExtension(name)
           share == BuildKeyShareExtension(Filler(32))
           exts1 == sni \o FixedExtensions
           exts == exts1 \o share
           fields == <<3, 3>> \o Filler(32) \o <<32>> \o Filler(32)
                       \o TwoBytes(36) \o Filler(36) \o <<1, 0>>
           padding == BuildPaddingExtension(517, 5 + 4 + Len(fields) + 2 + Len(exts))
           padded == exts \o padding
           hello == Record(22, Handshake(fields \o TwoBytes(Len(padded)) \o exts \o padding))
<1>1. sni \in Text(m1)
  BY SNIExtensionIs, Zenon
<1>2. share \in Text(42)
  BY KeyShareIs, Zenon
<1>3. fields \in Text(107)
  BY FieldsAre, Zenon
<1>4. BuildClientHello(name) = hello
  BY Zenon DEF BuildClientHello
<1>5. padding = BuildPaddingExtension(517, 5 + 4 + Len(fields) + 2 + Len(exts))
  OBVIOUS
<1>6. m1 \in Nat /\ m2 \in Nat /\ m \in Nat /\ m = 176 + n
  OBVIOUS
<1>7. m2 = m1 + 125 /\ m = m2 + 42
  OBVIOUS
<1> HIDE DEF m1, m2, m, sni, share, fields, padding
<1>8. exts1 \in Text(m2)
  BY <1>1, <1>6, <1>7, FixedExtensionsAre, Joined, 125 \in Nat, Zenon
<1> HIDE DEF exts1
<1>9. exts \in Text(m)
  BY <1>2, <1>6, <1>7, <1>8, Joined, 42 \in Nat, Zenon
<1> HIDE DEF exts
<1>10. padding = BuildPaddingExtension(517, 294 + n)
  <2>1. Len(fields) = 107
    BY <1>3, LengthOfText, Zenon
  <2>2. Len(exts) = m
    BY <1>9, LengthOfText, Zenon
  <2>3. 5 + 4 + Len(fields) + 2 + Len(exts) = 294 + n
    BY <1>6, <2>1, <2>2
  <2> QED
    BY <1>5, <2>3, Zenon
<1>11. ASSUME NEW p \in Nat, padding \in Text(p), NEW k, k = 11 + 107 + m + p
       PROVE  BuildClientHello(name) \in OneRecord(k)
  <2> DEFINE l == 107
  <2>1. l \in Nat /\ m \in Nat /\ fields \in Text(l) /\ k = 11 + l + m + p
    BY <1>3, <1>6, <1>11
  <2> HIDE DEF l
  <2>2. p \in Nat /\ padding \in Text(p)
    BY <1>11
  <2>3. hello \in OneRecord(k)
    BY <1>9, <2>1, <2>2, WrappedHello, Zenon
  <2> QED
    BY <1>4, <2>3, Zenon
<1> HIDE DEF hello
<1>12. CASE n <= 219
  <2>1. 223 - n \in Nat /\ 517 = 11 + 107 + m + (223 - n)
    BY <1>6, <1>12
  <2>2. padding \in Text(223 - n)
    BY <1>10, <1>12, PaddingIs
  <2>3. BuildClientHello(name) \in OneRecord(517)
    BY <1>11, <2>1, <2>2, ZenonT(60)
  <2> QED
    BY <1>12, <2>3
<1>13. CASE n > 219
  <2>1. 294 + n = 11 + 107 + m + 0
    BY <1>6
  <2>2. padding \in Text(0)
    BY <1>10, <1>13, PaddingIs
  <2>3. BuildClientHello(name) \in OneRecord(294 + n)
    BY <1>11, <2>1, <2>2, 0 \in Nat, Zenon
  <2> QED
    BY <1>13, <2>3
<1> QED
  BY <1>12, <1>13

\* The fake hello has the size of a real one for every name, not only for the lengths a
\* run tries: 517 bytes while the name leaves room for the padding, and for a longer name
\* exactly what its fields take (BuildClientHello, internal/tlsutil/builder.go).
THEOREM HelloLength ==
    ASSUME NEW n \in Nat
    PROVE  Len(BuildClientHello(Filler(n))) = IF n <= 219 THEN 517 ELSE 294 + n
<1>1. Filler(n) \in Text(n)
  BY FillerIs
<1>2. /\ n <= 219 => BuildClientHello(Filler(n)) \in OneRecord(517)
      /\ n > 219 => BuildClientHello(Filler(n)) \in OneRecord(294 + n)
  BY <1>1, HelloIs, ZenonT(40)
<1> DEFINE hello == BuildClientHello(Filler(n))
<1>3. /\ n <= 219 => hello \in Text(517)
      /\ n > 219 => hello \in Text(294 + n)
  BY <1>2 DEF OneRecord
<1> HIDE DEF hello
<1>4. (n <= 219 => Len(hello) = 517) /\ (n > 219 => Len(hello) = 294 + n)
  BY <1>3 DEF Text
<1>5. Len(hello) = IF n <= 219 THEN 517 ELSE 294 + n
  BY <1>4
<1> QED
  BY <1>5 DEF hello

-----------------------------------------------------------------------------
(* The first flight                                                          *)

\* The pieces fs are what is left of d when it is cut at the places c.
Cuts(fs, d, c) ==
    /\ c \in [0 .. Len(fs) -> 0 .. Len(d)]
    /\ c[Len(fs)] = Len(d)
    /\ \A i \in 1 .. Len(fs) : c[i - 1] <= c[i] /\ fs[i] = SubSeq(d, c[i - 1] + 1, c[i])

\* fs holds what follows the first k bytes of d.
Holds(fs, d, k) == fs \in Seq(Seq(Nat)) /\ \E c : Cuts(fs, d, c) /\ c[0] = k

LEMMA PieceOf ==
    ASSUME NEW d \in Seq(Nat), NEW m \in Nat, NEW n \in 0 .. Len(d)
    PROVE  SubSeq(d, m + 1, n) \in Seq(Nat)
<1>1. \A i \in m + 1 .. n : d[i] \in Nat
  OBVIOUS
<1> QED
  BY <1>1, SubSeqProperties

LEMMA OnePiece == ASSUME NEW d \in Seq(Nat) PROVE Holds(<<d>>, d, 0)
<1> DEFINE c == [i \in 0 .. 1 |-> IF i = 0 THEN 0 ELSE Len(d)]
<1>1. d = SubSeq(d, 1, Len(d))
  BY SubSeqFull
<1>2. Cuts(<<d>>, d, c)
  BY <1>1 DEF Cuts
<1> QED
  BY <1>2 DEF Holds

LEMMA TwoPieces ==
    ASSUME NEW d \in Seq(Nat), NEW n \in 0 .. Len(d)
    PROVE  Holds(CutAfter(d, n), d, 0)
<1> DEFINE c == [i \in 0 .. 2 |-> IF i = 0 THEN 0 ELSE IF i = 1 THEN n ELSE Len(d)]
           a == SubSeq(d, 1, n)
           b == SubSeq(d, n + 1, Len(d))
<1>1. a \in Seq(Nat) /\ b \in Seq(Nat)
  <2>1. SubSeq(d, 0 + 1, n) \in Seq(Nat) /\ SubSeq(d, n + 1, Len(d)) \in Seq(Nat)
    BY PieceOf
  <2> QED
    BY <2>1
<1>2. CutAfter(d, n) = <<a, b>>
  BY DEF CutAfter
<1>3. a = SubSeq(d, c[0] + 1, c[1]) /\ b = SubSeq(d, c[1] + 1, c[2])
  OBVIOUS
<1>4. c \in [0 .. 2 -> 0 .. Len(d)] /\ c[0] = 0 /\ c[0] <= c[1] /\ c[1] <= c[2] /\ c[2] = Len(d)
  OBVIOUS
<1> HIDE DEF a, b, c
<1>5. <<a, b>> \in Seq(Seq(Nat)) /\ Len(<<a, b>>) = 2 /\ <<a, b>>[1] = a /\ <<a, b>>[2] = b
  BY <1>1
<1> DEFINE fs == <<a, b>>
<1>6. fs \in Seq(Seq(Nat)) /\ Len(fs) = 2 /\ fs[1] = a /\ fs[2] = b
  BY <1>5
<1> HIDE DEF fs
<1>7. \A i \in 1 .. 2 : c[i - 1] <= c[i] /\ fs[i] = SubSeq(d, c[i - 1] + 1, c[i])
  <2>1. TAKE i \in 1 .. 2
  <2>2. CASE i = 1
    BY <1>3, <1>4, <1>6, <2>2
  <2>3. CASE i = 2
    BY <1>3, <1>4, <1>6, <2>3
  <2> QED
    BY <2>2, <2>3
<1>8. Cuts(fs, d, c)
  BY <1>4, <1>6, <1>7 DEF Cuts
<1>9. Holds(fs, d, 0)
  BY <1>4, <1>6, <1>8 DEF Holds
<1> QED
  BY <1>2, <1>9 DEF fs

\* The scan stays within what was read: the name it reports ends there.
LEMMA ScanStaysInside ==
    ASSUME NEW d \in Seq(Nat), FindSNIOffset(d) # NoName
    PROVE  /\ FindSNIOffset(d).at - 1 + FindSNIOffset(d).len \in 0 .. Len(d)
           /\ FindSNIOffset(d).at - 1 + FindSNIOffset(d).len \div 2 \in 0 .. Len(d)
<1> DEFINE starts == {p \in 1 .. Len(d) : p + 10 <= Len(d) /\ SniExtensionAt(d, p)}
           start == CHOOSE p \in starts : \A q \in starts : p <= q
           w == Word(d, start + 7)
<1>1. starts # {}
  BY DEF FindSNIOffset
<1>2. \E p \in starts : \A q \in starts : p <= q
  BY <1>1, LeastNumber, starts \subseteq Nat
<1>3. start \in starts
  BY <1>2
<1>4. FindSNIOffset(d) = [at |-> start + 9, len |-> w]
  BY <1>1 DEF FindSNIOffset
<1> HIDE DEF start
<1>5. start \in 1 .. Len(d) /\ w \in 1 .. 255 /\ start + 8 + w <= Len(d)
  BY <1>3 DEF SniExtensionAt
<1> HIDE DEF w
<1> DEFINE at == FindSNIOffset(d).at
           len == FindSNIOffset(d).len
<1>6. at = start + 9 /\ len = w
  BY <1>4
<1> HIDE DEF at, len
<1>7. at - 1 + len \in 0 .. Len(d) /\ at - 1 + len \div 2 \in 0 .. Len(d)
  BY <1>5, <1>6
<1> QED
  BY <1>7, Zenon DEF at, len

LEMMA ManyPieces == ASSUME NEW d \in Seq(Nat) PROVE Holds(FragmentMulti(d, 24), d, 0)
<1> DEFINE m == (Len(d) + 24 - 1) \div 24
           end(i) == IF 24 * i > Len(d) THEN Len(d) ELSE 24 * i
           c == [i \in 0 .. m |-> end(i)]
           fs == FragmentMulti(d, 24)
<1>1. m \in Nat /\ Len(d) \in Nat /\ 24 * m >= Len(d) /\ 24 * m <= Len(d) + 23
  OBVIOUS
<1>2. fs = [i \in 1 .. m |-> SubSeq(d, 24 * (i - 1) + 1, end(i))]
  BY DEF FragmentMulti
<1> HIDE DEF m, fs
<1>3. \A i \in 1 .. m : 24 * (i - 1) < Len(d) \/ Len(d) = 0
  BY <1>1
<1>4. \A i \in 0 .. m : end(i) \in 0 .. Len(d)
  BY <1>1
<1>5. \A i \in 1 .. m : SubSeq(d, 24 * (i - 1) + 1, end(i)) \in Seq(Nat)
  <2>1. TAKE i \in 1 .. m
  <2>2. 24 * (i - 1) \in Nat /\ end(i) \in 0 .. Len(d)
    BY <1>1, <1>4
  <2> QED
    BY <2>2, PieceOf
<1>6. fs \in Seq(Seq(Nat)) /\ Len(fs) = m
  BY <1>1, <1>2, <1>5
<1>7. \A i \in 1 .. m : c[i - 1] <= c[i] /\ c[i - 1] = 24 * (i - 1)
  BY <1>1, <1>3
<1>8. \A i \in 1 .. m : fs[i] = SubSeq(d, c[i - 1] + 1, c[i])
  <2>1. TAKE i \in 1 .. m
  <2>2. fs[i] = SubSeq(d, 24 * (i - 1) + 1, end(i))
    BY <1>2
  <2>3. c[i] = end(i) /\ c[i - 1] = 24 * (i - 1)
    BY <1>1, <1>7
  <2> HIDE DEF c, end
  <2> QED
    BY <2>2, <2>3
<1>9. c \in [0 .. m -> 0 .. Len(d)] /\ c[m] = Len(d) /\ c[0] = 0
  BY <1>1, <1>4
<1>10. Cuts(fs, d, c)
  BY <1>6, <1>7, <1>8, <1>9 DEF Cuts
<1>11. fs \in Seq(Seq(Nat)) /\ \E e : Cuts(fs, d, e) /\ e[0] = 0
  BY <1>6, <1>9, <1>10
<1> QED
  BY <1>11 DEF Holds, fs

\* Whatever the strategy, but for the one that writes headers of its own.
LEMMA FragmentsHoldAll ==
    ASSUME NEW d \in Seq(Nat), NEW strategy \in FragmentStrategies, strategy # "tls_record_frag"
    PROVE  Holds(FragmentClientHello(d, strategy), d, 0)
<1>1. Holds(Half(d), d, 0)
  <2>1. Len(d) \div 2 \in 0 .. Len(d)
    OBVIOUS
  <2> QED
    BY <2>1, TwoPieces DEF Half
<1>2. Holds(FragmentAtSNI(d), d, 0)
  BY <1>1, ScanStaysInside, TwoPieces DEF FragmentAtSNI
<1>3. Holds(FragmentMulti(d, 24), d, 0)
  BY ManyPieces
<1>4. Holds(<<d>>, d, 0)
  BY OnePiece
<1> QED
  BY <1>1, <1>2, <1>3, <1>4 DEF FragmentClientHello, FragmentStrategies

\* Which bytes of the stream the upstream has and which the pieces still hold. Only the
\* strategy that writes headers of its own is left out.
FlightInv ==
    /\ stream \in Seq(Octet) /\ stream \in Seq(Nat) /\ stream \in AllStreams
    /\ fragmentStrategy \in FragmentStrategies
    /\ flightPc \in {"read", "write", "lost", "relayed"}
    /\ flightPc = "read" => received = <<>>
    /\ flightPc # "read" => Len(first) \in 0 .. Len(stream) /\ first = SubSeq(stream, 1, Len(first))
    /\ fragmentStrategy # "tls_record_frag" =>
        /\ flightPc \in {"write", "lost"} =>
            \E n \in 0 .. Len(first) : received = SubSeq(first, 1, n) /\ Holds(frags, first, n)
        /\ flightPc = "relayed" => received = stream

LEMMA StreamsAreBytes == AllStreams \subseteq Seq(Octet)
<1>1. ASSUME NEW s \in Streams PROVE s \in Seq(Octet)
  BY FlightAssumption DEF Octet
<1>2. ASSUME NEW n \in NameLens PROVE BuildClientHello(Filler(n)) \in Seq(Octet)
  <2>1. n \in Nat
    BY FlightAssumption
  <2>2. Filler(n) \in Text(n)
    BY <2>1, FillerIs
  <2>3. BuildClientHello(Filler(n)) \in Text(517) \/ BuildClientHello(Filler(n)) \in Text(294 + n)
    BY <2>1, <2>2, HelloIs DEF OneRecord
  <2> QED
    BY <2>3, Zenon DEF Text
<1> QED
  BY <1>1, <1>2 DEF AllStreams

LEMMA FlightStart == FlightInit => FlightInv
<1> SUFFICES ASSUME FlightInit PROVE FlightInv
  OBVIOUS
<1>1. stream \in Seq(Octet)
  BY StreamsAreBytes DEF FlightInit
<1> QED
  BY <1>1, OctetsAreNumbers DEF FlightInit, FlightInv

\* The first read is the stream's beginning, and nothing of it is written yet.
LEMMA ReadStep == ASSUME FlightInv, ReadFirstBytes PROVE FlightInv'
<1>1. PICK n \in ReadSizes(stream) : first' = SubSeq(stream, 1, n)
                                    /\ frags' = FragmentClientHello(first', fragmentStrategy)
  BY DEF ReadFirstBytes
<1>2. stream \in Seq(Nat) /\ n \in 1 .. Len(stream)
  BY <1>1, FlightAssumption DEF FlightInv
<1>3. first' \in Seq(Nat) /\ Len(first') = n
  <2>1. \A i \in 1 .. n : stream[i] \in Nat
    BY <1>2
  <2> QED
    BY <1>1, <1>2, <2>1, SubSeqProperties
<1>4. UNCHANGED <<stream, fragmentStrategy, received>> /\ flightPc' = "write"
  BY DEF ReadFirstBytes
<1>5. received' = SubSeq(first', 1, 0)
  <2>1. received' = <<>>
    BY <1>4 DEF FlightInv, ReadFirstBytes
  <2>2. SubSeq(first', 1, 0) = <<>>
    BY <1>3
  <2> QED
    BY <2>1, <2>2
<1>6. fragmentStrategy # "tls_record_frag" => Holds(frags', first', 0)
  BY <1>1, <1>3, FragmentsHoldAll DEF FlightInv
<1>7. (flightPc # "read" => Len(first) \in 0 .. Len(stream) /\ first = SubSeq(stream, 1, Len(first)))'
  BY <1>1, <1>2, <1>3, <1>4
<1>8. fragmentStrategy # "tls_record_frag" =>
         \E k \in 0 .. Len(first') : received' = SubSeq(first', 1, k) /\ Holds(frags', first', k)
  <2>1. 0 \in 0 .. Len(first')
    BY <1>2, <1>3
  <2> QED
    BY <1>5, <1>6, <2>1
<1> QED
  BY <1>4, <1>7, <1>8 DEF FlightInv, Holds, Cuts

\* A written piece joins what the upstream has to the place where the next one begins.
LEMMA WriteStep == ASSUME FlightInv, WriteFragment PROVE FlightInv'
<1>1. frags # <<>> /\ received' = received \o Head(frags) /\ frags' = Tail(frags) /\ flightPc = "write"
      /\ UNCHANGED <<stream, fragmentStrategy, first, flightPc>>
  BY DEF WriteFragment
<1>2. CASE fragmentStrategy = "tls_record_frag"
  BY <1>1, <1>2 DEF FlightInv
<1>3. CASE fragmentStrategy # "tls_record_frag"
  <2>1. PICK n \in 0 .. Len(first) : received = SubSeq(first, 1, n) /\ Holds(frags, first, n)
    BY <1>1, <1>3 DEF FlightInv
  <2>2. PICK c : Cuts(frags, first, c) /\ c[0] = n
    BY <2>1 DEF Holds
  <2>3. first \in Seq(Nat)
    <3>1. Len(first) \in 0 .. Len(stream) /\ first = SubSeq(stream, 1, Len(first)) /\ stream \in Seq(Nat)
      BY <1>1 DEF FlightInv
    <3>2. SubSeq(stream, 0 + 1, Len(first)) \in Seq(Nat)
      BY <3>1, PieceOf
    <3> QED
      BY <3>1, <3>2
  <2> DEFINE m == Len(frags) - 1
             e == [i \in 0 .. m |-> c[i + 1]]
  <2>4. frags \in Seq(Seq(Nat)) /\ Len(frags) \in Nat /\ Len(frags) > 0
    <3>1. frags \in Seq(Seq(Nat))
      BY <2>1 DEF Holds
    <3> QED
      BY <1>1, <3>1, EmptySeq
  <2>5. frags' \in Seq(Seq(Nat)) /\ Len(frags') = m /\ \A i \in 1 .. m : frags'[i] = frags[i + 1]
    BY <1>1, <2>4, HeadTailProperties
  <2>6. Head(frags) = frags[1]
    BY <1>1, <2>4
  <2>7. /\ c \in [0 .. Len(frags) -> 0 .. Len(first)] /\ c[Len(frags)] = Len(first)
        /\ \A i \in 1 .. Len(frags) :
              c[i - 1] <= c[i] /\ frags[i] = SubSeq(first, c[i - 1] + 1, c[i])
    BY <2>2 DEF Cuts
  <2>8. c[1] \in n .. Len(first) /\ frags[1] = SubSeq(first, n + 1, c[1])
    <3>1. c[1 - 1] <= c[1] /\ frags[1] = SubSeq(first, c[1 - 1] + 1, c[1])
      BY <2>4, <2>7
    <3>2. c[1] \in 0 .. Len(first)
      <4>1. 1 \in 0 .. Len(frags)
        BY <2>4
      <4> QED
        BY <2>7, <4>1, Zenon
    <3> QED
      BY <2>2, <3>1, <3>2
  <2>9. SubSeq(first, 1, n) \o SubSeq(first, n + 1, c[1]) = SubSeq(first, 1, c[1])
    <3>1. 1 \in 1 .. Len(first) + 1 /\ n \in 1 - 1 .. Len(first)
      BY <2>3
    <3> QED
      BY <2>3, <2>8, <3>1, ConcatAdjacentSubSeq, Zenon
  <2>10. received' = SubSeq(first, 1, c[1])
    BY <1>1, <2>1, <2>6, <2>8, <2>9
  <2>11. Cuts(frags', first, e)
    <3>1. e \in [0 .. m -> 0 .. Len(first)]
      BY <2>4, <2>7
    <3>2. e[m] = Len(first)
      BY <2>4, <2>7
    <3>3. \A i \in 1 .. m : e[i - 1] <= e[i] /\ frags'[i] = SubSeq(first, e[i - 1] + 1, e[i])
      <4>1. TAKE i \in 1 .. m
      <4>2. i + 1 \in 1 .. Len(frags) /\ (i + 1) - 1 = i
        BY <2>4
      <4>3. c[i] <= c[i + 1] /\ frags[i + 1] = SubSeq(first, c[i] + 1, c[i + 1])
        BY <2>7, <4>2
      <4>4. e[i] = c[i + 1] /\ e[i - 1] = c[i]
        BY <2>4
      <4>5. frags'[i] = frags[i + 1]
        BY <2>5
      <4> HIDE DEF e
      <4> QED
        BY <4>3, <4>4, <4>5
    <3> HIDE DEF e
    <3> QED
      BY <2>5, <3>1, <3>2, <3>3 DEF Cuts
  <2>12. Holds(frags', first, c[1])
    <3>1. e[0] = c[1]
      BY <2>4
    <3> HIDE DEF e
    <3> QED
      BY <2>5, <2>11, <3>1 DEF Holds
  <2>13. \E k \in 0 .. Len(first) : received' = SubSeq(first, 1, k) /\ Holds(frags', first, k)
    <3>1. c[1] \in 0 .. Len(first)
      BY <2>8
    <3> QED
      BY <2>10, <2>12, <3>1
  <2>14. Len(first) \in 0 .. Len(stream) /\ first = SubSeq(stream, 1, Len(first))
    BY <1>1 DEF FlightInv
  <2> QED
    BY <1>1, <2>13, <2>14 DEF FlightInv, Holds, Cuts
<1> QED
  BY <1>2, <1>3

LEMMA FailStep == ASSUME FlightInv, WriteFragmentFails PROVE FlightInv'
BY DEF FlightInv, WriteFragmentFails, Holds, Cuts

\* Nothing is left of the first read: the relay sends what comes after it.
LEMMA RelayStep == ASSUME FlightInv, RelayRest PROVE FlightInv'
<1>1. frags = <<>> /\ flightPc = "write" /\ flightPc' = "relayed"
      /\ received' = received \o SubSeq(stream, Len(first) + 1, Len(stream))
      /\ UNCHANGED <<stream, fragmentStrategy, first, frags>>
  BY DEF RelayRest
<1>2. Len(first) \in 0 .. Len(stream) /\ first = SubSeq(stream, 1, Len(first)) /\ stream \in Seq(Nat)
  BY <1>1 DEF FlightInv
<1>3. ASSUME fragmentStrategy # "tls_record_frag" PROVE received' = stream
  <2>1. PICK n \in 0 .. Len(first) : received = SubSeq(first, 1, n) /\ Holds(frags, first, n)
    BY <1>1, <1>3 DEF FlightInv
  <2>2. n = Len(first)
    BY <1>1, <2>1 DEF Holds, Cuts
  <2>3. first \in Seq(Nat)
    <3>1. SubSeq(stream, 0 + 1, Len(first)) \in Seq(Nat)
      BY <1>2, PieceOf
    <3> QED
      BY <1>2, <3>1
  <2>4. received = SubSeq(stream, 1, Len(first))
    BY <1>2, <2>1, <2>2, <2>3, SubSeqFull
  <2>5. SubSeq(stream, 1, Len(first)) \o SubSeq(stream, Len(first) + 1, Len(stream))
          = SubSeq(stream, 1, Len(stream))
    <3>1. /\ 1 \in 1 .. Len(stream) + 1 /\ Len(first) \in 1 - 1 .. Len(stream)
          /\ Len(stream) \in Len(first) .. Len(stream)
      BY <1>2
    <3> QED
      BY <1>2, <3>1, ConcatAdjacentSubSeq, Zenon
  <2>6. SubSeq(stream, 1, Len(stream)) = stream
    BY <1>2, SubSeqFull
  <2> QED
    BY <1>1, <2>4, <2>5, <2>6
<1> QED
  BY <1>1, <1>2, <1>3 DEF FlightInv

LEMMA FlightInvHolds == FlightSpec => []FlightInv
<1>1. FlightInv /\ [FlightNext]_flightVars => FlightInv'
  <2> SUFFICES ASSUME FlightInv, [FlightNext]_flightVars PROVE FlightInv'
    OBVIOUS
  <2>1. CASE UNCHANGED flightVars
    BY <2>1 DEF FlightInv, flightVars, Holds, Cuts
  <2> QED
    BY <2>1, ReadStep, WriteStep, FailStep, RelayStep DEF FlightNext
<1> QED
  BY FlightStart, <1>1, PTL DEF FlightSpec

\* Under every strategy but tls_record_frag the upstream receives the client's own bytes,
\* in order and each once, for every stream, wherever the first read ended and wherever
\* the pieces were cut (FragmentClientHello, the write loop of Apply, relay).
THEOREM BytesArriveUnchanged == FlightSpec => []StreamUnchanged
<1>1. FlightInv => StreamUnchanged
  <2> SUFFICES ASSUME FlightInv, fragmentStrategy # "tls_record_frag"
               PROVE  IsPrefix(received, stream) /\ (flightPc = "relayed" => received = stream)
    BY DEF StreamUnchanged
  <2>1. ASSUME NEW n \in 0 .. Len(stream), received = SubSeq(stream, 1, n)
        PROVE  IsPrefix(received, stream)
    <3>1. stream \in Seq(Nat)
      BY DEF FlightInv
    <3>2. SubSeq(stream, 0 + 1, n) \in Seq(Nat)
      BY <3>1, PieceOf
    <3>3. received \in Seq(Nat) /\ Len(received) = n
      BY <2>1, <3>1, <3>2
    <3>4. SubSeq(received, 1, Len(received)) = received
      BY <3>3, SubSeqFull
    <3> QED
      BY <2>1, <3>3, <3>4 DEF IsPrefix
  <2>2. CASE flightPc = "read"
    <3>1. received = SubSeq(stream, 1, 0)
      BY <2>2 DEF FlightInv
    <3> QED
      BY <2>1, <2>2, <3>1 DEF FlightInv
  <2>3. CASE flightPc \in {"write", "lost"}
    <3>1. PICK n \in 0 .. Len(first) : received = SubSeq(first, 1, n)
      BY <2>3 DEF FlightInv
    <3>2. Len(first) \in 0 .. Len(stream) /\ first = SubSeq(stream, 1, Len(first)) /\ stream \in Seq(Nat)
      BY <2>3 DEF FlightInv
    <3>3. SubSeq(SubSeq(stream, 1, Len(first)), 1, n) = SubSeq(stream, 1, n)
      BY <3>1, <3>2
    <3>4. n \in 0 .. Len(stream) /\ received = SubSeq(stream, 1, n)
      BY <3>1, <3>2, <3>3
    <3> QED
      BY <2>1, <2>3, <3>4
  <2>4. CASE flightPc = "relayed"
    <3>1. received = stream /\ stream \in Seq(Nat)
      BY <2>4 DEF FlightInv
    <3>2. stream = SubSeq(stream, 1, Len(stream)) /\ Len(stream) \in 0 .. Len(stream)
      BY <3>1, SubSeqFull
    <3> QED
      BY <2>1, <3>1, <3>2
  <2> QED
    BY <2>2, <2>3, <2>4 DEF FlightInv
<1> QED
  BY FlightInvHolds, <1>1, PTL

-----------------------------------------------------------------------------
(* What a TLS endpoint gets                                                  *)

\* Contents walks over a byte stream with a recursive function. Turn is what it finds at
\* place p, given what it found at the places after p, and Turns is that function.
Turn(d, f, p) ==
    IF p > Len(d) THEN <<>>
    ELSE IF p + 4 > Len(d) \/ d[p] \notin 20 .. 23 THEN <<Broken>>
    ELSE LET end == p + 4 + Word(d, p + 3)
         IN IF end > Len(d) THEN <<Broken>>
            ELSE [i \in 1 .. end - p - 4 |-> <<d[p], d[p + 4 + i]>>] \o f[end + 1]

Turns(d) == CHOOSE f : f = [p \in 1 .. Len(d) + 1 |-> Turn(d, f, p)]

LEMMA ContentsAre == ASSUME NEW d PROVE Contents(d) = Turns(d)[1]
  BY DEF Contents, Turns, Turn

Item == Nat \X Nat

LEMMA WordIs ==
    ASSUME NEW d \in Seq(Nat), NEW p \in 1 .. Len(d) - 1
    PROVE  Word(d, p) \in Nat
BY DEF Word

\* The payload of a record at p with w bytes.
Payload(d, p, w) == [i \in 1 .. w |-> <<d[p], d[p + 4 + i]>>]

LEMMA PayloadIs ==
    ASSUME NEW d \in Seq(Nat), NEW p \in 1 .. Len(d), NEW w \in Nat, p + 4 + w <= Len(d)
    PROVE  Payload(d, p, w) \in Seq(Item) /\ Len(Payload(d, p, w)) = w
<1> DEFINE g(i) == <<d[p], d[p + 4 + i]>>
           s == [i \in 1 .. w |-> g(i)]
<1>1. ASSUME NEW i \in 1 .. w PROVE g(i) \in Item
  <2>1. p + 4 + i \in 1 .. Len(d)
    OBVIOUS
  <2>2. d[p] \in Nat /\ d[p + 4 + i] \in Nat
    BY <2>1, ElementOfSeq
  <2> QED
    BY <2>2, Zenon DEF Item
<1>2. Payload(d, p, w) = s
  BY DEF Payload
<1> HIDE DEF g
<1>3. s \in Seq(Item) /\ Len(s) = w
  BY <1>1
<1> QED
  BY <1>2, <1>3, Zenon

\* A whole record starts at p.
Whole(d, p) ==
    p + 4 <= Len(d) /\ d[p] \in 20 .. 23 /\ p + 4 + Word(d, p + 3) <= Len(d)

LEMMA TurnIs ==
    ASSUME NEW d \in Seq(Nat), NEW f, NEW p \in 1 .. Len(d) + 1
    PROVE  /\ p = Len(d) + 1 => Turn(d, f, p) = <<>>
           /\ p <= Len(d) /\ ~Whole(d, p) => Turn(d, f, p) = <<Broken>>
           /\ Whole(d, p) =>
                Turn(d, f, p) = Payload(d, p, Word(d, p + 3)) \o f[p + 5 + Word(d, p + 3)]
<1>1. CASE p + 4 <= Len(d) /\ d[p] \in 20 .. 23
  <2> DEFINE w == Word(d, p + 3)
  <2>1. w \in Nat
    BY <1>1, WordIs
  <2>2. Turn(d, f, p) = IF p + 4 + w > Len(d) THEN <<Broken>>
                        ELSE [i \in 1 .. (p + 4 + w) - p - 4 |-> <<d[p], d[p + 4 + i]>>]
                               \o f[p + 4 + w + 1]
    BY <1>1 DEF Turn
  <2>3. Whole(d, p) <=> p + 4 + w <= Len(d)
    BY <1>1 DEF Whole
  <2> HIDE DEF w
  <2>4. (p + 4 + w) - p - 4 = w /\ p + 4 + w + 1 = p + 5 + w
    BY <2>1
  <2>5. Turn(d, f, p) = IF p + 4 + w > Len(d) THEN <<Broken>> ELSE Payload(d, p, w) \o f[p + 5 + w]
    BY <2>2, <2>4, Zenon DEF Payload
  <2>6. p + 4 + w <= Len(d) <=> ~(p + 4 + w > Len(d))
    BY <2>1
  <2>7. Whole(d, p) => Turn(d, f, p) = Payload(d, p, w) \o f[p + 5 + w]
    BY <2>3, <2>5, <2>6, Zenon
  <2>8. ~Whole(d, p) => Turn(d, f, p) = <<Broken>>
    BY <2>3, <2>5, <2>6, Zenon
  <2>9. p # Len(d) + 1
    BY <1>1
  <2> QED
    BY <2>7, <2>8, <2>9, Zenon DEF w
<1>2. CASE ~(p + 4 <= Len(d) /\ d[p] \in 20 .. 23)
  <2>1. ~Whole(d, p)
    BY <1>2 DEF Whole
  <2>2. p = Len(d) + 1 => p > Len(d)
    OBVIOUS
  <2>3. p <= Len(d) => ~(p > Len(d)) /\ (p + 4 > Len(d) \/ d[p] \notin 20 .. 23)
    BY <1>2
  <2> QED
    BY <2>1, <2>2, <2>3, Zenon DEF Turn
<1> QED
  BY <1>1, <1>2

LEMMA TurnType ==
    ASSUME NEW d \in Seq(Nat), NEW f, NEW p \in 1 .. Len(d) + 1,
           \A x \in p + 1 .. Len(d) + 1 : f[x] \in Seq(Item)
    PROVE  Turn(d, f, p) \in Seq(Item)
<1>1. CASE p = Len(d) + 1
  <2>1. Turn(d, f, p) = <<>>
    BY <1>1, TurnIs, Zenon
  <2> QED
    BY <2>1, EmptySeq, Zenon
<1>2. CASE p <= Len(d) /\ ~Whole(d, p)
  <2>1. Broken \in Item
    BY DEF Item, Broken
  <2>2. <<Broken>> \in Seq(Item)
    BY <2>1
  <2> QED
    BY <1>2, <2>2, TurnIs, Zenon
<1>3. CASE p <= Len(d) /\ Whole(d, p)
  <2> DEFINE w == Word(d, p + 3)
  <2>1. w \in Nat /\ p + 4 + w <= Len(d)
    BY <1>3, WordIs DEF Whole
  <2>2. Turn(d, f, p) = Payload(d, p, w) \o f[p + 5 + w]
    BY <1>3, TurnIs, Zenon
  <2> HIDE DEF w
  <2>3. Payload(d, p, w) \in Seq(Item)
    BY <1>3, <2>1, PayloadIs
  <2>4. p + 5 + w \in p + 1 .. Len(d) + 1
    BY <2>1
  <2>5. f[p + 5 + w] \in Seq(Item)
    BY <2>4, Zenon
  <2> QED
    BY <2>2, <2>3, <2>5, ConcatProperties, Zenon
<1> QED
  BY <1>1, <1>2, <1>3

\* A turn uses only what was found further on.
LEMMA TurnLooksAhead ==
    ASSUME NEW d \in Seq(Nat), NEW f, NEW g, NEW p \in 1 .. Len(d) + 1,
           \A x \in p + 1 .. Len(d) + 1 : f[x] = g[x]
    PROVE  Turn(d, f, p) = Turn(d, g, p)
<1>1. CASE ~Whole(d, p)
  <2>1. p = Len(d) + 1 \/ p <= Len(d)
    OBVIOUS
  <2> QED
    BY <1>1, <2>1, TurnIs, Zenon
<1>2. CASE Whole(d, p)
  <2> DEFINE w == Word(d, p + 3)
  <2>1. w \in Nat /\ p + 4 + w <= Len(d)
    BY <1>2, WordIs DEF Whole
  <2>2. Turn(d, f, p) = Payload(d, p, w) \o f[p + 5 + w] /\ Turn(d, g, p) = Payload(d, p, w) \o g[p + 5 + w]
    BY <1>2, TurnIs, Zenon
  <2> HIDE DEF w
  <2>3. p + 5 + w \in p + 1 .. Len(d) + 1
    BY <2>1
  <2> QED
    BY <2>2, <2>3, Zenon
<1> QED
  BY <1>1, <1>2

\* That function exists, and at each place it is what Turn says. Were there a number of
\* places, counted from the end, for which no function is right, take the least: the
\* function that is right for one place less, corrected at the next, is right there too.
LEMMA TurnsAre ==
    ASSUME NEW d \in Seq(Nat)
    PROVE  /\ Turns(d) \in [1 .. Len(d) + 1 -> Seq(Item)]
           /\ \A p \in 1 .. Len(d) + 1 : Turns(d)[p] = Turn(d, Turns(d), p)
<1> DEFINE n == Len(d) + 1
           Solves(f, k) == \A p \in 1 .. n : p > n - k => f[p] = Turn(d, f, p)
           Bad == {k \in 0 .. n : \A f \in [1 .. n -> Seq(Item)] : ~Solves(f, k)}
<1>1. n \in Nat /\ n >= 1
  OBVIOUS
<1>2. Bad = {}
  <2> SUFFICES ASSUME Bad # {} PROVE FALSE
    OBVIOUS
  <2>1. PICK k \in Bad : \A j \in Bad : k <= j
    BY <1>1, LeastNumber, Bad \subseteq Nat
  <2>2. k \in 0 .. n /\ \A f \in [1 .. n -> Seq(Item)] : ~Solves(f, k)
    OBVIOUS
  <2>3. k # 0
    <3> DEFINE f == [p \in 1 .. n |-> <<>>]
    <3>1. f \in [1 .. n -> Seq(Item)]
      OBVIOUS
    <3>2. Solves(f, 0)
      BY <1>1
    <3> QED
      BY <2>2, <3>1, <3>2, Zenon
  <2>4. k - 1 \in 0 .. n /\ k - 1 \notin Bad
    <3>1. k - 1 \in 0 .. n /\ ~(k <= k - 1)
      BY <1>1, <2>2, <2>3
    <3> HIDE DEF Bad
    <3> QED
      BY <2>1, <3>1, Zenon
  <2>5. PICK f \in [1 .. n -> Seq(Item)] : Solves(f, k - 1)
    BY <2>4
  <2> DEFINE q == n + 1 - k
             g == [f EXCEPT ![q] = Turn(d, f, q)]
  <2>6. q \in 1 .. n
    BY <1>1, <2>2, <2>3
  <2>7. Turn(d, f, q) \in Seq(Item)
    <3>1. \A x \in q + 1 .. Len(d) + 1 : x \in 1 .. n
      BY <2>6
    <3>2. \A x \in q + 1 .. Len(d) + 1 : f[x] \in Seq(Item)
      BY <3>1
    <3> HIDE DEF q
    <3> QED
      BY <2>6, <3>2, TurnType
  <2>8. g \in [1 .. n -> Seq(Item)] /\ g[q] = Turn(d, f, q) /\ \A x \in 1 .. n : x # q => g[x] = f[x]
    BY <2>6, <2>7
  <2> HIDE DEF g
  <2>9. ASSUME NEW p \in 1 .. n, p > n - k PROVE g[p] = Turn(d, g, p)
    <3>1. p >= q /\ p \in 1 .. Len(d) + 1
      BY <1>1, <2>2, <2>9
    <3>2. \A x \in p + 1 .. Len(d) + 1 : f[x] = g[x]
      BY <2>6, <2>8, <3>1
    <3>3. Turn(d, f, p) = Turn(d, g, p)
      BY <3>1, <3>2, TurnLooksAhead
    <3>4. CASE p = q
      BY <2>8, <3>3, <3>4
    <3>5. CASE p # q
      <4>1. p > n - (k - 1)
        BY <1>1, <2>2, <3>1, <3>5
      <4>2. f[p] = Turn(d, f, p)
        BY <2>5, <4>1
      <4> QED
        BY <2>8, <3>3, <3>5, <4>2
    <3> QED
      BY <3>4, <3>5
  <2> QED
    BY <2>2, <2>8, <2>9
<1>3. PICK f \in [1 .. n -> Seq(Item)] : Solves(f, n)
  <2>1. n \in 0 .. n
    BY <1>1
  <2> QED
    BY <1>2, <2>1
<1>4. \A p \in 1 .. n : f[p] = Turn(d, f, p)
  <2>1. \A p \in 1 .. n : p > n - n
    BY <1>1
  <2> QED
    BY <1>3, <2>1
<1>5. f = [p \in 1 .. n |-> Turn(d, f, p)]
  BY <1>4
<1> DEFINE t == Turns(d)
<1>6. t = [p \in 1 .. n |-> Turn(d, t, p)]
  BY <1>5 DEF Turns
<1> HIDE DEF t
<1>7. \A p \in 1 .. n : t[p] = Turn(d, t, p)
  BY <1>6
<1> DEFINE Untyped == {k \in 0 .. n - 1 : t[n - k] \notin Seq(Item)}
<1>8. Untyped = {}
  <2> SUFFICES ASSUME Untyped # {} PROVE FALSE
    OBVIOUS
  <2>1. PICK k \in Untyped : \A j \in Untyped : k <= j
    BY <1>1, LeastNumber, Untyped \subseteq Nat
  <2>2. k \in 0 .. n - 1 /\ t[n - k] \notin Seq(Item)
    OBVIOUS
  <2>3. ASSUME NEW x \in (n - k) + 1 .. Len(d) + 1 PROVE t[x] \in Seq(Item)
    <3>1. n - x \in 0 .. n - 1 /\ ~(k <= n - x) /\ n - (n - x) = x
      BY <1>1, <2>2
    <3>2. n - x \notin Untyped
      <4> HIDE DEF Untyped
      <4> QED
        BY <2>1, <3>1, Zenon
    <3> QED
      BY <3>1, <3>2
  <2>4. n - k \in 1 .. Len(d) + 1
    BY <1>1, <2>2
  <2>5. Turn(d, t, n - k) \in Seq(Item)
    BY <2>3, <2>4, TurnType
  <2> QED
    BY <1>7, <2>2, <2>4, <2>5
<1>9. ASSUME NEW p \in 1 .. n PROVE t[p] \in Seq(Item)
  <2>1. n - p \in 0 .. n - 1 /\ n - (n - p) = p
    BY <1>1
  <2> QED
    BY <1>8, <2>1
<1> QED
  BY <1>6, <1>7, <1>9 DEF t

\* e ends with what d holds from p on, s places later.
Repeated(d, p, e, s) == Len(e) = Len(d) + s /\ \A i \in p .. Len(d) : e[i + s] = d[i]

\* What g found after p + s is what f found after p.
Follows(d, f, p, g, s) == \A x \in p + 1 .. Len(d) + 1 : g[x + s] = f[x]

\* What follows a place does not depend on what came before it.
LEMMA TurnShifts ==
    ASSUME NEW d \in Seq(Nat), NEW e \in Seq(Nat), NEW s \in Nat, NEW p \in 1 .. Len(d) + 1,
           NEW f, NEW g, Repeated(d, p, e, s), Follows(d, f, p, g, s)
    PROVE  Turn(e, g, p + s) = Turn(d, f, p)
<1>0. /\ Len(e) = Len(d) + s /\ \A i \in p .. Len(d) : e[i + s] = d[i]
      /\ \A x \in p + 1 .. Len(d) + 1 : g[x + s] = f[x]
  BY DEF Repeated, Follows
<1>1. p + s \in 1 .. Len(e) + 1
  BY <1>0
<1>2. ASSUME p + 4 <= Len(d) PROVE e[p + s] = d[p] /\ Word(e, p + s + 3) = Word(d, p + 3)
  <2>1. p \in p .. Len(d) /\ p + 3 \in p .. Len(d) /\ p + 4 \in p .. Len(d)
    BY <1>2
  <2>2. e[p + s] = d[p] /\ e[(p + 3) + s] = d[p + 3] /\ e[(p + 4) + s] = d[p + 4]
    BY <1>0, <2>1
  <2>3. (p + 3) + s = p + s + 3 /\ (p + 4) + s = p + s + 3 + 1 /\ p + 4 = p + 3 + 1
    BY <1>0
  <2> QED
    BY <1>0, <2>2, <2>3, Zenon DEF Word
<1>3. Whole(e, p + s) <=> Whole(d, p)
  <2>1. CASE ~(p + 4 <= Len(d))
    <3>1. ~(p + s + 4 <= Len(e))
      BY <1>0, <2>1
    <3> QED
      BY <1>0, <2>1, <3>1, Zenon DEF Whole
  <2>2. CASE p + 4 <= Len(d)
    <3>1. e[p + s] = d[p] /\ Word(e, p + s + 3) = Word(d, p + 3) /\ Word(d, p + 3) \in Nat
      BY <1>0, <1>2, <2>2, WordIs
    <3> DEFINE w == Word(d, p + 3)
    <3>2. w \in Nat /\ Word(e, p + s + 3) = w
      BY <1>0, <3>1
    <3>3. Whole(d, p) <=> p + 4 <= Len(d) /\ d[p] \in 20 .. 23 /\ p + 4 + w <= Len(d)
      BY <1>0 DEF Whole
    <3>4. Whole(e, p + s) <=> p + s + 4 <= Len(e) /\ d[p] \in 20 .. 23 /\ p + s + 4 + w <= Len(e)
      BY <1>0, <3>1, <3>2, Zenon DEF Whole
    <3> HIDE DEF w
    <3>5. (p + s + 4 <= Len(e) <=> p + 4 <= Len(d)) /\ (p + s + 4 + w <= Len(e) <=> p + 4 + w <= Len(d))
      BY <1>0, <3>2
    <3> QED
      BY <1>0, <3>3, <3>4, <3>5, Zenon
  <2> QED
    BY <1>0, <2>1, <2>2
<1>4. CASE ~Whole(d, p)
  <2>1. CASE p = Len(d) + 1
    <3>1. p + s = Len(e) + 1
      BY <1>0, <2>1
    <3> QED
      BY <1>0, <1>1, <2>1, <3>1, TurnIs, Zenon
  <2>2. CASE p <= Len(d)
    <3>1. p + s <= Len(e)
      BY <1>0, <2>2
    <3> QED
      BY <1>0, <1>1, <1>3, <1>4, <2>2, <3>1, TurnIs, Zenon
  <2> QED
    BY <1>0, <2>1, <2>2
<1>5. CASE Whole(d, p)
  <2> DEFINE w == Word(d, p + 3)
  <2>1. p + 4 <= Len(d) /\ w \in Nat /\ p + 4 + w <= Len(d)
    BY <1>0, <1>5, WordIs DEF Whole
  <2>2. e[p + s] = d[p] /\ Word(e, p + s + 3) = w
    BY <1>0, <1>2, <2>1
  <2>3. Turn(d, f, p) = Payload(d, p, w) \o f[p + 5 + w]
    BY <1>0, <1>5, TurnIs, Zenon
  <2>4. Turn(e, g, p + s) = Payload(e, p + s, w) \o g[p + s + 5 + w]
    <3>1. Whole(e, p + s)
      BY <1>3, <1>5, Zenon
    <3>2. Turn(e, g, p + s) = Payload(e, p + s, Word(e, p + s + 3))
                                \o g[p + s + 5 + Word(e, p + s + 3)]
      BY <1>1, <3>1, TurnIs, Zenon
    <3> HIDE DEF w
    <3> QED
      BY <2>2, <3>2, Zenon
  <2> HIDE DEF w
  <2>5. g[p + s + 5 + w] = f[p + 5 + w]
    <3>1. p + 5 + w \in p + 1 .. Len(d) + 1 /\ (p + 5 + w) + s = p + s + 5 + w
      BY <2>1
    <3>2. g[(p + 5 + w) + s] = f[p + 5 + w]
      BY <1>0, <3>1, Zenon
    <3> QED
      BY <1>0, <3>1, <3>2, Zenon
  <2>6. \A i \in 1 .. w : e[p + s + 4 + i] = d[p + 4 + i]
    <3>1. TAKE i \in 1 .. w
    <3>2. p + 4 + i \in p .. Len(d) /\ (p + 4 + i) + s = p + s + 4 + i
      <4>1. p + 4 + i \in p .. Len(d)
        BY <2>1
      <4>2. (p + 4 + i) + s = p + s + 4 + i
        OBVIOUS
      <4> QED
        BY <4>1, <4>2, Zenon
    <3>3. e[(p + 4 + i) + s] = d[p + 4 + i]
      BY <1>0, <3>2, Zenon
    <3> QED
      BY <3>2, <3>3, Zenon
  <2>7. Payload(e, p + s, w) = Payload(d, p, w)
    BY <1>0, <2>2, <2>6, Zenon DEF Payload
  <2> QED
    BY <1>0, <2>3, <2>4, <2>5, <2>7, Zenon
<1> QED
  BY <1>0, <1>4, <1>5

LEMMA RestIsTheSame ==
    ASSUME NEW d \in Seq(Nat), NEW e \in Seq(Nat), NEW s \in Nat, NEW p \in 1 .. Len(d) + 1,
           Repeated(d, p, e, s)
    PROVE  Turns(e)[p + s] = Turns(d)[p]
<1> DEFINE n == Len(d) + 1
           f == Turns(d)
           g == Turns(e)
           Differ == {k \in 0 .. n - p : g[n - k + s] # f[n - k]}
<1>0. Len(e) = Len(d) + s /\ \A i \in p .. Len(d) : e[i + s] = d[i]
  BY DEF Repeated
<1>1. n \in Nat /\ p \in 1 .. n
  OBVIOUS
<1>2. \A x \in 1 .. n : f[x] = Turn(d, f, x) /\ g[x + s] = Turn(e, g, x + s)
  <2>1. TAKE x \in 1 .. n
  <2>2. x + s \in 1 .. Len(e) + 1
    BY <1>0
  <2> QED
    BY <2>2, TurnsAre
<1> HIDE DEF f, g
<1> HIDE DEF Differ
<1>3. ASSUME NEW q \in 1 .. Len(d) + 1, Repeated(d, q, e, s), Follows(d, f, q, g, s)
      PROVE  g[q + s] = f[q]
  <2>1. Turn(e, g, q + s) = Turn(d, f, q)
    BY <1>3, TurnShifts, SMTT(30)
  <2> QED
    BY <1>2, <2>1
<1> USE DEF Differ
<1>4. Differ = {}
  <2> SUFFICES ASSUME Differ # {} PROVE FALSE
    OBVIOUS
  <2>1. PICK k \in Differ : \A j \in Differ : k <= j
    BY <1>1, LeastNumber, Differ \subseteq Nat
  <2>2. k \in 0 .. n - p /\ g[n - k + s] # f[n - k]
    OBVIOUS
  <2>3. n - k \in 1 .. Len(d) + 1 /\ n - k >= p
    BY <1>1, <2>2
  <2>4. ASSUME NEW x \in (n - k) + 1 .. Len(d) + 1 PROVE g[x + s] = f[x]
    <3>1. n - x \in 0 .. n - p /\ ~(k <= n - x) /\ n - (n - x) = x
      <4>1. x \in (n - k) + 1 .. n /\ k \in 0 .. n - p
        BY <2>2
      <4> HIDE DEF n
      <4> QED
        BY <1>1, <4>1
    <3>2. n - x \notin Differ
      <4> HIDE DEF Differ
      <4> QED
        BY <2>1, <3>1, Zenon
    <3> QED
      BY <3>1, <3>2
  <2>5. \A i \in n - k .. Len(d) : e[i + s] = d[i]
    BY <1>0, <2>3
  <2> DEFINE q == n - k
  <2>6. q \in 1 .. Len(d) + 1 /\ Repeated(d, q, e, s)
    BY <1>0, <2>3, <2>5 DEF Repeated
  <2>7. Follows(d, f, q, g, s)
    BY <2>4 DEF Follows
  <2> HIDE DEF q
  <2>8. g[q + s] = f[q]
    BY <1>3, <2>6, <2>7
  <2> QED
    BY <2>2, <2>8 DEF q
<1>5. n - p \in 0 .. n - p /\ n - (n - p) = p
  BY <1>1
<1>6. g[n - (n - p) + s] = f[n - (n - p)]
  BY <1>4, <1>5
<1> QED
  BY <1>5, <1>6 DEF f, g

\* A whole record's payload comes first, then what follows the record.
LEMMA RecordFirst ==
    ASSUME NEW d \in Seq(Nat), NEW p \in 1 .. Len(d), Whole(d, p)
    PROVE  Turns(d)[p] = Payload(d, p, Word(d, p + 3)) \o Turns(d)[p + 5 + Word(d, p + 3)]
<1>1. p \in 1 .. Len(d) + 1
  OBVIOUS
<1> QED
  BY <1>1, TurnsAre, TurnIs, Zenon

\* The largest number two bytes hold.
Word16 == 65535

LEMMA TwoBytesHold ==
    ASSUME NEW l \in Nat, l <= Word16
    PROVE  256 * TwoBytes(l)[1] + TwoBytes(l)[2] = l
<1>1. TwoBytes(l)[1] = (l \div 256) % 256 /\ TwoBytes(l)[2] = l % 256
  BY DEF TwoBytes
<1>2. 256 * ((l \div 256) % 256) + (l % 256) = l
  BY DEF Word16
<1> QED
  BY <1>1, <1>2, Zenon

\* One of the two records tls_record_frag makes: the part of length l that starts after the
\* first m bytes.
Made(d, m, l) == SubSeq(d, 1, 3) \o TwoBytes(l) \o SubSeq(d, m + 1, m + l)

LEMMA MadeRecord ==
    ASSUME NEW d \in Seq(Nat), NEW m \in Nat, NEW l \in Nat,
           m >= 5, m + l <= Len(d)
    PROVE  /\ Made(d, m, l) \in Seq(Nat) /\ Len(Made(d, m, l)) = 5 + l
           /\ Made(d, m, l)[1] = d[1] /\ (l <= Word16 => Word(Made(d, m, l), 4) = l)
           /\ \A i \in 1 .. l : Made(d, m, l)[5 + i] = d[m + i]
<1> DEFINE a == SubSeq(d, 1, 3)
           b == TwoBytes(l)
           c == SubSeq(d, m + 1, m + l)
           h == a \o b
           q == h \o c
<1>0. Made(d, m, l) = q
  BY DEF Made
<1>1. a \in Seq(Nat) /\ Len(a) = 3 /\ a[1] = d[1]
  <2>1. \A i \in 1 .. 3 : d[i] \in Nat
    OBVIOUS
  <2> QED
    BY <2>1, SubSeqProperties
<1>2. b \in Seq(Nat) /\ Len(b) = 2
  BY TwoBytesAre, OctetsAreNumbers DEF Text
<1>3. l <= Word16 => 256 * b[1] + b[2] = l
  BY TwoBytesHold
<1>4. c \in Seq(Nat) /\ Len(c) = l /\ \A i \in 1 .. l : c[i] = d[m + i]
  <2>1. \A i \in m + 1 .. m + l : d[i] \in Nat
    OBVIOUS
  <2>2. /\ c \in Seq(Nat)
        /\ Len(c) = IF m + 1 <= m + l THEN (m + l) - (m + 1) + 1 ELSE 0
        /\ \A i \in 1 .. (m + l) - (m + 1) + 1 : c[i] = d[(m + 1) + i - 1]
    BY <2>1, SubSeqProperties
  <2> HIDE DEF c
  <2>3. (m + l) - (m + 1) + 1 = l /\ (m + 1 <= m + l <=> l > 0)
    OBVIOUS
  <2>4. \A i \in 1 .. l : (m + 1) + i - 1 = m + i
    OBVIOUS
  <2> QED
    BY <2>2, <2>3, <2>4
<1> HIDE DEF a, b, c
<1>5. h \in Seq(Nat) /\ Len(h) = 5 /\ h[1] = a[1] /\ h[4] = b[1] /\ h[5] = b[2]
  <2>1. /\ h \in Seq(Nat) /\ Len(h) = Len(a) + Len(b)
        /\ \A i \in 1 .. Len(a) + Len(b) : h[i] = IF i <= Len(a) THEN a[i] ELSE b[i - Len(a)]
    BY <1>1, <1>2, ConcatProperties, Zenon
  <2> HIDE DEF h
  <2>2. Len(a) + Len(b) = 5
    BY <1>1, <1>2
  <2>3. /\ 1 \in 1 .. 5 /\ 1 <= Len(a)
        /\ 4 \in 1 .. 5 /\ ~(4 <= Len(a)) /\ 4 - Len(a) = 1
        /\ 5 \in 1 .. 5 /\ ~(5 <= Len(a)) /\ 5 - Len(a) = 2
    BY <1>1
  <2> QED
    BY <2>1, <2>2, <2>3, Zenon
<1> HIDE DEF h
<1>6. q \in Seq(Nat) /\ Len(q) = 5 + l /\ \A i \in 1 .. 5 + l : q[i] = IF i <= 5 THEN h[i] ELSE c[i - 5]
  <2>1. /\ q \in Seq(Nat) /\ Len(q) = Len(h) + Len(c)
        /\ \A i \in 1 .. Len(h) + Len(c) : q[i] = IF i <= Len(h) THEN h[i] ELSE c[i - Len(h)]
    BY <1>4, <1>5, ConcatProperties, Zenon
  <2> HIDE DEF q
  <2> QED
    BY <1>4, <1>5, <2>1
<1> HIDE DEF q
<1>7. q[1] = d[1] /\ q[4] = b[1] /\ q[5] = b[2]
  <2>1. \A i \in 1 .. 5 : q[i] = h[i]
    <3>1. TAKE i \in 1 .. 5
    <3>2. i \in 1 .. 5 + l /\ i <= 5
      OBVIOUS
    <3> QED
      BY <1>6, <3>2
  <2>2. 1 \in 1 .. 5 /\ 4 \in 1 .. 5 /\ 5 \in 1 .. 5
    OBVIOUS
  <2> QED
    BY <1>1, <1>5, <2>1, <2>2, Zenon
<1>8. l <= Word16 => Word(q, 4) = l
  BY <1>3, <1>7, 4 + 1 = 5, Zenon DEF Word
<1>9. ASSUME NEW i \in 1 .. l PROVE q[5 + i] = d[m + i]
  <2>1. 5 + i \in 1 .. 5 + l /\ ~(5 + i <= 5) /\ (5 + i) - 5 = i
    OBVIOUS
  <2>2. q[5 + i] = c[i]
    BY <1>6, <2>1
  <2> QED
    BY <1>4, <2>2
<1> QED
  BY <1>0, <1>6, <1>7, <1>8, <1>9

LEMMA RecordPartsAre ==
    ASSUME NEW d \in Seq(Nat), NEW h \in Nat, NEW k \in Nat, Len(d) = 5 + h + k, h = (Len(d) - 5) \div 2
    PROVE  TlsRecordFragment(d) = <<Made(d, 5, h), Made(d, 5 + h, k)>>
<1> DEFINE body == SubSeq(d, 6, Len(d))
           halves == Half(body)
           x == SubSeq(d, 5 + 1, 5 + h)
           y == SubSeq(d, 5 + h + 1, 5 + h + k)
<1>1. body \in Seq(Nat) /\ Len(body) = h + k
  <2>1. \A i \in 6 .. Len(d) : d[i] \in Nat
    OBVIOUS
  <2>2. body \in Seq(Nat) /\ Len(body) = IF 6 <= Len(d) THEN Len(d) - 6 + 1 ELSE 0
    BY <2>1, SubSeqProperties
  <2>3. 6 <= Len(d) => Len(d) - 6 + 1 = h + k
    OBVIOUS
  <2>4. ~(6 <= Len(d)) => h + k = 0
    OBVIOUS
  <2> HIDE DEF body
  <2> QED
    BY <2>2, <2>3, <2>4, Zenon
<1>2. h = Len(body) \div 2
  BY <1>1
<1>3. SubSeq(body, 1, h) = x /\ SubSeq(body, h + 1, Len(body)) = y
  <2>1. SubSeq(SubSeq(d, 6, Len(d)), 1, h) = SubSeq(d, 5 + 1, 5 + h)
    OBVIOUS
  <2>2. SubSeq(SubSeq(d, 6, Len(d)), h + 1, h + k) = SubSeq(d, 5 + h + 1, 5 + h + k)
    OBVIOUS
  <2> QED
    BY <1>1, <2>1, <2>2
<1>4. halves = <<x, y>>
  <2>1. halves = <<SubSeq(body, 1, h), SubSeq(body, h + 1, Len(body))>>
    BY <1>2, Zenon DEF Half, CutAfter
  <2> QED
    BY <1>3, <2>1, Zenon
<1>5. Len(x) = h /\ Len(y) = k
  <2>1. \A i \in 5 + 1 .. 5 + h : d[i] \in Nat
    OBVIOUS
  <2>2. \A i \in 5 + h + 1 .. 5 + h + k : d[i] \in Nat
    OBVIOUS
  <2> QED
    BY <2>1, <2>2, SubSeqProperties
<1>6. TlsRecordFragment(d) =
        [i \in 1 .. 2 |-> SubSeq(d, 1, 3) \o TwoBytes(Len(halves[i])) \o halves[i]]
  BY DEF TlsRecordFragment
<1>7. halves[1] = x /\ halves[2] = y
  <2> HIDE DEF x, y, halves
  <2> QED
    BY <1>4
<1> DEFINE p(i) == SubSeq(d, 1, 3) \o TwoBytes(Len(halves[i])) \o halves[i]
<1>8. p(1) = Made(d, 5, h) /\ p(2) = Made(d, 5 + h, k)
  BY <1>5, <1>7, Zenon DEF Made
<1>9. TlsRecordFragment(d) = [i \in 1 .. 2 |-> p(i)]
  BY <1>6
<1> HIDE DEF p
<1> QED
  BY <1>8, <1>9

LEMMA Reassociated ==
    ASSUME NEW u \in Seq(Item), NEW v \in Seq(Item), NEW r \in Seq(Item)
    PROVE  (u \o v) \o r = u \o (v \o r)
BY ConcatAssociative

\* What tls_record_frag makes of a whole record, followed by the rest of the stream, holds
\* the contents the stream holds.
LEMMA ContentsSurvive ==
    ASSUME NEW s \in Seq(Nat), NEW n \in 10 .. Len(s), s[1] \in 20 .. 23,
           Word(s, 4) = n - 5, n - 5 <= Word16,
           NEW pieces, pieces = TlsRecordFragment(SubSeq(s, 1, n))
    PROVE  Contents(pieces[1] \o pieces[2] \o SubSeq(s, n + 1, Len(s))) = Contents(s)
<1> DEFINE w == n - 5
           h == w \div 2
           k == w - h
           d == SubSeq(s, 1, n)
           a == Made(d, 5, h)
           b == Made(d, 5 + h, k)
           c == SubSeq(s, n + 1, Len(s))
           ab == a \o b
           e == ab \o c
<1>1. w \in Nat /\ h \in Nat /\ k \in Nat /\ h <= Word16 /\ k <= Word16 /\ w = h + k /\ n = 5 + h + k
  <2>1. w \in Nat /\ w <= 65535
    BY DEF Word16
  <2>2. h \in Nat /\ h <= w
    BY <2>1
  <2> HIDE DEF h
  <2>3. k \in Nat /\ k <= w /\ w = h + k /\ n = 5 + h + k
    BY <2>1, <2>2
  <2> QED
    BY <2>1, <2>2, <2>3 DEF Word16
<1>2. d \in Seq(Nat) /\ Len(d) = n /\ \A i \in 1 .. n : d[i] = s[i]
  <2>1. \A i \in 1 .. n : s[i] \in Nat
    OBVIOUS
  <2> QED
    BY <2>1, SubSeqProperties
<1>3. pieces = <<a, b>>
  <2>1. h = (Len(d) - 5) \div 2
    BY <1>2
  <2> HIDE DEF h, k, d
  <2> QED
    BY <1>1, <1>2, <2>1, RecordPartsAre DEF d
<1>4. c \in Seq(Nat) /\ Len(c) = Len(s) - n /\ \A i \in 1 .. Len(s) - n : c[i] = s[n + i]
  <2>1. \A i \in n + 1 .. Len(s) : s[i] \in Nat
    OBVIOUS
  <2>2. /\ c \in Seq(Nat)
        /\ Len(c) = IF n + 1 <= Len(s) THEN Len(s) - (n + 1) + 1 ELSE 0
        /\ \A i \in 1 .. Len(s) - (n + 1) + 1 : c[i] = s[(n + 1) + i - 1]
    BY <2>1, SubSeqProperties
  <2> HIDE DEF c
  <2>3. \A i \in 1 .. Len(s) - n : (n + 1) + i - 1 = n + i
    OBVIOUS
  <2> QED
    BY <2>2, <2>3
<1> HIDE DEF h, k, d, c
<1>5. /\ a \in Seq(Nat) /\ Len(a) = 5 + h /\ a[1] = s[1] /\ Word(a, 4) = h
      /\ \A i \in 1 .. h : a[5 + i] = s[5 + i]
  <2>1. 5 + h <= Len(d)
    BY <1>1, <1>2
  <2>2. /\ a \in Seq(Nat) /\ Len(a) = 5 + h /\ a[1] = d[1] /\ Word(a, 4) = h
        /\ \A i \in 1 .. h : a[5 + i] = d[5 + i]
    BY <1>1, <1>2, <2>1, MadeRecord, 5 \in Nat, 5 >= 5, Zenon
  <2> HIDE DEF a
  <2>3. 1 \in 1 .. n /\ \A i \in 1 .. h : 5 + i \in 1 .. n
    BY <1>1
  <2> QED
    BY <1>2, <2>2, <2>3
<1>6. /\ b \in Seq(Nat) /\ Len(b) = 5 + k /\ b[1] = s[1] /\ Word(b, 4) = k
      /\ \A i \in 1 .. k : b[5 + i] = s[5 + h + i]
  <2>1. 5 + h + k <= Len(d) /\ 5 + h \in Nat /\ 5 + h >= 5
    BY <1>1, <1>2
  <2>2. /\ b \in Seq(Nat) /\ Len(b) = 5 + k /\ b[1] = d[1] /\ Word(b, 4) = k
        /\ \A i \in 1 .. k : b[5 + i] = d[5 + h + i]
    <3>1. d \in Seq(Nat) /\ k \in Nat /\ k <= Word16
      BY <1>1, <1>2
    <3> QED
      BY <2>1, <3>1, MadeRecord, Zenon
  <2> HIDE DEF b
  <2>3. 1 \in 1 .. n /\ \A i \in 1 .. k : 5 + h + i \in 1 .. n
    BY <1>1
  <2> QED
    BY <1>2, <2>2, <2>3
<1> HIDE DEF a, b
<1>7. /\ ab \in Seq(Nat) /\ Len(ab) = Len(a) + Len(b)
      /\ \A i \in 1 .. Len(a) + Len(b) : ab[i] = IF i <= Len(a) THEN a[i] ELSE b[i - Len(a)]
  <2>1. a \in Seq(Nat) /\ b \in Seq(Nat)
    BY <1>5, <1>6
  <2> QED
    BY <2>1, ConcatProperties, Zenon
<1> HIDE DEF ab
<1>8. /\ e \in Seq(Nat) /\ Len(e) = Len(ab) + Len(c)
      /\ \A i \in 1 .. Len(ab) + Len(c) : e[i] = IF i <= Len(ab) THEN ab[i] ELSE c[i - Len(ab)]
  <2>1. ab \in Seq(Nat) /\ c \in Seq(Nat)
    BY <1>4, <1>7
  <2> QED
    BY <2>1, ConcatProperties, Zenon
<1> HIDE DEF e
<1>9. /\ Len(e) = Len(s) + 5 /\ Len(ab) = n + 5 /\ Len(a) = 5 + h /\ Len(b) = 5 + k
      /\ Len(c) = Len(s) - n /\ Len(s) \in Nat /\ Len(s) >= n
  BY <1>1, <1>4, <1>5, <1>6, <1>7, <1>8
<1>10. Len(e) \in Nat /\ Len(e) >= 10 + h + k
  <2> DEFINE le == Len(e)
             ls == Len(s)
  <2>1. le = ls + 5 /\ ls \in Nat /\ ls >= n /\ n = 5 + h + k /\ h \in Nat /\ k \in Nat
    BY <1>1, <1>9
  <2> HIDE DEF le, ls
  <2>2. le \in Nat /\ le >= 10 + h + k
    BY <2>1
  <2> QED
    BY <2>2, Zenon DEF le
<1>11. \A i \in 1 .. 5 + h : e[i] = a[i]
  <2>1. TAKE i \in 1 .. 5 + h
  <2>2. /\ i \in 1 .. (5 + h) + (5 + k) /\ i \in 1 .. (n + 5) + (Len(s) - n)
        /\ i <= 5 + h /\ i <= n + 5
    BY <1>1
  <2>3. i \in 1 .. Len(a) + Len(b) /\ i \in 1 .. Len(ab) + Len(c) /\ i <= Len(a) /\ i <= Len(ab)
    BY <1>9, <2>2, Zenon
  <2>4. e[i] = ab[i] /\ ab[i] = a[i]
    BY <1>7, <1>8, <2>3, Zenon
  <2> QED
    BY <2>4, Zenon
<1>12. \A i \in 1 .. 5 + k : e[5 + h + i] = b[i]
  <2>1. TAKE i \in 1 .. 5 + k
  <2> DEFINE j == 5 + h + i
  <2>2. /\ j \in 1 .. (5 + h) + (5 + k) /\ j \in 1 .. (n + 5) + (Len(s) - n)
        /\ ~(j <= 5 + h) /\ j <= n + 5 /\ j - (5 + h) = i
    BY <1>1
  <2> HIDE DEF j
  <2>3. /\ j \in 1 .. Len(a) + Len(b) /\ j \in 1 .. Len(ab) + Len(c)
        /\ ~(j <= Len(a)) /\ j <= Len(ab) /\ j - Len(a) = i
    BY <1>9, <2>2, Zenon
  <2>4. e[j] = ab[j] /\ ab[j] = b[j - Len(a)]
    BY <1>7, <1>8, <2>3, Zenon
  <2>5. e[j] = b[i]
    BY <2>3, <2>4, Zenon
  <2> QED
    BY <2>5 DEF j
<1>13. \A i \in 1 .. Len(s) - n : e[n + 5 + i] = s[n + i]
  <2>1. TAKE i \in 1 .. Len(s) - n
  <2> DEFINE j == n + 5 + i
  <2>2. j \in 1 .. (n + 5) + (Len(s) - n) /\ ~(j <= n + 5) /\ j - (n + 5) = i
    BY <1>1
  <2> HIDE DEF j
  <2>3. j \in 1 .. Len(ab) + Len(c) /\ ~(j <= Len(ab)) /\ j - Len(ab) = i
    BY <1>9, <2>2, Zenon
  <2>4. e[j] = c[j - Len(ab)] /\ c[i] = s[n + i]
    BY <1>4, <1>8, <2>3, Zenon
  <2>5. e[j] = s[n + i]
    BY <2>3, <2>4, Zenon
  <2> QED
    BY <2>5 DEF j
<1>14. Whole(e, 1) /\ Word(e, 4) = h /\ e[1] = s[1]
  <2>1. e[1] = s[1] /\ e[4] = a[4] /\ e[5] = a[5]
    <3>1. 1 \in 1 .. 5 + h /\ 4 \in 1 .. 5 + h /\ 5 \in 1 .. 5 + h
      BY <1>1
    <3> QED
      BY <1>5, <1>11, <3>1, Zenon
  <2>2. Word(e, 4) = h
    BY <1>5, <2>1, 4 + 1 = 5, Zenon DEF Word
  <2>3. 1 + 4 <= Len(e) /\ 1 + 4 + h <= Len(e) /\ 1 + 3 = 4
    BY <1>1, <1>10
  <2> QED
    BY <2>1, <2>2, <2>3 DEF Whole
<1>15. Whole(e, 6 + h) /\ Word(e, 6 + h + 3) = k /\ e[6 + h] = s[1]
  <2>1. e[5 + h + 1] = b[1] /\ e[5 + h + 4] = b[4] /\ e[5 + h + 5] = b[5]
    <3>1. 1 \in 1 .. 5 + k /\ 4 \in 1 .. 5 + k /\ 5 \in 1 .. 5 + k
      BY <1>1
    <3> QED
      BY <1>12, <3>1, Zenon
  <2>2. e[6 + h] = s[1] /\ e[6 + h + 3] = b[4] /\ e[6 + h + 3 + 1] = b[5]
    BY <1>1, <1>6, <2>1
  <2>3. Word(e, 6 + h + 3) = k
    BY <1>6, <2>2, 4 + 1 = 5, Zenon DEF Word
  <2>4. 6 + h + 4 <= Len(e) /\ 6 + h + 4 + k <= Len(e)
    BY <1>1, <1>10
  <2> QED
    BY <2>2, <2>3, <2>4 DEF Whole
<1>16. Whole(s, 1)
  BY 1 + 3 = 4 DEF Whole
<1> DEFINE u == Payload(e, 1, h)
           v == Payload(e, 6 + h, k)
           r == Turns(s)[n + 1]
<1>17. Turns(e)[11 + h + k] = r
  <2>1. n + 1 \in 1 .. Len(s) + 1 /\ 11 + h + k = n + 1 + 5
    BY <1>1
  <2>2. Repeated(s, n + 1, e, 5)
    <3>1. ASSUME NEW i \in n + 1 .. Len(s) PROVE e[i + 5] = s[i]
      <4>1. i - n \in 1 .. Len(s) - n /\ n + 5 + (i - n) = i + 5 /\ n + (i - n) = i
        OBVIOUS
      <4> QED
        BY <1>13, <4>1
    <3> QED
      BY <1>9, <3>1 DEF Repeated
  <2>3. Turns(e)[(n + 1) + 5] = Turns(s)[n + 1]
    BY <1>8, <2>1, <2>2, RestIsTheSame, 5 \in Nat, Zenon
  <2> QED
    BY <2>1, <2>3
<1>18. Turns(e)[6 + h] = v \o r
  <2>1. 6 + h \in 1 .. Len(e) /\ 6 + h + 5 + k = 11 + h + k
    BY <1>1, <1>10
  <2>2. Turns(e)[6 + h] = Payload(e, 6 + h, Word(e, 6 + h + 3)) \o Turns(e)[6 + h + 5 + Word(e, 6 + h + 3)]
    BY <1>8, <1>15, <2>1, RecordFirst, Zenon
  <2> QED
    BY <1>15, <1>17, <2>1, <2>2
<1>19. Turns(e)[1] = u \o (v \o r)
  <2>1. 1 \in 1 .. Len(e) /\ 1 + 5 + h = 6 + h /\ 1 + 3 = 4
    BY <1>1, <1>10
  <2>2. Turns(e)[1] = Payload(e, 1, Word(e, 1 + 3)) \o Turns(e)[1 + 5 + Word(e, 1 + 3)]
    BY <1>8, <1>14, <2>1, RecordFirst, Zenon
  <2> QED
    BY <1>14, <1>18, <2>1, <2>2
<1>20. Turns(s)[1] = Payload(s, 1, w) \o r
  <2>1. 1 \in 1 .. Len(s) /\ 1 + 5 + w = n + 1 /\ 1 + 3 = 4
    OBVIOUS
  <2>2. Turns(s)[1] = Payload(s, 1, Word(s, 1 + 3)) \o Turns(s)[1 + 5 + Word(s, 1 + 3)]
    BY <1>16, <2>1, RecordFirst, Zenon
  <2> QED
    BY <2>1, <2>2
<1>21. u \in Seq(Item) /\ Len(u) = h /\ v \in Seq(Item) /\ Len(v) = k /\ r \in Seq(Item)
  <2>1. 1 \in 1 .. Len(e) /\ 1 + 4 + h <= Len(e) /\ 6 + h \in 1 .. Len(e) /\ 6 + h + 4 + k <= Len(e)
    BY <1>1, <1>10
  <2>2. n + 1 \in 1 .. Len(s) + 1
    OBVIOUS
  <2>3. r \in Seq(Item)
    BY <2>2, TurnsAre
  <2> QED
    BY <1>1, <1>8, <2>1, <2>3, PayloadIs
<1>22. Payload(s, 1, w) = u \o v
  <2>1. Payload(s, 1, w) \in Seq(Item) /\ Len(Payload(s, 1, w)) = w
    <3>1. 1 \in 1 .. Len(s) /\ 1 + 4 + w <= Len(s) /\ w \in Nat
      BY <1>1, <1>9
    <3> HIDE DEF w
    <3> QED
      BY <3>1, PayloadIs
  <2>2. /\ u \o v \in Seq(Item) /\ Len(u \o v) = Len(u) + Len(v)
        /\ \A i \in 1 .. Len(u) + Len(v) : (u \o v)[i] = IF i <= Len(u) THEN u[i] ELSE v[i - Len(u)]
    <3> HIDE DEF u, v
    <3> QED
      BY <1>21, ConcatProperties, Zenon
  <2>3. ASSUME NEW i \in 1 .. w PROVE Payload(s, 1, w)[i] = (u \o v)[i]
    <3>1. Payload(s, 1, w)[i] = <<s[1], s[5 + i]>>
      <4>1. Payload(s, 1, w)[i] = <<s[1], s[1 + 4 + i]>>
        BY DEF Payload
      <4>2. 1 + 4 + i = 5 + i
        OBVIOUS
      <4> QED
        BY <4>1, <4>2
    <3>2. CASE i <= h
      <4>1. u[i] = <<e[1], e[1 + 4 + i]>> /\ 1 + 4 + i = 5 + i
        BY <1>1, <3>2 DEF Payload
      <4>2. e[5 + i] = s[5 + i]
        <5>1. 5 + i \in 1 .. 5 + h /\ i \in 1 .. h
          BY <1>1, <3>2
        <5> QED
          BY <1>5, <1>11, <5>1
      <4> HIDE DEF u, v
      <4>3. (u \o v)[i] = u[i]
        <5>1. i \in 1 .. h + k
          BY <1>1
        <5> QED
          BY <1>21, <2>2, <3>2, <5>1, Zenon
      <4>4. <<e[1], e[1 + 4 + i]>> = <<s[1], s[5 + i]>>
        BY <1>14, <4>1, <4>2, Zenon
      <4> QED
        BY <3>1, <4>1, <4>3, <4>4, Zenon
    <3>3. CASE i > h
      <4>1. i - h \in 1 .. k /\ 6 + h + 4 + (i - h) = 5 + h + (5 + (i - h)) /\ 5 + h + (i - h) = 5 + i
            /\ 5 + (i - h) \in 1 .. 5 + k
        BY <1>1, <3>3
      <4>2. v[i - h] = <<e[6 + h], e[6 + h + 4 + (i - h)]>>
        BY <4>1 DEF Payload
      <4>3. e[6 + h + 4 + (i - h)] = s[5 + i]
        <5> DEFINE j == i - h
        <5>1. j \in 1 .. k /\ 5 + j \in 1 .. 5 + k
          BY <4>1
        <5>2. 6 + h + 4 + j = 5 + h + (5 + j) /\ 5 + h + j = 5 + i
          BY <4>1
        <5> HIDE DEF j
        <5>3. e[5 + h + (5 + j)] = b[5 + j] /\ b[5 + j] = s[5 + h + j]
          BY <1>6, <1>12, <5>1, Zenon
        <5>4. e[6 + h + 4 + j] = s[5 + i]
          BY <5>2, <5>3, Zenon
        <5> QED
          BY <5>4 DEF j
      <4> HIDE DEF u, v
      <4>4. (u \o v)[i] = v[i - h]
        <5>1. i \in 1 .. h + k /\ ~(i <= h)
          BY <1>1, <3>3
        <5> QED
          BY <1>21, <2>2, <5>1, Zenon
      <4>5. v[i - h] = <<s[1], s[5 + i]>>
        BY <1>15, <4>2, <4>3
      <4>6. (u \o v)[i] = <<s[1], s[5 + i]>>
        BY <4>4, <4>5
      <4> QED
        BY <3>1, <4>6
    <3>4. i <= h \/ i > h
      BY <1>1
    <3> QED
      BY <3>2, <3>3, <3>4, Zenon
  <2>4. Len(u \o v) = w
    BY <1>1, <1>21, <2>2
  <2> DEFINE uv == u \o v
             sw == Payload(s, 1, w)
  <2>5. /\ sw \in Seq(Item) /\ uv \in Seq(Item) /\ Len(sw) = w /\ Len(uv) = w
        /\ \A i \in 1 .. w : sw[i] = uv[i]
    BY <2>1, <2>2, <2>3, <2>4
  <2> HIDE DEF uv, sw
  <2>6. sw = uv
    BY <2>5, SeqEqual
  <2> QED
    BY <2>6 DEF sw, uv
<1>23. Turns(e)[1] = Turns(s)[1]
  <2> HIDE DEF u, v, r
  <2>1. (u \o v) \o r = u \o (v \o r)
    <3>1. u \in Seq(Item) /\ v \in Seq(Item) /\ r \in Seq(Item)
      BY <1>21
    <3> QED
      BY <3>1, Reassociated, Zenon
  <2> QED
    BY <1>19, <1>20, <1>22, <2>1, Zenon
<1>24. Contents(e) = Contents(s)
  BY <1>23, ContentsAre, Zenon
<1>25. pieces[1] = a /\ pieces[2] = b
  BY <1>3
<1> QED
  BY <1>24, <1>25, Zenon DEF e, ab, c

\* tls_record_frag makes two byte sequences of anything it cuts.
LEMMA TwoRecords ==
    ASSUME NEW d \in Seq(Nat), Len(d) >= 10
    PROVE  \E a, b \in Seq(Nat) : TlsRecordFragment(d) = <<a, b>>
<1> DEFINE h == (Len(d) - 5) \div 2
           k == Len(d) - 5 - h
<1>1. h \in Nat /\ k \in Nat /\ Len(d) = 5 + h + k
  <2>1. Len(d) - 5 \in Nat
    OBVIOUS
  <2>2. h \in Nat /\ h <= Len(d) - 5
    BY <2>1
  <2> HIDE DEF h
  <2> QED
    BY <2>1, <2>2
<1>2. h = (Len(d) - 5) \div 2
  OBVIOUS
<1> HIDE DEF h, k
<1>3. 5 \in Nat /\ 5 >= 5 /\ 5 + h <= Len(d) /\ 5 + h \in Nat /\ 5 + h >= 5 /\ (5 + h) + k <= Len(d)
  BY <1>1
<1>4. Made(d, 5, h) \in Seq(Nat)
  BY <1>1, <1>3, MadeRecord, Zenon
<1>5. Made(d, 5 + h, k) \in Seq(Nat)
  BY <1>1, <1>3, MadeRecord, Zenon
<1>6. TlsRecordFragment(d) = <<Made(d, 5, h), Made(d, 5 + h, k)>>
  BY <1>1, <1>2, RecordPartsAre, Zenon
<1> QED
  BY <1>4, <1>5, <1>6, Zenon

Rest == SubSeq(stream, Len(first) + 1, Len(stream))

\* How far Apply and relay are with a first read that stays in one piece ...
InOne ==
    \/ flightPc # "relayed" /\ frags = <<first>> /\ received = <<>>
    \/ flightPc # "relayed" /\ frags = <<>> /\ received = first
    \/ flightPc = "relayed" /\ received = first \o Rest

\* ... and with one that tls_record_frag makes two records of.
InTwo ==
    LET p == TlsRecordFragment(first)
    IN \/ flightPc # "relayed" /\ frags = p /\ received = <<>>
       \/ flightPc # "relayed" /\ frags = <<p[2]>> /\ received = p[1]
       \/ flightPc # "relayed" /\ frags = <<>> /\ received = p[1] \o p[2]
       \/ flightPc = "relayed" /\ received = p[1] \o p[2] \o Rest

LeftWhole == Len(first) < 10 \/ first[1] # 22

RecordInv ==
    fragmentStrategy = "tls_record_frag" /\ flightPc # "read" =>
        /\ first \in Seq(Nat)
        /\ LeftWhole => InOne
        /\ ~LeftWhole => InTwo

LEMMA RecordStep == ASSUME FlightInv, RecordInv, FlightNext PROVE RecordInv'
<1> SUFFICES ASSUME fragmentStrategy' = "tls_record_frag", flightPc' # "read"
             PROVE  /\ first' \in Seq(Nat)
                    /\ LeftWhole' => InOne'
                    /\ ~LeftWhole' => InTwo'
  BY DEF RecordInv
<1>1. CASE ReadFirstBytes
  <2>1. PICK n \in ReadSizes(stream) : first' = SubSeq(stream, 1, n)
                                    /\ frags' = FragmentClientHello(first', fragmentStrategy)
    BY <1>1 DEF ReadFirstBytes
  <2>2. stream \in Seq(Nat) /\ n \in 1 .. Len(stream)
    BY <2>1, FlightAssumption DEF FlightInv
  <2>3. first' \in Seq(Nat)
    <3>1. SubSeq(stream, 0 + 1, n) \in Seq(Nat)
      BY <2>2, PieceOf
    <3> QED
      BY <2>1, <3>1
  <2>4. fragmentStrategy = "tls_record_frag" /\ received' = <<>> /\ flightPc' # "relayed"
    BY <1>1 DEF ReadFirstBytes, FlightInv
  <2>5. LeftWhole' => frags' = <<first'>>
    BY <2>1 DEF LeftWhole, FragmentClientHello
  <2>6. ~LeftWhole' => frags' = TlsRecordFragment(first')
    <3>1. frags' = FragmentClientHello(first', "tls_record_frag")
      BY <2>1, <2>4
    <3> QED
      BY <3>1 DEF LeftWhole, FragmentClientHello
  <2> QED
    BY <2>3, <2>4, <2>5, <2>6 DEF InOne, InTwo
<1>2. CASE WriteFragment
  <2>1. frags # <<>> /\ received' = received \o Head(frags) /\ frags' = Tail(frags)
        /\ flightPc = "write" /\ UNCHANGED <<stream, fragmentStrategy, first, flightPc>>
    BY <1>2 DEF WriteFragment
  <2>2. first \in Seq(Nat) /\ (LeftWhole => InOne) /\ (~LeftWhole => InTwo) /\ (LeftWhole' <=> LeftWhole)
    BY <2>1 DEF RecordInv, LeftWhole
  <2>3. CASE LeftWhole
    <3>1. frags = <<first>> /\ received = <<>>
      BY <2>1, <2>2, <2>3 DEF InOne
    <3>2. frags' = <<>> /\ received' = first
      BY <2>1, <2>2, <3>1
    <3> QED
      BY <2>1, <2>2, <2>3, <3>2 DEF InOne
  <2>4. CASE ~LeftWhole
    <3> DEFINE p == TlsRecordFragment(first)
    <3>1. PICK a, b \in Seq(Nat) : p = <<a, b>>
      <4>1. Len(first) >= 10
        BY <2>2, <2>4 DEF LeftWhole
      <4> QED
        BY <2>2, <4>1, TwoRecords
    <3> HIDE DEF p
    <3>2. p[1] = a /\ p[2] = b
      BY <3>1
    <3>3. (frags = <<a, b>> /\ received = <<>>) \/ (frags = <<b>> /\ received = a)
      BY <2>1, <2>2, <2>4, <3>1, <3>2 DEF InTwo, p
    <3>4. (frags' = <<b>> /\ received' = a) \/ (frags' = <<>> /\ received' = a \o b)
      <4>1. CASE frags = <<a, b>> /\ received = <<>>
        <5>1. Head(frags) = a /\ Tail(frags) = <<b>> /\ <<>> \o a = a
          BY <4>1
        <5> QED
          BY <2>1, <4>1, <5>1
      <4>2. CASE frags = <<b>> /\ received = a
        <5>1. Head(frags) = b /\ Tail(frags) = <<>>
          BY <4>2
        <5> QED
          BY <2>1, <4>2, <5>1
      <4> QED
        BY <3>3, <4>1, <4>2
    <3>5. p' = p
      BY <2>1 DEF p
    <3>6. InTwo'
      BY <2>1, <3>2, <3>4, <3>5, Zenon DEF InTwo, p
    <3> QED
      BY <2>1, <2>2, <2>4, <3>6
  <2> QED
    BY <2>3, <2>4
<1>3. CASE WriteFragmentFails
  <2>1. flightPc = "write" /\ flightPc' = "lost"
        /\ UNCHANGED <<stream, fragmentStrategy, first, frags, received>>
    BY <1>3 DEF WriteFragmentFails
  <2> QED
    BY <2>1 DEF RecordInv, LeftWhole, InOne, InTwo
<1>4. CASE RelayRest
  <2>1. frags = <<>> /\ flightPc = "write" /\ flightPc' = "relayed" /\ received' = received \o Rest
        /\ UNCHANGED <<stream, fragmentStrategy, first, frags>>
    BY <1>4 DEF RelayRest, Rest
  <2>2. first \in Seq(Nat) /\ (LeftWhole => InOne) /\ (~LeftWhole => InTwo) /\ (LeftWhole' <=> LeftWhole)
        /\ Rest' = Rest
    BY <2>1 DEF RecordInv, LeftWhole, Rest
  <2>3. CASE LeftWhole
    <3>1. received = first
      BY <2>1, <2>2, <2>3 DEF InOne
    <3> QED
      BY <2>1, <2>2, <2>3, <3>1 DEF InOne
  <2>4. CASE ~LeftWhole
    <3> DEFINE p == TlsRecordFragment(first)
    <3>1. PICK a, b \in Seq(Nat) : p = <<a, b>>
      <4>1. Len(first) >= 10
        BY <2>2, <2>4 DEF LeftWhole
      <4> QED
        BY <2>2, <4>1, TwoRecords
    <3> HIDE DEF p
    <3>2. received = p[1] \o p[2]
      BY <2>1, <2>2, <2>4, <3>1 DEF InTwo, p
    <3>3. p' = p
      BY <2>1 DEF p
    <3>4. InTwo'
      BY <2>1, <2>2, <3>2, <3>3, Zenon DEF InTwo, p
    <3> QED
      BY <2>1, <2>2, <2>4, <3>4
  <2> QED
    BY <2>3, <2>4
<1> QED
  BY <1>1, <1>2, <1>3, <1>4 DEF FlightNext

LEMMA RecordInvHolds == FlightSpec => []RecordInv
<1>1. FlightInit => RecordInv
  BY DEF FlightInit, RecordInv
<1>2. FlightInv /\ RecordInv /\ [FlightNext]_flightVars => RecordInv'
  <2>1. ASSUME RecordInv, UNCHANGED flightVars PROVE RecordInv'
    BY <2>1 DEF RecordInv, flightVars, LeftWhole, InOne, InTwo, Rest
  <2> QED
    BY <2>1, RecordStep
<1> QED
  BY FlightInvHolds, <1>1, <1>2, PTL DEF FlightSpec

\* What a two-byte length can say.
LEMMA WordFits ==
    ASSUME NEW d \in Seq(Octet), NEW p \in 1 .. Len(d) - 1
    PROVE  Word(d, p) \in Nat /\ Word(d, p) <= Word16
<1> DEFINE x == d[p]
           y == d[p + 1]
<1>1. x \in Octet /\ y \in Octet
  OBVIOUS
<1> HIDE DEF x, y
<1>2. 256 * x + y \in Nat /\ 256 * x + y <= Word16
  BY <1>1 DEF Octet, Word16
<1> QED
  BY <1>2, Zenon DEF Word, x, y

\* When the first read returned one whole record, the upstream's TLS endpoint gets what
\* the client's records carry under every strategy, tls_record_frag too: of any stream
\* of bytes, whatever follows that record (FragmentClientHello, Apply's loop, relay).
THEOREM RecordsReachTheServer == FlightSpec => []WholeRecordSurvives
<1>1. FlightInv /\ RecordInv => WholeRecordSurvives
  <2> SUFFICES ASSUME FlightInv, RecordInv,
                      flightPc = "relayed", Len(first) >= 5, Len(first) = 5 + Word(first, 4)
               PROVE  Contents(received) = Contents(stream)
    BY DEF WholeRecordSurvives
  <2> DEFINE n == Len(first)
  <2>1. n \in 0 .. Len(stream) /\ first = SubSeq(stream, 1, n) /\ stream \in Seq(Nat) /\ stream \in Seq(Octet)
    BY DEF FlightInv
  <2>2. first \o Rest = stream
    <3>1. SubSeq(stream, 1, n) \o SubSeq(stream, n + 1, Len(stream)) = SubSeq(stream, 1, Len(stream))
      <4>1. 1 \in 1 .. Len(stream) + 1 /\ n \in 1 - 1 .. Len(stream) /\ Len(stream) \in n .. Len(stream)
        BY <2>1
      <4> QED
        BY <2>1, <4>1, ConcatAdjacentSubSeq, Zenon
    <3>2. SubSeq(stream, 1, Len(stream)) = stream
      BY <2>1, SubSeqFull
    <3> QED
      BY <2>1, <3>1, <3>2, Zenon DEF Rest
  <2>3. CASE fragmentStrategy # "tls_record_frag"
    BY <2>3 DEF FlightInv
  <2>4. CASE fragmentStrategy = "tls_record_frag" /\ LeftWhole
    <3>1. received = first \o Rest
      BY <2>4 DEF RecordInv, InOne
    <3> QED
      BY <2>2, <3>1
  <2>5. CASE fragmentStrategy = "tls_record_frag" /\ ~LeftWhole
    <3> DEFINE p == TlsRecordFragment(first)
    <3>1. received = p[1] \o p[2] \o Rest
      BY <2>5 DEF RecordInv, InTwo
    <3>2. n >= 10 /\ first[1] = 22
      BY <2>1, <2>5 DEF LeftWhole
    <3>3. \A i \in 1 .. n : first[i] = stream[i]
      BY <2>1
    <3>4. stream[1] = 22 /\ first[4] = stream[4] /\ first[4 + 1] = stream[4 + 1]
      <4>1. 1 \in 1 .. n /\ 4 \in 1 .. n /\ 4 + 1 \in 1 .. n
        BY <2>1, <3>2
      <4> QED
        BY <3>2, <3>3, <4>1, Zenon
    <3>5. Word(stream, 4) = n - 5 /\ n - 5 <= Word16
      <4>1. Word(first, 4) = Word(stream, 4)
        BY <3>4, Zenon DEF Word
      <4>2. 4 \in 1 .. Len(stream) - 1
        BY <2>1, <3>2
      <4>3. Word(stream, 4) \in Nat /\ Word(stream, 4) <= Word16
        BY <2>1, <4>2, WordFits, Zenon
      <4> DEFINE w == Word(stream, 4)
      <4>4. n = 5 + w /\ w \in Nat /\ w <= Word16
        BY <4>1, <4>3, Zenon
      <4> HIDE DEF w, n
      <4>5. w = n - 5 /\ n - 5 <= Word16
        BY <4>4 DEF Word16
      <4> QED
        BY <4>5, Zenon DEF w
    <3>6. n \in 10 .. Len(stream) /\ stream[1] \in 20 .. 23
      BY <2>1, <3>2, <3>4
    <3>7. p = TlsRecordFragment(SubSeq(stream, 1, n))
      BY <2>1, Zenon
    <3> HIDE DEF p, n
    <3>8. Contents(p[1] \o p[2] \o SubSeq(stream, n + 1, Len(stream))) = Contents(stream)
      BY <2>1, <3>5, <3>6, <3>7, ContentsSurvive, ZenonT(60)
    <3> QED
      BY <3>1, <3>8, Zenon DEF Rest, n
  <2> QED
    BY <2>3, <2>4, <2>5
<1> QED
  BY FlightInvHolds, RecordInvHolds, <1>1, PTL

\* A record says how long its content is.
LEMMA RecordHeader ==
    ASSUME NEW content \in Seq(Octet)
    PROVE  /\ Len(Record(22, content)) = 5 + Len(content)
           /\ Record(22, content)[1] = 22
           /\ Len(content) <= Word16 => Word(Record(22, content), 4) = Len(content)
<1> DEFINE l == Len(content)
           a == <<22, 3, 1>>
           b == TwoBytes(l)
           h == a \o b
           q == h \o content
<1>1. Record(22, content) = q
  BY Zenon DEF Record
<1>2. l \in Nat /\ a \in Seq(Nat) /\ Len(a) = 3 /\ a[1] = 22 /\ content \in Seq(Nat)
  BY OctetsAreNumbers
<1>3. b \in Seq(Nat) /\ Len(b) = 2
  BY <1>2, TwoBytesAre, OctetsAreNumbers DEF Text
<1>4. l <= Word16 => 256 * b[1] + b[2] = l
  BY <1>2, TwoBytesHold, Zenon
<1> HIDE DEF a, b
<1>5. h \in Seq(Nat) /\ Len(h) = 5 /\ h[1] = 22 /\ h[4] = b[1] /\ h[5] = b[2]
  <2>1. /\ h \in Seq(Nat) /\ Len(h) = Len(a) + Len(b)
        /\ \A i \in 1 .. Len(a) + Len(b) : h[i] = IF i <= Len(a) THEN a[i] ELSE b[i - Len(a)]
    BY <1>2, <1>3, ConcatProperties, Zenon
  <2> HIDE DEF h
  <2>2. Len(a) + Len(b) = 5
    BY <1>2, <1>3
  <2>3. /\ 1 \in 1 .. 5 /\ 1 <= Len(a)
        /\ 4 \in 1 .. 5 /\ ~(4 <= Len(a)) /\ 4 - Len(a) = 1
        /\ 5 \in 1 .. 5 /\ ~(5 <= Len(a)) /\ 5 - Len(a) = 2
    BY <1>2
  <2> QED
    BY <1>2, <2>1, <2>2, <2>3, Zenon
<1> HIDE DEF h, l
<1>6. q[1] = h[1] /\ q[4] = h[4] /\ q[5] = h[5] /\ Len(q) = 5 + l
  <2>1. /\ q \in Seq(Nat) /\ Len(q) = Len(h) + Len(content)
        /\ \A i \in 1 .. Len(h) + Len(content) :
              q[i] = IF i <= Len(h) THEN h[i] ELSE content[i - Len(h)]
    BY <1>2, <1>5, ConcatProperties, Zenon
  <2> HIDE DEF q
  <2>2. \A i \in {1, 4, 5} : i \in 1 .. Len(h) + l /\ i <= Len(h)
    BY <1>2, <1>5
  <2> QED
    BY <1>5, <2>1, <2>2, Zenon DEF l
<1> HIDE DEF q
<1>7. l <= Word16 => Word(q, 4) = l
  BY <1>4, <1>5, <1>6, 4 + 1 = 5, Zenon DEF Word
<1> QED
  BY <1>1, <1>5, <1>6, <1>7, Zenon DEF l

\* A record of its own holds its content and nothing that follows.
LEMMA ContentsOfRecord ==
    ASSUME NEW k \in Nat, k - 5 <= Word16, NEW d \in OneRecord(k)
    PROVE  Contents(d) = Payload(d, 1, k - 5)
<1>1. PICK content \in Seq(Octet) : d = Record(22, content)
  BY DEF OneRecord
<1> DEFINE l == Len(content)
<1>2. d \in Seq(Nat) /\ Len(d) = k
  BY OctetsAreNumbers DEF OneRecord, Text
<1>3. l \in Nat
  OBVIOUS
<1>4. Len(d) = 5 + l
  BY <1>1, RecordHeader, Zenon
<1>5. l = k - 5 /\ l <= Word16
  BY <1>2, <1>3, <1>4
<1>6. d[1] = 22 /\ Word(d, 4) = l
  BY <1>1, <1>5, RecordHeader, Zenon
<1> HIDE DEF l
<1>7. Whole(d, 1) /\ 1 \in 1 .. Len(d)
  BY <1>3, <1>4, <1>6, 1 + 3 = 4 DEF Whole
<1>8. Turns(d)[1] = Payload(d, 1, l) \o Turns(d)[k + 1]
  <2>1. 1 + 3 = 4 /\ 1 + 5 + l = k + 1
    BY <1>2, <1>3, <1>4
  <2>2. Turns(d)[1] = Payload(d, 1, Word(d, 1 + 3)) \o Turns(d)[1 + 5 + Word(d, 1 + 3)]
    BY <1>2, <1>7, RecordFirst, Zenon
  <2> QED
    BY <1>6, <2>1, <2>2, Zenon
<1>9. Turns(d)[k + 1] = <<>>
  <2>1. k + 1 \in 1 .. Len(d) + 1 /\ k + 1 = Len(d) + 1
    BY <1>2
  <2> QED
    BY <1>2, <2>1, TurnsAre, TurnIs, Zenon
<1>10. Payload(d, 1, l) \in Seq(Item)
  <2>1. 1 \in 1 .. Len(d) /\ 1 + 4 + l <= Len(d)
    BY <1>3, <1>4
  <2> QED
    BY <1>2, <1>3, <2>1, PayloadIs
<1>11. Payload(d, 1, l) \o <<>> = Payload(d, 1, l)
  <2> DEFINE q == Payload(d, 1, l)
  <2>1. q \in Seq(Item)
    BY <1>10
  <2> HIDE DEF q
  <2>2. q \o <<>> = q
    BY <2>1
  <2> QED
    BY <2>2 DEF q
<1> QED
  BY <1>5, <1>8, <1>9, <1>11, ContentsAre, Zenon

\* The fake hello is one handshake record that fills it: a TLS endpoint, or an inspector,
\* reads all of it as handshake bytes, for every name whose hello a record can hold
\* (BuildClientHello, internal/tlsutil/builder.go).
THEOREM HelloIsOneRecord ==
    ASSUME NEW n \in Nat, n <= Word16 - 289
    PROVE  LET d == BuildClientHello(Filler(n))
           IN Contents(d) = [i \in 1 .. Len(d) - 5 |-> <<22, d[5 + i]>>]
<1> DEFINE d == BuildClientHello(Filler(n))
<1>1. (n <= 219 => d \in OneRecord(517)) /\ (n > 219 => d \in OneRecord(294 + n))
  BY FillerIs, HelloIs, Zenon
<1> HIDE DEF d
<1>2. PICK k \in Nat : k - 5 <= Word16 /\ d \in OneRecord(k)
  <2>1. CASE n <= 219
    <3>1. 517 \in Nat /\ 517 - 5 <= Word16
      BY DEF Word16
    <3> QED
      BY <1>1, <2>1, <3>1
  <2>2. CASE n > 219
    <3>1. 294 + n \in Nat /\ (294 + n) - 5 <= Word16
      BY DEF Word16
    <3> QED
      BY <1>1, <2>2, <3>1
  <2> QED
    BY <2>1, <2>2
<1>3. Contents(d) = Payload(d, 1, k - 5)
  BY <1>2, ContentsOfRecord, Zenon
<1>4. Len(d) = k
  BY <1>2 DEF OneRecord, Text
<1>5. d[1] = 22
  BY <1>2, RecordHeader DEF OneRecord
<1>6. \A i \in 1 .. k - 5 : 1 + 4 + i = 5 + i
  BY <1>2
<1>7. Payload(d, 1, k - 5) = [i \in 1 .. Len(d) - 5 |-> <<22, d[5 + i]>>]
  BY <1>4, <1>5, <1>6 DEF Payload
<1>8. Contents(d) = [i \in 1 .. Len(d) - 5 |-> <<22, d[5 + i]>>]
  BY <1>3, <1>7, Zenon
<1> QED
  BY <1>8, Zenon DEF d

-----------------------------------------------------------------------------
(* The name in the hello                                                     *)

\* The bytes s are in d from place o + 1 on.
InPlace(d, o, s) == o + Len(s) <= Len(d) /\ \A i \in 1 .. Len(s) : d[o + i] = s[i]

LEMMA BothInPlace ==
    ASSUME NEW d \in Seq(Octet), NEW o \in Nat, NEW a \in Seq(Octet), NEW b \in Seq(Octet),
           InPlace(d, o, a \o b)
    PROVE  InPlace(d, o, a) /\ InPlace(d, o + Len(a), b)
<1> DEFINE s == a \o b
           m == Len(a)
           n == Len(b)
<1>1. /\ m \in Nat /\ n \in Nat /\ Len(d) \in Nat /\ Len(s) = m + n
      /\ \A i \in 1 .. m + n : s[i] = IF i <= m THEN a[i] ELSE b[i - m]
  BY ConcatProperties
<1>2. o + Len(s) <= Len(d) /\ \A i \in 1 .. Len(s) : d[o + i] = s[i]
  BY DEF InPlace
<1> HIDE DEF s, m, n
<1>3. o + m <= Len(d) /\ (o + m) + n <= Len(d)
  BY <1>1, <1>2
<1>4. ASSUME NEW i \in 1 .. m PROVE d[o + i] = a[i]
  BY <1>1, <1>2
<1>5. ASSUME NEW i \in 1 .. n PROVE d[(o + m) + i] = b[i]
  <2>1. m + i \in 1 .. m + n /\ ~(m + i <= m) /\ (m + i) - m = i /\ o + (m + i) = (o + m) + i
    BY <1>1
  <2> QED
    BY <1>1, <1>2, <2>1
<1> QED
  BY <1>3, <1>4, <1>5 DEF InPlace, m, n

LEMMA AllInPlace == ASSUME NEW d \in Seq(Octet) PROVE InPlace(d, 0, d)
  BY DEF InPlace

\* A length written in two bytes is read back.
LEMMA WordInPlace ==
    ASSUME NEW d \in Seq(Octet), NEW o \in Nat, NEW n \in Nat, n <= Word16,
           InPlace(d, o, TwoBytes(n))
    PROVE  Word(d, o + 1) = n /\ d[o + 1] = n \div 256 /\ d[o + 2] = n % 256 /\ o + 2 <= Len(d)
<1> DEFINE b == TwoBytes(n)
<1>1. Len(b) = 2 /\ o + Len(b) <= Len(d) /\ \A i \in 1 .. Len(b) : d[o + i] = b[i]
  BY TwoBytesAre DEF InPlace, Text
<1>2. 256 * b[1] + b[2] = n
  BY TwoBytesHold, Zenon
<1>3. b[1] = n \div 256 /\ b[2] = n % 256
  <2>1. (n \div 256) % 256 = n \div 256
    BY DEF Word16
  <2> QED
    BY <2>1 DEF TwoBytes
<1> HIDE DEF b
<1>4. d[o + 1] = b[1] /\ d[o + 2] = b[2] /\ o + 2 <= Len(d)
  BY <1>1
<1>5. (o + 1) + 1 = o + 2
  OBVIOUS
<1>6. Word(d, o + 1) = 256 * b[1] + b[2]
  BY <1>4, <1>5 DEF Word
<1> QED
  BY <1>2, <1>3, <1>4, <1>6

\* An extension is its type, its length and its body.
LEMMA ExtensionInPlace ==
    ASSUME NEW d \in Seq(Octet), NEW o \in Nat, NEW type \in Nat, type <= Word16,
           NEW body \in Seq(Octet), Len(body) <= Word16, InPlace(d, o, Extension(type, body))
    PROVE  /\ Word(d, o + 1) = type /\ Word(d, o + 3) = Len(body)
           /\ InPlace(d, o + 4, body)
           /\ Len(Extension(type, body)) = 4 + Len(body)
           /\ o + 4 + Len(body) <= Len(d)
<1> DEFINE t == TwoBytes(type)
           l == TwoBytes(Len(body))
           h == t \o l
           n == Len(body)
<1>1. n \in Nat /\ t \in Seq(Octet) /\ l \in Seq(Octet) /\ Len(t) = 2 /\ Len(l) = 2
  BY TwoBytesAre DEF Text
<1>2. InPlace(d, o, h \o body) /\ Extension(type, body) = h \o body
  BY DEF Extension
<1> HIDE DEF t, l
<1>3. h \in Seq(Octet) /\ Len(h) = 4
  <2>1. h \in Seq(Octet) /\ Len(h) = Len(t) + Len(l)
    BY <1>1, ConcatProperties, Zenon
  <2> QED
    BY <1>1, <2>1
<1>4. Len(h \o body) = 4 + n
  BY <1>1, <1>3
<1>5. InPlace(d, o, t \o l) /\ InPlace(d, o + Len(h), body)
  <2> HIDE DEF h
  <2>1. InPlace(d, o, h) /\ InPlace(d, o + Len(h), body)
    BY <1>2, <1>3, BothInPlace, Zenon
  <2> QED
    BY <2>1 DEF h
<1> HIDE DEF h
<1>6. InPlace(d, o, t) /\ InPlace(d, o + Len(t), l)
  BY <1>1, <1>5, BothInPlace, Zenon
<1>7. InPlace(d, o + 2, l) /\ InPlace(d, o + 4, body) /\ o + 2 \in Nat /\ (o + 2) + 1 = o + 3
  BY <1>1, <1>3, <1>5, <1>6
<1>8. Word(d, o + 1) = type
  BY <1>6, WordInPlace, Zenon DEF t
<1>9. Word(d, (o + 2) + 1) = n
  <2> DEFINE q == o + 2
  <2>1. q \in Nat /\ InPlace(d, q, TwoBytes(n)) /\ n <= Word16
    BY <1>7 DEF l
  <2> HIDE DEF q, n
  <2> QED
    BY <1>1, <2>1, WordInPlace, Zenon DEF q
<1>10. o + 4 + n <= Len(d)
  BY <1>7 DEF InPlace
<1> QED
  BY <1>2, <1>4, <1>7, <1>8, <1>9, <1>10

\* ServerName walks over the extensions with a recursive function. Step is what it finds
\* at place p, given what it found at the places after p, and Walk is that function.
Step(d, end, f, p) ==
    IF p + 3 > end \/ p + 3 + Word(d, p + 2) > end THEN NoName
    ELSE LET len == Word(d, p + 2)
             later == f[p + 4 + len]
             nameLen == Word(d, p + 7)
         IN IF later # NoName THEN later
            ELSE IF Word(d, p) = 0 /\ len >= 5 /\ 5 + nameLen <= len
            THEN [at |-> p + 9, len |-> nameLen]
            ELSE NoName

Walk(d, end) == CHOOSE f : f = [p \in 1 .. end + 1 |-> Step(d, end, f, p)]

LEMMA ServerNameIs ==
    ASSUME NEW d, NEW from, NEW end
    PROVE  ServerName(d, from, end) = Walk(d, end)[from]
  BY DEF ServerName, Walk, Step

\* A whole extension starts at p; it is a server name.
ExtensionFits(d, end, p) == p + 3 <= end /\ p + 3 + Word(d, p + 2) <= end
After(d, p) == p + 4 + Word(d, p + 2)
HoldsName(d, p) == Word(d, p) = 0 /\ Word(d, p + 2) >= 5 /\ 5 + Word(d, p + 7) <= Word(d, p + 2)
NameAt(d, p) == [at |-> p + 9, len |-> Word(d, p + 7)]

LEMMA StepIs ==
    ASSUME NEW d \in Seq(Octet), NEW end \in 0 .. Len(d), NEW f, NEW p \in 1 .. end + 1
    PROVE  /\ ~ExtensionFits(d, end, p) => Step(d, end, f, p) = NoName
           /\ ExtensionFits(d, end, p) =>
                /\ After(d, p) \in p + 1 .. end + 1
                /\ Step(d, end, f, p) = IF f[After(d, p)] # NoName THEN f[After(d, p)]
                                        ELSE IF HoldsName(d, p) THEN NameAt(d, p) ELSE NoName
<1>1. CASE p + 3 > end
  BY <1>1 DEF ExtensionFits, Step
<1>2. CASE p + 3 <= end
  <2> DEFINE w == Word(d, p + 2)
  <2>1. w \in Nat
    <3>1. p + 2 \in 1 .. Len(d) - 1
      BY <1>2
    <3> QED
      BY <3>1, WordIs, OctetsAreNumbers
  <2>2. ExtensionFits(d, end, p) <=> ~(p + 3 + w > end)
    BY <1>2, <2>1 DEF ExtensionFits
  <2>3. ~(p + 3 > end)
    BY <1>2
  <2>4. ExtensionFits(d, end, p) => After(d, p) \in p + 1 .. end + 1
    BY <2>1, <2>2 DEF After
  <2>5. ~ExtensionFits(d, end, p) => Step(d, end, f, p) = NoName
    BY <2>2, Zenon DEF Step
  <2>6. ExtensionFits(d, end, p) =>
            Step(d, end, f, p) = IF f[After(d, p)] # NoName THEN f[After(d, p)]
                                 ELSE IF HoldsName(d, p) THEN NameAt(d, p) ELSE NoName
    BY <2>2, <2>3, Zenon DEF Step, After, HoldsName, NameAt
  <2> QED
    BY <2>4, <2>5, <2>6
<1> QED
  BY <1>1, <1>2

\* A step uses only what was found further on.
LEMMA StepLooksAhead ==
    ASSUME NEW d \in Seq(Octet), NEW end \in 0 .. Len(d), NEW f, NEW g, NEW p \in 1 .. end + 1,
           \A x \in p + 1 .. end + 1 : f[x] = g[x]
    PROVE  Step(d, end, f, p) = Step(d, end, g, p)
<1>1. CASE ExtensionFits(d, end, p)
  <2>1. After(d, p) \in p + 1 .. end + 1
    BY <1>1, StepIs, Zenon
  <2>2. f[After(d, p)] = g[After(d, p)]
    BY <2>1, Zenon
  <2>3. Step(d, end, f, p) = IF f[After(d, p)] # NoName THEN f[After(d, p)]
                             ELSE IF HoldsName(d, p) THEN NameAt(d, p) ELSE NoName
    BY <1>1, StepIs, Zenon
  <2>4. Step(d, end, g, p) = IF g[After(d, p)] # NoName THEN g[After(d, p)]
                             ELSE IF HoldsName(d, p) THEN NameAt(d, p) ELSE NoName
    BY <1>1, StepIs, Zenon
  <2> QED
    BY <2>2, <2>3, <2>4
<1>2. CASE ~ExtensionFits(d, end, p)
  BY <1>2, StepIs, Zenon
<1> QED
  BY <1>1, <1>2

\* That function exists, as TurnsAre shows of the other one: were there a number of
\* places, counted from the end, for which none is right, the least would not be one.
LEMMA WalkIs ==
    ASSUME NEW d \in Seq(Octet), NEW end \in 0 .. Len(d)
    PROVE  \A p \in 1 .. end + 1 : Walk(d, end)[p] = Step(d, end, Walk(d, end), p)
<1> DEFINE n == end + 1
           Solves(f, k) == \A p \in 1 .. n : p > n - k => f[p] = Step(d, end, f, p)
           Bad == {k \in 0 .. n : \A f : ~Solves(f, k)}
<1>1. n \in Nat /\ n >= 1
  OBVIOUS
<1>2. Bad = {}
  <2> SUFFICES ASSUME Bad # {} PROVE FALSE
    OBVIOUS
  <2>1. PICK k \in Bad : \A j \in Bad : k <= j
    BY <1>1, LeastNumber, Bad \subseteq Nat
  <2>2. k \in 0 .. n /\ \A f : ~Solves(f, k)
    OBVIOUS
  <2>3. k # 0
    <3>1. \A p \in 1 .. n : ~(p > n - 0)
      BY <1>1
    <3> QED
      BY <2>2, <3>1, Zenon
  <2>4. k - 1 \in 0 .. n /\ k - 1 \notin Bad
    <3>1. k - 1 \in 0 .. n /\ ~(k <= k - 1)
      BY <1>1, <2>2, <2>3
    <3> HIDE DEF Bad
    <3> QED
      BY <2>1, <3>1, Zenon
  <2>5. PICK f : Solves(f, k - 1)
    BY <2>4, Zenon
  <2> DEFINE q == n + 1 - k
             g == [p \in 1 .. n |-> IF p = q THEN Step(d, end, f, q) ELSE f[p]]
  <2>6. q \in 1 .. n
    BY <1>1, <2>2, <2>3
  <2>7. g[q] = Step(d, end, f, q) /\ \A x \in 1 .. n : x # q => g[x] = f[x]
    <3> HIDE DEF q
    <3> QED
      BY <2>6, Zenon
  <2> HIDE DEF g
  <2>8. ASSUME NEW p \in 1 .. n, p > n - k PROVE g[p] = Step(d, end, g, p)
    <3>1. p >= q /\ p \in 1 .. end + 1
      BY <1>1, <2>2, <2>8
    <3>2. \A x \in p + 1 .. end + 1 : f[x] = g[x]
      BY <2>6, <2>7, <3>1
    <3>3. Step(d, end, f, p) = Step(d, end, g, p)
      BY <3>1, <3>2, StepLooksAhead
    <3>4. CASE p = q
      BY <2>7, <3>3, <3>4, Zenon
    <3>5. CASE p # q
      <4>1. p > n - (k - 1)
        BY <1>1, <2>2, <3>1, <3>5
      <4>2. f[p] = Step(d, end, f, p)
        BY <2>5, <4>1, Zenon
      <4>3. g[p] = f[p]
        BY <2>7, <3>5, Zenon
      <4> QED
        BY <3>3, <4>2, <4>3, Zenon
    <3> QED
      BY <3>4, <3>5
  <2> QED
    BY <2>2, <2>8, Zenon
<1>3. PICK f : Solves(f, n)
  <2>1. n \in 0 .. n
    BY <1>1
  <2> QED
    BY <1>2, <2>1, Zenon
<1>4. \A p \in 1 .. n : f[p] = Step(d, end, f, p)
  <2>1. \A p \in 1 .. n : p > n - n
    BY <1>1
  <2> QED
    BY <1>3, <2>1
<1> DEFINE h == [p \in 1 .. n |-> f[p]]
<1>5. h = [p \in 1 .. n |-> Step(d, end, h, p)]
  <2>1. ASSUME NEW p \in 1 .. n PROVE Step(d, end, f, p) = Step(d, end, h, p)
    <3>1. \A x \in p + 1 .. end + 1 : x \in 1 .. n
      OBVIOUS
    <3>2. \A x \in p + 1 .. end + 1 : f[x] = h[x]
      BY <3>1, Zenon
    <3> HIDE DEF h
    <3> QED
      BY <3>2, StepLooksAhead, Zenon
  <2> QED
    BY <1>4, <2>1, Zenon
<1> DEFINE t == Walk(d, end)
<1>6. t = [p \in 1 .. n |-> Step(d, end, t, p)]
  <2> HIDE DEF h
  <2> QED
    BY <1>5, Zenon DEF Walk
<1> HIDE DEF t
<1>7. \A p \in 1 .. n : t[p] = Step(d, end, t, p)
  BY <1>6, Zenon
<1> QED
  BY <1>7, Zenon DEF t

\* The walk that stops at end finds nothing after the first o bytes.
Silent(d, end, o) == o <= end => Walk(d, end)[o + 1] = NoName

LEMMA SilentAtEnd ==
    ASSUME NEW d \in Seq(Octet), NEW end \in 0 .. Len(d), NEW o \in Nat, end <= o
    PROVE  Silent(d, end, o)
<1> SUFFICES ASSUME o <= end PROVE Walk(d, end)[o + 1] = NoName
  BY DEF Silent
<1> DEFINE p == o + 1
           f == Walk(d, end)
<1>1. p \in 1 .. end + 1 /\ ~ExtensionFits(d, end, p)
  BY DEF ExtensionFits
<1> HIDE DEF p
<1>2. f[p] = Step(d, end, f, p)
  BY <1>1, WalkIs
<1> HIDE DEF f
<1>3. Step(d, end, f, p) = NoName
  BY <1>1, StepIs, Zenon
<1> QED
  BY <1>2, <1>3, Zenon DEF p, f

\* An extension of another type is passed over, or does not fit, which ends the walk.
LEMMA SilentExtension ==
    ASSUME NEW d \in Seq(Octet), NEW end \in 0 .. Len(d), NEW o \in Nat,
           NEW type \in Nat, type <= Word16, type # 0,
           NEW body \in Seq(Octet), Len(body) <= Word16,
           InPlace(d, o, Extension(type, body)), Silent(d, end, o + Len(Extension(type, body)))
    PROVE  Silent(d, end, o)
<1> SUFFICES ASSUME o <= end PROVE Walk(d, end)[o + 1] = NoName
  BY DEF Silent
<1> DEFINE n == Len(body)
           p == o + 1
           f == Walk(d, end)
<1>1. /\ Word(d, o + 1) = type /\ Word(d, o + 3) = n
      /\ Len(Extension(type, body)) = 4 + n /\ n \in Nat
  BY ExtensionInPlace
<1> HIDE DEF n
<1>2. p \in 1 .. end + 1 /\ p + 2 = o + 3
  BY <1>1
<1>3. f[p] = Step(d, end, f, p)
  <2> HIDE DEF p
  <2> QED
    BY <1>2, WalkIs
<1>4. ASSUME ExtensionFits(d, end, p) PROVE f[After(d, p)] = NoName
  <2>1. After(d, p) = (o + (4 + n)) + 1 /\ o + (4 + n) <= end
    BY <1>1, <1>2, <1>4 DEF ExtensionFits, After
  <2> HIDE DEF f, p
  <2> QED
    BY <1>1, <2>1, Zenon DEF Silent, f
<1>5. ~HoldsName(d, p)
  BY <1>1 DEF HoldsName
<1> HIDE DEF f, p
<1>6. Step(d, end, f, p) = NoName
  <2>1. CASE ~ExtensionFits(d, end, p)
    BY <1>2, <2>1, StepIs, Zenon
  <2>2. CASE ExtensionFits(d, end, p)
    <3>1. Step(d, end, f, p) = IF f[After(d, p)] # NoName THEN f[After(d, p)]
                               ELSE IF HoldsName(d, p) THEN NameAt(d, p) ELSE NoName
      BY <1>2, <2>2, StepIs, Zenon
    <3> QED
      BY <1>4, <1>5, <2>2, <3>1
  <2> QED
    BY <2>1, <2>2
<1> QED
  BY <1>3, <1>6, Zenon DEF f, p

LEMMA PassedOver ==
    ASSUME NEW d \in Seq(Octet), NEW end \in 0 .. Len(d), NEW o \in Nat, NEW a \in Seq(Octet),
           NEW type \in Nat, type <= Word16, type # 0,
           NEW body \in Seq(Octet), Len(body) <= Word16,
           InPlace(d, o, a \o Extension(type, body)),
           Silent(d, end, o + Len(a \o Extension(type, body)))
    PROVE  InPlace(d, o, a) /\ Silent(d, end, o + Len(a))
<1> DEFINE e == Extension(type, body)
<1>1. e \in Seq(Octet)
  <2>1. body \in Text(Len(body)) /\ Len(body) \in Nat /\ 4 + Len(body) \in Nat
    BY DEF Text
  <2>2. e \in Text(4 + Len(body))
    BY <2>1, ExtensionIs, Zenon
  <2> QED
    BY <2>2 DEF Text
<1>2. InPlace(d, o, a \o e) /\ Silent(d, end, o + Len(a \o e))
  OBVIOUS
<1> HIDE DEF e
<1>3. InPlace(d, o, a) /\ InPlace(d, o + Len(a), e)
  BY <1>1, <1>2, BothInPlace, Zenon
<1>4. Len(a \o e) = Len(a) + Len(e) /\ Len(a) \in Nat /\ Len(e) \in Nat
  BY <1>1, ConcatProperties
<1> DEFINE q == o + Len(a)
<1>5. q \in Nat /\ o + Len(a \o e) = q + Len(e)
  BY <1>4
<1>6. InPlace(d, q, e) /\ Silent(d, end, q + Len(e))
  BY <1>2, <1>3, <1>5
<1> HIDE DEF q
<1>7. Silent(d, end, q)
  BY <1>5, <1>6, SilentExtension, Zenon DEF e
<1> QED
  BY <1>3, <1>7 DEF q

\* The extensions between the name and the key share are not names.
LEMMA FixedAreSilent ==
    ASSUME NEW d \in Seq(Octet), NEW end \in 0 .. Len(d), NEW o \in Nat,
           InPlace(d, o, FixedExtensions),
           Silent(d, end, o + Len(FixedExtensions))
    PROVE  Silent(d, end, o)
<1> DEFINE b1 == Filler(4)
           b2 == Filler(22)
           b3 == <<>>
           b4 == Filler(14)
           b7 == Filler(42)
           b8 == Filler(5)
           b9 == Filler(2)
           f1 == Extension(11, b1)
           f2 == f1 \o Extension(10, b2)
           f3 == f2 \o Extension(35, b3)
           f4 == f3 \o Extension(16, b4)
           f5 == f4 \o Extension(22, b3)
           f6 == f5 \o Extension(23, b3)
           f7 == f6 \o Extension(13, b7)
           f8 == f7 \o Extension(43, b8)
           f9 == f8 \o Extension(45, b9)
           Body(b) == b \in Seq(Octet) /\ Len(b) <= Word16
           Past(f) == InPlace(d, o, f) /\ Silent(d, end, o + Len(f))
<1>1. Past(f9)
  BY Zenon DEF FixedExtensions
<1>2. Body(b1) /\ Body(b2) /\ Body(b3) /\ Body(b4) /\ Body(b7) /\ Body(b8) /\ Body(b9)
  <2>1. \A n \in 0 .. 100 : Filler(n) \in Seq(Octet) /\ Len(Filler(n)) <= Word16
    <3>1. \A n \in 0 .. 100 : n \in Nat /\ n <= Word16
      BY DEF Word16
    <3>2. \A n \in Nat : Filler(n) \in Seq(Octet) /\ Len(Filler(n)) = n
      BY FillerIs, Zenon DEF Text
    <3> QED
      BY <3>1, <3>2, Zenon
  <2>2. <<>> \in Seq(Octet) /\ Len(<<>>) <= Word16
    BY DEF Word16
  <2> QED
    BY <2>1, <2>2
<1>3. ASSUME NEW f \in Seq(Octet), NEW type \in 1 .. 255, NEW b, Body(b)
      PROVE  /\ f \o Extension(type, b) \in Seq(Octet)
             /\ Past(f \o Extension(type, b)) => Past(f)
  <2>1. type \in Nat /\ type <= Word16 /\ type # 0
    BY DEF Word16
  <2>2. b \in Seq(Octet) /\ Len(b) <= Word16 /\ b \in Text(Len(b)) /\ Len(b) \in Nat /\ 4 + Len(b) \in Nat
    BY <1>3 DEF Text
  <2>3. Extension(type, b) \in Text(4 + Len(b))
    BY <2>1, <2>2, ExtensionIs, Zenon
  <2>4. Extension(type, b) \in Seq(Octet)
    BY <2>3 DEF Text
  <2>5. f \o Extension(type, b) \in Seq(Octet)
    BY <2>4, ConcatProperties, Zenon
  <2> QED
    BY <2>1, <2>2, <2>5, PassedOver, Zenon
<1>4. f1 \in Seq(Octet)
  BY FilledExtensionIs DEF Text
<1> HIDE DEF b1, b2, b3, b4, b7, b8, b9, Body, Past, f1, f2, f3, f4, f5, f6, f7, f8, f9
<1>5. f2 \in Seq(Octet) /\ (Past(f2) => Past(f1))
  BY <1>2, <1>3, <1>4, 10 \in 1 .. 255 DEF f2
<1>6. f3 \in Seq(Octet) /\ (Past(f3) => Past(f2))
  BY <1>2, <1>3, <1>5, 35 \in 1 .. 255 DEF f3
<1>7. f4 \in Seq(Octet) /\ (Past(f4) => Past(f3))
  BY <1>2, <1>3, <1>6, 16 \in 1 .. 255 DEF f4
<1>8. f5 \in Seq(Octet) /\ (Past(f5) => Past(f4))
  BY <1>2, <1>3, <1>7, 22 \in 1 .. 255 DEF f5
<1>9. f6 \in Seq(Octet) /\ (Past(f6) => Past(f5))
  BY <1>2, <1>3, <1>8, 23 \in 1 .. 255 DEF f6
<1>10. f7 \in Seq(Octet) /\ (Past(f7) => Past(f6))
  BY <1>2, <1>3, <1>9, 13 \in 1 .. 255 DEF f7
<1>11. f8 \in Seq(Octet) /\ (Past(f8) => Past(f7))
  BY <1>2, <1>3, <1>10, 43 \in 1 .. 255 DEF f8
<1>12. Past(f9) => Past(f8)
  BY <1>2, <1>3, <1>11, 45 \in 1 .. 255 DEF f9
<1>13. Past(f1)
  BY <1>1, <1>5, <1>6, <1>7, <1>8, <1>9, <1>10, <1>11, <1>12, Zenon
<1>14. InPlace(d, o, Extension(11, b1)) /\ Silent(d, end, o + Len(Extension(11, b1)))
       /\ b1 \in Seq(Octet) /\ Len(b1) <= Word16
  BY <1>2, <1>13, Zenon DEF Past, f1, Body
<1>15. 11 \in Nat /\ 11 <= Word16 /\ 11 # 0
  BY DEF Word16
<1> QED
  BY <1>14, <1>15, SilentExtension, Zenon

\* The third byte of the handshake's length, in a record of k bytes.
HighByte(k) == ((k - 9) \div 65536) % 256

\* Where record, handshake and lengths end up around fields, extensions and padding.
LEMMA WrappedInPlace ==
    ASSUME NEW l \in Nat, NEW m \in Nat, NEW p \in Nat,
           NEW fields \in Text(l), NEW exts \in Text(m), NEW padding \in Text(p),
           NEW k, k = 11 + l + m + p,
           NEW d, d = Record(22, Handshake(fields \o TwoBytes(Len(exts \o padding)) \o exts \o padding))
    PROVE  /\ d \in Text(k)
           /\ InPlace(d, 0, <<22, 3, 1>>) /\ InPlace(d, 3, TwoBytes(k - 5))
           /\ InPlace(d, 5, <<1, HighByte(k)>>) /\ InPlace(d, 7, TwoBytes(k - 9))
           /\ InPlace(d, 9, fields) /\ InPlace(d, 9 + l, TwoBytes(m + p))
           /\ InPlace(d, 11 + l, exts) /\ InPlace(d, 11 + l + m, padding)
<1> DEFINE lengths == TwoBytes(Len(exts \o padding))
           b1 == fields \o lengths
           b2 == b1 \o exts
           body == b2 \o padding
           high == HighByte(k)
           start == <<1, (Len(body) \div 65536) % 256>>
           count == TwoBytes(Len(body))
           h1 == start \o count
           hs == h1 \o body
           intro == <<22, 3, 1>>
           total == TwoBytes(Len(hs))
           r1 == intro \o total
           Str(s, n) == s \in Seq(Octet) /\ Len(s) = n
           Split(a, b, o, n) == InPlace(d, o, a \o b) => InPlace(d, o, a) /\ InPlace(d, o + n, b)
<1>1. Str(fields, l) /\ Str(exts, m) /\ Str(padding, p)
  BY DEF Text
<1>2. ASSUME NEW i \in Nat, NEW j \in Nat, NEW a, NEW b, Str(a, i), Str(b, j) PROVE Str(a \o b, i + j)
  BY <1>2, ConcatProperties, Zenon
<1>3. ASSUME NEW i \in Nat PROVE Str(TwoBytes(i), 2)
  BY <1>3, TwoBytesAre DEF Text
<1>4. Str(lengths, 2) /\ lengths = TwoBytes(m + p)
  <2>1. Len(exts \o padding) = m + p /\ m + p \in Nat
    BY <1>1, <1>2
  <2> QED
    BY <1>3, <2>1
<1>5. Str(intro, 3)
  BY DEF Octet
<1>6. d = r1 \o hs
  BY DEF Record, Handshake
<1> HIDE DEF lengths, intro, Str
<1>7. Str(b1, l + 2)
  BY <1>1, <1>2, <1>4, 2 \in Nat, Zenon
<1>8. Str(b2, l + 2 + m)
  <2> HIDE DEF b1
  <2> QED
    BY <1>1, <1>2, <1>7, l + 2 \in Nat
<1>9. Str(body, k - 9) /\ k - 9 \in Nat
  <2> HIDE DEF b2
  <2>1. Str(body, (l + 2 + m) + p) /\ (l + 2 + m) + p = k - 9 /\ k - 9 \in Nat
    BY <1>1, <1>2, <1>8, l + 2 + m \in Nat
  <2> QED
    BY <2>1, Zenon
<1> HIDE DEF body
<1>10. Len(body) = k - 9
  BY <1>9, Zenon DEF Str
<1>11. Str(start, 2) /\ start = <<1, high>>
  <2>1. high \in Octet /\ 1 \in Octet
    BY <1>9 DEF Octet, HighByte
  <2>2. start = <<1, high>>
    BY <1>10 DEF HighByte
  <2> HIDE DEF high
  <2>3. <<1, high>> \in Seq(Octet) /\ Len(<<1, high>>) = 2
    BY <2>1
  <2> QED
    BY <2>2, <2>3 DEF Str
<1> HIDE DEF high
<1>12. Str(count, 2) /\ count = TwoBytes(k - 9)
  BY <1>3, <1>9, <1>10, Zenon
<1> HIDE DEF start, count
<1>13. Str(h1, 4)
  <2>1. Str(h1, 2 + 2)
    BY <1>2, <1>11, <1>12, 2 \in Nat, Zenon
  <2> QED
    BY <2>1
<1> HIDE DEF h1
<1>14. Str(hs, k - 5) /\ k - 5 \in Nat
  <2>1. Str(hs, 4 + (k - 9)) /\ 4 + (k - 9) = k - 5 /\ k - 5 \in Nat
    BY <1>2, <1>9, <1>13, 4 \in Nat
  <2> QED
    BY <2>1, Zenon
<1> HIDE DEF hs
<1>15. Str(total, 2) /\ total = TwoBytes(k - 5)
  <2>1. Len(hs) = k - 5
    BY <1>14, Zenon DEF Str
  <2> QED
    BY <1>3, <1>14, <2>1, Zenon
<1> HIDE DEF total
<1>16. Str(r1, 5)
  <2>1. Str(r1, 3 + 2)
    BY <1>2, <1>5, <1>15, 2 \in Nat, 3 \in Nat, Zenon
  <2> QED
    BY <2>1
<1> HIDE DEF r1
<1>17. Str(d, k)
  <2>1. Str(r1 \o hs, 5 + (k - 5)) /\ 5 + (k - 5) = k
    BY <1>2, <1>14, <1>16, 5 \in Nat
  <2> QED
    BY <1>6, <2>1, Zenon
<1>18. ASSUME NEW i \in Nat, NEW j \in Nat, NEW a, NEW b, Str(a, i), Str(b, j), NEW o \in Nat
       PROVE Split(a, b, o, i)
  <2>1. d \in Seq(Octet) /\ a \in Seq(Octet) /\ b \in Seq(Octet) /\ Len(a) = i
    BY <1>17, <1>18, Zenon DEF Str
  <2> QED
    BY <2>1, BothInPlace, Zenon
<1> HIDE DEF Split
<1>19. InPlace(d, 0, r1) /\ InPlace(d, 5, hs)
  <2>1. Split(r1, hs, 0, 5)
    BY <1>14, <1>16, <1>18, 0 \in Nat, 5 \in Nat, Zenon
  <2>2. InPlace(d, 0, r1 \o hs)
    BY <1>6, <1>17, AllInPlace, Zenon DEF Str
  <2> QED
    BY <2>1, <2>2, 0 + 5 = 5, Zenon DEF Split
<1>20. InPlace(d, 0, intro) /\ InPlace(d, 3, total)
  <2>1. Split(intro, total, 0, 3)
    BY <1>5, <1>15, <1>18, 0 \in Nat, 2 \in Nat, 3 \in Nat, Zenon
  <2> QED
    BY <1>19, <2>1, 0 + 3 = 3, Zenon DEF Split, r1
<1>21. InPlace(d, 5, h1) /\ InPlace(d, 9, body)
  <2>1. Split(h1, body, 5, 4)
    BY <1>9, <1>13, <1>18, 4 \in Nat, 5 \in Nat, Zenon
  <2> QED
    BY <1>19, <2>1, 5 + 4 = 9, Zenon DEF Split, hs
<1>22. InPlace(d, 5, start) /\ InPlace(d, 7, count)
  <2>1. Split(start, count, 5, 2)
    BY <1>11, <1>12, <1>18, 2 \in Nat, 5 \in Nat, Zenon
  <2> QED
    BY <1>21, <2>1, 5 + 2 = 7, Zenon DEF Split, h1
<1> DEFINE o2 == l + 2 + m
           o1 == l + 2
<1>23. o1 \in Nat /\ o2 \in Nat /\ 9 + o2 = 11 + l + m /\ 9 + o1 = 11 + l
  OBVIOUS
<1>24. Str(b2, o2) /\ Str(b1, o1)
  BY <1>7, <1>8, Zenon
<1> HIDE DEF o1, o2, b1, b2
<1>25. InPlace(d, 9, b2) /\ InPlace(d, 11 + l + m, padding)
  <2>1. Split(b2, padding, 9, o2)
    BY <1>1, <1>23, <1>24, <1>18, 9 \in Nat, Zenon
  <2> QED
    BY <1>21, <1>23, <2>1, Zenon DEF Split, body
<1>26. InPlace(d, 9, b1) /\ InPlace(d, 11 + l, exts)
  <2>1. Split(b1, exts, 9, o1)
    BY <1>1, <1>23, <1>24, <1>18, 9 \in Nat, Zenon
  <2> QED
    BY <1>25, <1>23, <2>1, Zenon DEF Split, b2
<1>27. InPlace(d, 9, fields) /\ InPlace(d, 9 + l, lengths)
  <2>1. Split(fields, lengths, 9, l)
    BY <1>1, <1>4, <1>18, 2 \in Nat, 9 \in Nat, Zenon
  <2> QED
    BY <1>26, <2>1, Zenon DEF Split, b1
<1>28. d \in Text(k)
  BY <1>17, Zenon DEF Str, Text
<1>29. InPlace(d, 5, <<1, HighByte(k)>>)
  BY <1>11, <1>22, Zenon DEF high
<1> QED
  BY <1>4, <1>12, <1>15, <1>20, <1>22, <1>25, <1>26, <1>27, <1>28, <1>29 DEF intro

\* The parts of the hello the builder makes.
Fields == <<3, 3>> \o Filler(32) \o <<32>> \o Filler(32) \o TwoBytes(36) \o Filler(36) \o <<1, 0>>
Named(name) == BuildSNIExtension(name) \o FixedExtensions
Extensions(name) == Named(name) \o BuildKeyShareExtension(Filler(32))
Padding(n) == BuildPaddingExtension(517, 294 + n)
HelloSize(n) == IF n <= 219 THEN 517 ELSE 294 + n

LEMMA ExtensionsAre ==
    ASSUME NEW n \in Nat, NEW name \in Text(n)
    PROVE  /\ BuildSNIExtension(name) \in Text(9 + n)
           /\ Named(name) \in Text(134 + n)
           /\ Extensions(name) \in Text(176 + n)
<1> DEFINE m1 == 9 + n
           m2 == 134 + n
           m == 176 + n
           sni == BuildSNIExtension(name)
           share == BuildKeyShareExtension(Filler(32))
<1>1. sni \in Text(m1)
  BY SNIExtensionIs, Zenon
<1>2. share \in Text(42)
  BY KeyShareIs, Zenon
<1>3. m1 \in Nat /\ m2 \in Nat /\ m \in Nat
  OBVIOUS
<1>4. m2 = m1 + 125 /\ m = m2 + 42
  OBVIOUS
<1> HIDE DEF m1, m2, m, sni, share
<1>5. sni \o FixedExtensions \in Text(m2)
  BY <1>1, <1>3, <1>4, FixedExtensionsAre, Joined, 125 \in Nat, Zenon
<1> DEFINE named == sni \o FixedExtensions
<1>55. named \in Text(m2)
  BY <1>5
<1> HIDE DEF named
<1>6. named \o share \in Text(m)
  BY <1>2, <1>3, <1>4, <1>55, Joined, 42 \in Nat, Zenon
<1>7. Named(name) = named /\ Extensions(name) = named \o share
  BY DEF Named, Extensions, named, sni, share
<1> QED
  BY <1>1, <1>5, <1>6, <1>7 DEF m1, m2, m, sni, named

LEMMA HelloInPlace ==
    ASSUME NEW n \in Nat, NEW name \in Text(n), NEW d, d = BuildClientHello(name),
           NEW k, k = HelloSize(n)
    PROVE  /\ d \in Text(k)
           /\ InPlace(d, 0, <<22, 3, 1>>) /\ InPlace(d, 3, TwoBytes(k - 5))
           /\ InPlace(d, 5, <<1, HighByte(k)>>) /\ InPlace(d, 7, TwoBytes(k - 9))
           /\ InPlace(d, 9, Fields) /\ InPlace(d, 116, TwoBytes(k - 118))
           /\ InPlace(d, 118, Extensions(name)) /\ InPlace(d, 294 + n, Padding(n))
<1> DEFINE m == 176 + n
           l == 107
           exts == Extensions(name)
           padding == BuildPaddingExtension(517, 5 + 4 + Len(Fields) + 2 + Len(exts))
<1>1. d = Record(22, Handshake(Fields \o TwoBytes(Len(exts \o padding)) \o exts \o padding))
  BY DEF BuildClientHello, Fields, Named, Extensions
<1>2. Fields \in Text(l) /\ exts \in Text(m)
  BY FieldsAre, ExtensionsAre DEF Fields
<1> HIDE DEF exts
<1>3. padding = Padding(n)
  <2>1. Len(Fields) = 107 /\ Len(exts) = m
    BY <1>2, LengthOfText
  <2>2. 5 + 4 + Len(Fields) + 2 + Len(exts) = 294 + n
    BY <2>1
  <2> QED
    BY <2>2, Zenon DEF Padding
<1> HIDE DEF padding
<1>4. PICK p \in Nat : padding \in Text(p) /\ k = 294 + n + p
  <2>1. CASE n <= 219
    <3>1. 223 - n \in Nat /\ k = 294 + n + (223 - n)
      BY <2>1 DEF HelloSize
    <3> QED
      BY <1>3, <2>1, <3>1, PaddingIs DEF Padding
  <2>2. CASE n > 219
    <3>1. 0 \in Nat /\ k = 294 + n + 0
      BY <2>2 DEF HelloSize
    <3> QED
      BY <1>3, <2>2, <3>1, PaddingIs DEF Padding
  <2> QED
    BY <2>1, <2>2
<1>5. l \in Nat /\ m \in Nat /\ k = 11 + l + m + p
  BY <1>4
<1>6. /\ 9 + l = 116 /\ 11 + l = 118 /\ 11 + l + m = 294 + n /\ m + p = k - 118
  BY <1>4
<1> HIDE DEF l, m
<1>7. /\ d \in Text(k)
      /\ InPlace(d, 0, <<22, 3, 1>>) /\ InPlace(d, 3, TwoBytes(k - 5))
      /\ InPlace(d, 5, <<1, HighByte(k)>>) /\ InPlace(d, 7, TwoBytes(k - 9))
      /\ InPlace(d, 9, Fields) /\ InPlace(d, 9 + l, TwoBytes(m + p))
      /\ InPlace(d, 11 + l, exts) /\ InPlace(d, 11 + l + m, padding)
  BY <1>1, <1>2, <1>4, <1>5, WrappedInPlace, Zenon
<1>8. /\ InPlace(d, 116, TwoBytes(k - 118)) /\ InPlace(d, 118, exts)
      /\ InPlace(d, 294 + n, Padding(n))
  BY <1>3, <1>6, <1>7
<1> QED
  BY <1>7, <1>8 DEF exts

\* Version, random, session id, suites and compression, byte by byte.
LEMMA FieldBytes ==
    ASSUME NEW d \in Seq(Octet), InPlace(d, 9, Fields)
    PROVE  /\ d[10] = 3 /\ d[11] = 3 /\ d[44] = 32
           /\ \A i \in (12 .. 43) \union (45 .. 76) \union (79 .. 114) : d[i] = 7
           /\ d[77] = 0 /\ d[78] = 36 /\ d[115] = 1 /\ d[116] = 0
<1> DEFINE a == <<3, 3>>
           b == Filler(32)
           c == <<32>>
           w == TwoBytes(36)
           e == Filler(36)
           f == <<1, 0>>
           g1 == a \o b
           g2 == g1 \o c
           g3 == g2 \o b
           g4 == g3 \o w
           g5 == g4 \o e
           Str(s, m) == s \in Seq(Octet) /\ Len(s) = m
<1>1. Str(a, 2) /\ Str(b, 32) /\ Str(c, 1) /\ Str(w, 2) /\ Str(e, 36) /\ Str(f, 2)
  <2>1. Str(a, 2) /\ Str(c, 1) /\ Str(f, 2)
    BY DEF Octet
  <2>2. Str(b, 32) /\ Str(e, 36)
    BY FillerIs DEF Text
  <2>3. Str(w, 2)
    BY TwoBytesAre DEF Text
  <2> QED
    BY <2>1, <2>2, <2>3
<1>2. ASSUME NEW i \in Nat, NEW j \in Nat, NEW s, NEW t, Str(s, i), Str(t, j), NEW k, k = i + j
      PROVE  /\ Str(s \o t, k)
             /\ \A o \in Nat : InPlace(d, o, s \o t) => InPlace(d, o, s) /\ InPlace(d, o + i, t)
  <2>1. Str(s \o t, k)
    BY <1>2, ConcatProperties, Zenon
  <2>2. ASSUME NEW o \in Nat, InPlace(d, o, s \o t) PROVE InPlace(d, o, s) /\ InPlace(d, o + i, t)
    <3>1. s \in Seq(Octet) /\ t \in Seq(Octet) /\ Len(s) = i
      BY <1>2
    <3> QED
      BY <2>2, <3>1, BothInPlace, Zenon
  <2> QED
    BY <2>1, <2>2
<1>3. InPlace(d, 9, g5 \o f)
  BY Zenon DEF Fields
<1> HIDE DEF a, b, c, w, e, f, Str, g1, g2, g3, g4, g5
<1>4. Str(g1, 34)
  <2>1. Str(a \o b, 2 + 32)
    BY <1>1, <1>2
  <2> QED
    BY <2>1 DEF g1
<1>5. Str(g2, 35)
  <2>1. Str(g1 \o c, 34 + 1)
    BY <1>1, <1>2, <1>4
  <2> QED
    BY <2>1 DEF g2
<1>6. Str(g3, 67)
  <2>1. Str(g2 \o b, 35 + 32)
    BY <1>1, <1>2, <1>5
  <2> QED
    BY <2>1 DEF g3
<1>7. Str(g4, 69)
  <2>1. Str(g3 \o w, 67 + 2)
    BY <1>1, <1>2, <1>6
  <2> QED
    BY <2>1 DEF g4
<1>8. Str(g5, 105)
  <2>1. Str(g4 \o e, 69 + 36)
    BY <1>1, <1>2, <1>7
  <2> QED
    BY <2>1 DEF g5
<1>9. 9 \in Nat /\ 9 + 2 = 11 /\ 9 + 34 = 43 /\ 9 + 35 = 44 /\ 9 + 67 = 76 /\ 9 + 69 = 78 /\ 9 + 105 = 114
  OBVIOUS
<1>10. InPlace(d, 9, g5) /\ InPlace(d, 114, f)
  <2>1. \A o \in Nat : InPlace(d, o, g5 \o f) => InPlace(d, o, g5) /\ InPlace(d, o + 105, f)
    BY <1>1, <1>2, <1>8
  <2> QED
    BY <1>3, <2>1, <1>9
<1>11. InPlace(d, 9, g4) /\ InPlace(d, 78, e)
  <2>1. \A o \in Nat : InPlace(d, o, g4 \o e) => InPlace(d, o, g4) /\ InPlace(d, o + 69, e)
    BY <1>1, <1>2, <1>7
  <2> QED
    BY <1>10, <2>1, <1>9 DEF g5
<1>12. InPlace(d, 9, g3) /\ InPlace(d, 76, w)
  <2>1. \A o \in Nat : InPlace(d, o, g3 \o w) => InPlace(d, o, g3) /\ InPlace(d, o + 67, w)
    BY <1>1, <1>2, <1>6
  <2> QED
    BY <1>11, <2>1, <1>9 DEF g4
<1>13. InPlace(d, 9, g2) /\ InPlace(d, 44, b)
  <2>1. \A o \in Nat : InPlace(d, o, g2 \o b) => InPlace(d, o, g2) /\ InPlace(d, o + 35, b)
    BY <1>1, <1>2, <1>5
  <2> QED
    BY <1>12, <2>1, <1>9 DEF g3
<1>14. InPlace(d, 9, g1) /\ InPlace(d, 43, c)
  <2>1. \A o \in Nat : InPlace(d, o, g1 \o c) => InPlace(d, o, g1) /\ InPlace(d, o + 34, c)
    BY <1>1, <1>2, <1>4
  <2> QED
    BY <1>13, <2>1, <1>9 DEF g2
<1>15. InPlace(d, 9, a) /\ InPlace(d, 11, b)
  <2>1. \A o \in Nat : InPlace(d, o, a \o b) => InPlace(d, o, a) /\ InPlace(d, o + 2, b)
    BY <1>1, <1>2
  <2> QED
    BY <1>14, <2>1, <1>9 DEF g1
<1>16. d[10] = 3 /\ d[11] = 3
  <2>1. \A i \in 1 .. 2 : d[9 + i] = a[i]
    BY <1>1, <1>15 DEF InPlace, Str
  <2>2. a[1] = 3 /\ a[2] = 3 /\ 9 + 1 = 10 /\ 9 + 2 = 11
    BY DEF a
  <2> QED
    BY <2>1, <2>2
<1>17. d[44] = 32
  <2>1. \A i \in 1 .. 1 : d[43 + i] = c[i]
    BY <1>1, <1>14 DEF InPlace, Str
  <2>2. c[1] = 32 /\ 43 + 1 = 44
    BY DEF c
  <2> QED
    BY <2>1, <2>2
<1>18. d[115] = 1 /\ d[116] = 0
  <2>1. \A i \in 1 .. 2 : d[114 + i] = f[i]
    BY <1>1, <1>10 DEF InPlace, Str
  <2>2. f[1] = 1 /\ f[2] = 0 /\ 114 + 1 = 115 /\ 114 + 2 = 116
    BY DEF f
  <2> QED
    BY <2>1, <2>2
<1>19. d[77] = 0 /\ d[78] = 36
  <2>1. \A i \in 1 .. 2 : d[76 + i] = w[i]
    BY <1>1, <1>12 DEF InPlace, Str
  <2>2. w[1] = 0 /\ w[2] = 36 /\ 76 + 1 = 77 /\ 76 + 2 = 78
    BY DEF w, TwoBytes
  <2> QED
    BY <2>1, <2>2
<1>20. \A i \in 12 .. 43 : d[i] = 7
  <2>1. \A i \in 1 .. 32 : d[11 + i] = 7
    <3>1. \A i \in 1 .. 32 : d[11 + i] = b[i]
      BY <1>1, <1>15 DEF InPlace, Str
    <3>2. \A i \in 1 .. 32 : b[i] = 7
      BY DEF b, Filler
    <3> QED
      BY <3>1, <3>2
  <2>2. ASSUME NEW i \in 12 .. 43 PROVE d[i] = 7
    <3> DEFINE j == i - 11
    <3>1. j \in 1 .. 32 /\ 11 + j = i
      OBVIOUS
    <3> HIDE DEF j
    <3> QED
      BY <2>1, <3>1
  <2> QED
    BY <2>2
<1>21. \A i \in 45 .. 76 : d[i] = 7
  <2>1. \A i \in 1 .. 32 : d[44 + i] = 7
    <3>1. \A i \in 1 .. 32 : d[44 + i] = b[i]
      BY <1>1, <1>13 DEF InPlace, Str
    <3>2. \A i \in 1 .. 32 : b[i] = 7
      BY DEF b, Filler
    <3> QED
      BY <3>1, <3>2
  <2>2. ASSUME NEW i \in 45 .. 76 PROVE d[i] = 7
    <3> DEFINE j == i - 44
    <3>1. j \in 1 .. 32 /\ 44 + j = i
      OBVIOUS
    <3> HIDE DEF j
    <3> QED
      BY <2>1, <3>1
  <2> QED
    BY <2>2
<1>22. \A i \in 79 .. 114 : d[i] = 7
  <2>1. \A i \in 1 .. 36 : d[78 + i] = 7
    <3>1. \A i \in 1 .. 36 : d[78 + i] = e[i]
      BY <1>1, <1>11 DEF InPlace, Str
    <3>2. \A i \in 1 .. 36 : e[i] = 7
      BY DEF e, Filler
    <3> QED
      BY <3>1, <3>2
  <2>2. ASSUME NEW i \in 79 .. 114 PROVE d[i] = 7
    <3> DEFINE j == i - 78
    <3>1. j \in 1 .. 36 /\ 78 + j = i
      OBVIOUS
    <3> HIDE DEF j
    <3> QED
      BY <2>1, <3>1
  <2> QED
    BY <2>2
<1> QED
  BY <1>16, <1>17, <1>18, <1>19, <1>20, <1>21, <1>22

\* A server name extension is two zeros, its length, the list's, a zero, the name's, the name.
LEMMA NameInPlace ==
    ASSUME NEW d \in Seq(Octet), NEW o \in Nat, NEW n \in 0 .. 255, NEW name \in Text(n),
           InPlace(d, o, BuildSNIExtension(name))
    PROVE  /\ Word(d, o + 1) = 0 /\ Word(d, o + 3) = n + 5 /\ d[o + 1] = 0 /\ d[o + 2] = 0
           /\ d[o + 7] = 0 /\ Word(d, o + 8) = n /\ o + 9 + n <= Len(d)
<1> DEFINE h == <<0>> \o TwoBytes(Len(name))
           entry == h \o name
           list == TwoBytes(Len(entry))
           body == list \o entry
<1>1. Len(name) = n /\ n \in Nat /\ n <= Word16 /\ n + 5 <= Word16 /\ 0 <= Word16 /\ 0 \in Nat
  BY LengthOfText DEF Word16
<1>2. InPlace(d, o, Extension(0, body))
  BY DEF BuildSNIExtension
<1>3. <<0>> \in Text(1) /\ TwoBytes(Len(name)) \in Text(2) /\ name \in Text(n)
  <2>1. <<0>> \in Text(1)
    BY DEF Octet, Text
  <2>2. TwoBytes(Len(name)) \in Text(2)
    BY <1>1, TwoBytesAre
  <2> QED
    BY <2>1, <2>2 DEF Text
<1>4. h \in Text(3)
  BY <1>3, Joined, 3 = 1 + 2, 1 \in Nat, 2 \in Nat, Zenon
<1> HIDE DEF h
<1>5. entry \in Text(3 + n)
  BY <1>1, <1>3, <1>4, Joined, 3 \in Nat, 3 + n \in Nat, Zenon
<1> HIDE DEF entry
<1>6. list \in Text(2)
  <2>1. Len(entry) \in Nat
    BY <1>5, LengthOfText
  <2> QED
    BY <2>1, TwoBytesAre
<1> HIDE DEF list
<1>7. body \in Text(n + 5)
  <2>1. n + 5 \in Nat /\ 3 + n \in Nat /\ n + 5 = 2 + (3 + n)
    BY <1>1
  <2> QED
    BY <1>5, <1>6, <2>1, Joined, 2 \in Nat, Zenon
<1> HIDE DEF body
<1>8. Word(d, o + 1) = 0 /\ Word(d, o + 3) = n + 5 /\ InPlace(d, o + 4, body) /\ o + 4 + (n + 5) <= Len(d)
  <2>1. body \in Seq(Octet) /\ Len(body) = n + 5
    BY <1>7 DEF Text
  <2>2. /\ Word(d, o + 1) = 0 /\ Word(d, o + 3) = Len(body) /\ InPlace(d, o + 4, body)
        /\ o + 4 + Len(body) <= Len(d)
    <3> DEFINE type == 0
    <3>1. type \in Nat /\ type <= Word16 /\ Len(body) <= Word16
      BY <1>1, <2>1
    <3>2. InPlace(d, o, Extension(type, body))
      BY <1>2
    <3> HIDE DEF type
    <3>3. /\ Word(d, o + 1) = type /\ Word(d, o + 3) = Len(body) /\ InPlace(d, o + 4, body)
          /\ o + 4 + Len(body) <= Len(d)
      BY <2>1, <3>1, <3>2, ExtensionInPlace
    <3> QED
      BY <3>3, Zenon DEF type
  <2> QED
    BY <2>1, <2>2, Zenon
<1>9. d[o + 1] = 0 /\ d[o + 2] = 0
  <2>1. o + 1 \in 1 .. Len(d) /\ o + 2 \in 1 .. Len(d) /\ (o + 1) + 1 = o + 2
    BY <1>1, <1>8
  <2>2. d[o + 1] \in Octet /\ d[o + 2] \in Octet
    BY <2>1, ElementOfSeq, Zenon
  <2>3. 256 * d[o + 1] + d[o + 2] = 0
    BY <1>8, <2>1 DEF Word
  <2> DEFINE x == d[o + 1]
             y == d[o + 2]
  <2>4. x \in 0 .. 255 /\ y \in 0 .. 255 /\ 256 * x + y = 0
    BY <2>2, <2>3 DEF Octet
  <2> HIDE DEF x, y
  <2>5. x = 0 /\ y = 0
    BY <2>4
  <2> QED
    BY <2>5 DEF x, y
<1>10. InPlace(d, (o + 4) + 2, entry)
  <2> DEFINE q == o + 4
  <2>1. q \in Nat /\ InPlace(d, q, list \o entry) /\ list \in Seq(Octet) /\ entry \in Seq(Octet)
        /\ Len(list) = 2
    BY <1>5, <1>6, <1>8 DEF body, Text
  <2> HIDE DEF q
  <2>2. InPlace(d, q + 2, entry)
    BY <2>1, BothInPlace
  <2> QED
    BY <2>2 DEF q
<1> DEFINE q == o + 6
<1>11. q \in Nat /\ InPlace(d, q, entry) /\ q + 1 = o + 7 /\ (q + 1) + 1 = o + 8
  BY <1>10
<1> HIDE DEF q
<1>12. InPlace(d, q, h)
  <2>1. h \in Seq(Octet) /\ name \in Seq(Octet)
    BY <1>3, <1>4 DEF Text
  <2> QED
    BY <1>11, <2>1, BothInPlace, Zenon DEF entry
<1>13. InPlace(d, q, <<0>>) /\ InPlace(d, q + 1, TwoBytes(n))
  <2> DEFINE zero == <<0>>
             length == TwoBytes(Len(name))
  <2>1. zero \in Seq(Octet) /\ Len(zero) = 1 /\ length \in Seq(Octet)
    BY <1>3 DEF Text
  <2>2. InPlace(d, q, zero \o length)
    BY <1>12 DEF h
  <2> HIDE DEF zero, length
  <2>3. InPlace(d, q, zero) /\ InPlace(d, q + Len(zero), length)
    BY <1>11, <2>1, <2>2, BothInPlace, Zenon
  <2>4. InPlace(d, q, zero) /\ InPlace(d, q + 1, length)
    BY <2>1, <2>3, Zenon
  <2> QED
    BY <1>1, <2>4, Zenon DEF zero, length
<1>14. d[q + 1] = 0
  <2>1. Len(<<0>>) = 1 /\ <<0>>[1] = 0 /\ 1 \in 1 .. 1
    OBVIOUS
  <2> QED
    BY <1>13, <2>1, Zenon DEF InPlace
<1>15. Word(d, (q + 1) + 1) = n
  <2> DEFINE r == q + 1
  <2>1. r \in Nat /\ InPlace(d, r, TwoBytes(n))
    BY <1>11, <1>13
  <2> HIDE DEF r
  <2> QED
    BY <1>1, <2>1, WordInPlace, Zenon DEF r
<1>16. o + 9 + n <= Len(d)
  BY <1>1, <1>8
<1> QED
  BY <1>8, <1>9, <1>11, <1>14, <1>15, <1>16

LEMMA KeyShareIsSilent ==
    ASSUME NEW d \in Seq(Octet), NEW end \in 0 .. Len(d), NEW o \in Nat, NEW a \in Seq(Octet),
           InPlace(d, o, a \o BuildKeyShareExtension(Filler(32))),
           Silent(d, end, o + Len(a \o BuildKeyShareExtension(Filler(32))))
    PROVE  InPlace(d, o, a) /\ Silent(d, end, o + Len(a))
<1> DEFINE key == Filler(32)
           h == TwoBytes(29) \o TwoBytes(Len(key))
           entry == h \o key
           list == TwoBytes(Len(entry))
           body == list \o entry
           type == 51
           share == Extension(type, body)
<1>1. key \in Text(32)
  BY FillerIs
<1>2. BuildKeyShareExtension(Filler(32)) = share
  BY DEF BuildKeyShareExtension
<1> HIDE DEF key
<1>3. h \in Text(4)
  <2>1. TwoBytes(29) \in Text(2) /\ TwoBytes(Len(key)) \in Text(2)
    BY <1>1, LengthOfText, TwoBytesAre
  <2> QED
    BY <2>1, Joined, 4 = 2 + 2, 2 \in Nat, Zenon
<1> HIDE DEF h
<1>4. entry \in Text(36)
  BY <1>1, <1>3, Joined, 4 \in Nat, 32 \in Nat, 36 = 4 + 32, Zenon
<1> HIDE DEF entry
<1>5. list \in Text(2)
  BY <1>4, LengthOfText, TwoBytesAre
<1> HIDE DEF list
<1>6. body \in Text(38)
  BY <1>4, <1>5, Joined, 2 \in Nat, 36 \in Nat, 38 = 2 + 36, Zenon
<1> HIDE DEF body
<1>7. body \in Seq(Octet) /\ Len(body) <= Word16 /\ type \in Nat /\ type <= Word16 /\ type # 0
  <2>1. body \in Seq(Octet) /\ Len(body) = 38
    BY <1>6 DEF Text
  <2> QED
    BY <2>1 DEF Word16
<1> HIDE DEF type
<1>8. InPlace(d, o, a \o share) /\ Silent(d, end, o + Len(a \o share))
  BY <1>2
<1> QED
  BY <1>7, <1>8, PassedOver, Zenon

LEMMA PaddingIsSilent ==
    ASSUME NEW d \in Seq(Octet), NEW end \in 0 .. Len(d), NEW n \in Nat, n <= 250,
           InPlace(d, 294 + n, Padding(n)), Len(d) = HelloSize(n)
    PROVE  Silent(d, end, 294 + n)
<1> DEFINE o == 294 + n
<1>1. CASE n <= 219
  <2> DEFINE m == 517 - o - 4
             zeros == [i \in 1 .. m |-> 0]
             type == 21
  <2>1. m \in Nat /\ m <= 300 /\ ~(o + 4 > 517) /\ Len(d) = 517 /\ o + (4 + m) = 517
    BY <1>1 DEF HelloSize
  <2>2. Padding(n) = Extension(type, zeros)
    BY <2>1 DEF Padding, BuildPaddingExtension
  <2> HIDE DEF m
  <2>3. zeros \in Seq(Octet) /\ Len(zeros) = m /\ m <= Word16 /\ zeros \in Text(m)
    <3>1. m <= Word16
      BY <2>1 DEF Word16
    <3>2. zeros \in Seq(Octet) /\ Len(zeros) = m
      BY <2>1 DEF Octet
    <3> QED
      BY <3>1, <3>2 DEF Text
  <2>4. type \in Nat /\ type <= Word16 /\ type # 0 /\ o \in Nat
    BY DEF Word16
  <2> HIDE DEF zeros, type, o
  <2>5. Len(Extension(type, zeros)) = 4 + m
    <3>1. 4 + m \in Nat
      BY <2>1
    <3>2. Extension(type, zeros) \in Text(4 + m)
      BY <2>1, <2>3, <2>4, <3>1, ExtensionIs, Zenon
    <3> QED
      BY <3>2, LengthOfText, Zenon
  <2>6. Silent(d, end, o + Len(Extension(type, zeros)))
    <3> DEFINE q == o + (4 + m)
    <3>1. q \in Nat /\ end <= q
      BY <2>1
    <3> HIDE DEF q
    <3>2. Silent(d, end, q)
      BY <3>1, SilentAtEnd, Zenon
    <3> QED
      BY <2>5, <3>2, Zenon DEF q
  <2>7. InPlace(d, o, Extension(type, zeros)) /\ Len(zeros) <= Word16
    BY <2>2, <2>3 DEF o
  <2>8. Silent(d, end, o)
    BY <2>3, <2>4, <2>6, <2>7, SilentExtension, Zenon
  <2> QED
    BY <2>8 DEF o
<1>2. CASE n > 219
  <2>1. o \in Nat /\ end <= o
    BY <1>2 DEF HelloSize
  <2> HIDE DEF o
  <2>2. Silent(d, end, o)
    BY <2>1, SilentAtEnd, Zenon
  <2> QED
    BY <2>2 DEF o
<1> QED
  BY <1>1, <1>2

\* After the name's extension the walk finds no other one.
LEMMA RestIsSilent ==
    ASSUME NEW n \in Nat, n <= 250, NEW name \in Text(n),
           NEW d \in Seq(Octet), NEW end \in 0 .. Len(d), Len(d) = HelloSize(n),
           InPlace(d, 118, Extensions(name)), InPlace(d, 294 + n, Padding(n))
    PROVE  InPlace(d, 118, BuildSNIExtension(name)) /\ Silent(d, end, 127 + n)
<1> DEFINE o == 118
           sni == BuildSNIExtension(name)
           share == BuildKeyShareExtension(Filler(32))
           named == sni \o FixedExtensions
           all == named \o share
<1>1. o \in Nat /\ Extensions(name) = all /\ InPlace(d, o, all)
  BY DEF Extensions, Named
<1>2. sni \in Text(9 + n) /\ named \in Text(134 + n) /\ all \in Text(176 + n)
  <2>1. named = Named(name) /\ all = Extensions(name)
    BY DEF Extensions, Named
  <2> HIDE DEF sni, named, all
  <2> QED
    BY <2>1, ExtensionsAre DEF sni
<1>8. Len(sni) = 9 + n /\ Len(named) = 134 + n /\ Len(all) = 176 + n /\ Len(FixedExtensions) = 125
  <2> HIDE DEF sni, named, all
  <2> QED
    BY <1>2, FixedExtensionsAre DEF Text
<1>9. /\ sni \in Seq(Octet) /\ named \in Seq(Octet) /\ FixedExtensions \in Seq(Octet)
  BY <1>2, FixedExtensionsAre DEF Text
<1>3. Silent(d, end, o + Len(all))
  <2>1. o + Len(all) = 294 + n
    BY <1>8
  <2> QED
    BY <2>1, PaddingIsSilent
<1> DEFINE on == o + Len(named)
           os == o + Len(sni)
<1>4. on \in Nat /\ os \in Nat /\ on = os + Len(FixedExtensions) /\ os = 127 + n
  BY <1>8
<1>5. InPlace(d, o, named) /\ Silent(d, end, on)
  <2>1. InPlace(d, o, named \o share) /\ Silent(d, end, o + Len(named \o share))
    BY <1>1, <1>3
  <2> HIDE DEF o, named
  <2> QED
    BY <1>1, <1>9, <2>1, KeyShareIsSilent, Zenon
<1>6. InPlace(d, o, sni) /\ InPlace(d, os, FixedExtensions)
  <2> HIDE DEF o, sni
  <2> QED
    BY <1>1, <1>9, <1>5, BothInPlace, Zenon
<1>7. Silent(d, end, os)
  <2>1. Silent(d, end, os + Len(FixedExtensions))
    BY <1>4, <1>5
  <2> HIDE DEF os
  <2> QED
    BY <1>4, <1>6, <2>1, FixedAreSilent, Zenon
<1> QED
  BY <1>4, <1>6, <1>7

\* All the bytes of a hello of k bytes that the parser and the scan read before the name,
\* and that the parser finds no name after it.
HelloHas(d, n, k) ==
    /\ d \in Seq(Octet) /\ Len(d) = k /\ k \in 514 .. 544 /\ k >= 294 + n
    /\ d[1] = 22 /\ d[6] = 1 /\ d[44] = 32 /\ Word(d, 77) = 36 /\ d[115] = 1
    /\ Word(d, 117) = k - 118
    /\ \A p \in 1 .. 118 : ~(d[p] = 0 /\ d[p + 1] = 0)
    /\ d[119] = 0 /\ d[120] = 0 /\ Word(d, 119) = 0 /\ Word(d, 121) = n + 5
    /\ d[125] = 0 /\ Word(d, 126) = n
    /\ \A end \in 0 .. k : Silent(d, end, 127 + n)

LEMMA HelloBytes ==
    ASSUME NEW n \in 1 .. 250, NEW name \in Text(n)
    PROVE  HelloHas(BuildClientHello(name), n, HelloSize(n))
<1> DEFINE d == BuildClientHello(name)
           k == HelloSize(n)
<1>1. k \in 514 .. 544 /\ k >= 294 + n
  BY DEF HelloSize
<1>15. k = HelloSize(n) /\ d = BuildClientHello(name)
  OBVIOUS
<1> HIDE DEF d, k
<1>2. /\ d \in Text(k)
      /\ InPlace(d, 0, <<22, 3, 1>>) /\ InPlace(d, 3, TwoBytes(k - 5))
      /\ InPlace(d, 5, <<1, HighByte(k)>>) /\ InPlace(d, 7, TwoBytes(k - 9))
      /\ InPlace(d, 9, Fields) /\ InPlace(d, 116, TwoBytes(k - 118))
      /\ InPlace(d, 118, Extensions(name)) /\ InPlace(d, 294 + n, Padding(n))
  <2>1. n \in Nat
    OBVIOUS
  <2> QED
    BY <1>15, <2>1, HelloInPlace
<1>3. d \in Seq(Octet) /\ Len(d) = k
  BY <1>2 DEF Text
<1>4. d[1] = 22 /\ d[2] = 3 /\ d[3] = 1
  <2> DEFINE s == <<22, 3, 1>>
  <2>1. Len(s) = 3 /\ s[1] = 22 /\ s[2] = 3 /\ s[3] = 1
    OBVIOUS
  <2> HIDE DEF s
  <2>2. InPlace(d, 0, s)
    BY <1>2 DEF s
  <2>3. \A i \in 1 .. 3 : d[0 + i] = s[i]
    BY <2>1, <2>2, Zenon DEF InPlace
  <2> QED
    BY <2>1, <2>3
<1>5. d[6] = 1
  <2> DEFINE s == <<1, HighByte(k)>>
  <2>1. Len(s) = 2 /\ s[1] = 1
    OBVIOUS
  <2> HIDE DEF s
  <2>2. InPlace(d, 5, s)
    BY <1>2 DEF s
  <2>3. \A i \in 1 .. 2 : d[5 + i] = s[i]
    BY <2>1, <2>2, Zenon DEF InPlace
  <2>4. d[5 + 1] = s[1]
    BY <2>3
  <2> QED
    BY <2>1, <2>4
<1>6. ASSUME NEW o \in Nat, NEW m \in 256 .. 600, InPlace(d, o, TwoBytes(m))
      PROVE  Word(d, o + 1) = m /\ d[o + 1] \in 1 .. 2 /\ d[o + 2] = m % 256
  <2>1. m \in Nat /\ m <= Word16 /\ m \div 256 \in 1 .. 2
    BY DEF Word16
  <2>2. Word(d, o + 1) = m /\ d[o + 1] = m \div 256 /\ d[o + 2] = m % 256
    BY <1>3, <1>6, <2>1, WordInPlace
  <2> QED
    BY <2>1, <2>2
<1>7. d[4] # 0
  <2>1. Word(d, 3 + 1) = k - 5 /\ d[3 + 1] \in 1 .. 2
    <3> DEFINE o == 3
               m == k - 5
    <3>1. o \in Nat /\ m \in 256 .. 600
      BY <1>1
    <3>2. InPlace(d, o, TwoBytes(m))
      BY <1>2
    <3> HIDE DEF o, m
    <3>3. Word(d, o + 1) = m /\ d[o + 1] \in 1 .. 2 /\ d[o + 2] = m % 256
      BY <1>6, <3>1, <3>2, Zenon
    <3> QED
      BY <3>3 DEF o, m
  <2> QED
    BY <2>1
<1>8. d[8] # 0
  <2>1. d[7 + 1] \in 1 .. 2
    <3> DEFINE o == 7
               m == k - 9
    <3>1. o \in Nat /\ m \in 256 .. 600
      BY <1>1
    <3>2. InPlace(d, o, TwoBytes(m))
      BY <1>2
    <3> HIDE DEF o, m
    <3>3. Word(d, o + 1) = m /\ d[o + 1] \in 1 .. 2 /\ d[o + 2] = m % 256
      BY <1>6, <3>1, <3>2, Zenon
    <3> QED
      BY <3>3 DEF o, m
  <2> QED
    BY <2>1
<1>9. Word(d, 117) = k - 118 /\ d[117] # 0 /\ d[118] # 0
  <2>1. Word(d, 116 + 1) = k - 118 /\ d[116 + 1] \in 1 .. 2 /\ d[116 + 2] = (k - 118) % 256
    <3> DEFINE o == 116
               m == k - 118
    <3>1. o \in Nat /\ m \in 256 .. 600
      BY <1>1
    <3>2. InPlace(d, o, TwoBytes(m))
      BY <1>2
    <3> HIDE DEF o, m
    <3>3. Word(d, o + 1) = m /\ d[o + 1] \in 1 .. 2 /\ d[o + 2] = m % 256
      BY <1>6, <3>1, <3>2, Zenon
    <3> QED
      BY <3>3 DEF o, m
  <2>2. (k - 118) % 256 # 0
    BY <1>1
  <2> QED
    BY <2>1, <2>2
<1>10. /\ d[10] = 3 /\ d[11] = 3 /\ d[44] = 32
       /\ \A i \in (12 .. 43) \union (45 .. 76) \union (79 .. 114) : d[i] = 7
       /\ d[77] = 0 /\ d[78] = 36 /\ d[115] = 1 /\ d[116] = 0
  BY <1>2, <1>3, FieldBytes
<1>11. Word(d, 77) = 36
  BY <1>10 DEF Word
<1>12. ASSUME NEW p \in 1 .. 118, d[p] = 0, d[p + 1] = 0 PROVE FALSE
  <2>1. p \notin (12 .. 43) \union (45 .. 76) \union (79 .. 114)
    BY <1>10, <1>12
  <2>2. p \in {1, 2, 3, 4, 5, 6, 7, 8, 9, 10, 11, 44, 77, 78, 115, 116, 117, 118}
    BY <2>1
  <2>3. p \notin {1, 2, 3, 4, 6, 8, 10, 11, 44, 78, 115, 117, 118}
    BY <1>12, <1>4, <1>5, <1>7, <1>8, <1>9, <1>10
  <2>4. p \notin {5, 7, 9, 77, 116}
    BY <1>12, <1>5, <1>8, <1>9, <1>10
  <2>5. p \in {5, 7, 9, 77, 116}
    BY <2>2, <2>3
  <2> QED
    BY <2>4, <2>5
<1>13. InPlace(d, 118, BuildSNIExtension(name)) /\ \A end \in 0 .. k : Silent(d, end, 127 + n)
  <2>1. n \in Nat /\ n <= 250 /\ name \in Text(n) /\ Len(d) = HelloSize(n)
    BY <1>3, <1>15
  <2>2. ASSUME NEW end \in 0 .. Len(d)
        PROVE  InPlace(d, 118, BuildSNIExtension(name)) /\ Silent(d, end, 127 + n)
    BY <1>2, <1>3, <2>1, RestIsSilent
  <2>3. 0 \in 0 .. Len(d)
    BY <1>3
  <2> QED
    BY <1>3, <2>2, <2>3
<1>14. /\ Word(d, 118 + 1) = 0 /\ Word(d, 118 + 3) = n + 5 /\ d[118 + 1] = 0 /\ d[118 + 2] = 0
       /\ d[118 + 7] = 0 /\ Word(d, 118 + 8) = n
  <2> DEFINE o == 118
  <2>1. n \in 0 .. 255 /\ o \in Nat
    OBVIOUS
  <2> HIDE DEF o
  <2>2. InPlace(d, o, BuildSNIExtension(name))
    BY <1>13 DEF o
  <2>3. /\ Word(d, o + 1) = 0 /\ Word(d, o + 3) = n + 5 /\ d[o + 1] = 0 /\ d[o + 2] = 0
        /\ d[o + 7] = 0 /\ Word(d, o + 8) = n
    BY <1>3, <2>1, <2>2, NameInPlace
  <2> QED
    BY <2>3 DEF o
<1> QED
  BY <1>1, <1>3, <1>4, <1>5, <1>9, <1>10, <1>11, <1>12, <1>13, <1>14 DEF HelloHas, d, k

\* The walk of a hello that is cut off is that of the whole one, stopped there.
LEMMA WalkOfPrefix ==
    ASSUME NEW d \in Seq(Octet), NEW m \in 0 .. Len(d), NEW e, e = SubSeq(d, 1, m)
    PROVE  Walk(e, m) = Walk(d, m)
<1>1. e \in Seq(Octet) /\ Len(e) = m /\ \A i \in 1 .. m : e[i] = d[i]
  BY SubSeqProperties
<1>2. \A p \in 1 .. m - 1 : Word(e, p) = Word(d, p)
  <2>1. \A p \in 1 .. m - 1 : p \in 1 .. m /\ p + 1 \in 1 .. m
    OBVIOUS
  <2> QED
    BY <1>1, <2>1, Zenon DEF Word
<1>3. ASSUME NEW f, NEW p \in 1 .. m + 1 PROVE Step(e, m, f, p) = Step(d, m, f, p)
  <2>1. m \in 0 .. Len(e)
    BY <1>1
  <2>2. ExtensionFits(e, m, p) <=> ExtensionFits(d, m, p)
    <3>1. p + 3 <= m => p + 2 \in 1 .. m - 1
      OBVIOUS
    <3> QED
      BY <1>2, <3>1, Zenon DEF ExtensionFits
  <2>3. CASE ~ExtensionFits(d, m, p)
    BY <1>1, <2>1, <2>2, <2>3, StepIs, Zenon
  <2>4. CASE ExtensionFits(d, m, p)
    <3> DEFINE w == Word(d, p + 2)
    <3>1. p + 3 <= m /\ p + 3 + w <= m /\ w \in Nat
      <4>1. p + 2 \in 1 .. Len(d) - 1
        BY <2>4 DEF ExtensionFits
      <4> QED
        BY <2>4, <4>1, WordFits DEF ExtensionFits
    <3> HIDE DEF w
    <3>2. Word(e, p) = Word(d, p) /\ Word(e, p + 2) = w
      BY <1>2, <3>1 DEF w
    <3>3. w >= 5 => Word(e, p + 7) = Word(d, p + 7)
      <4>1. w >= 5 => p + 7 \in 1 .. m - 1
        BY <3>1
      <4> QED
        BY <1>2, <4>1
    <3>4. After(e, p) = After(d, p) /\ (HoldsName(e, p) <=> HoldsName(d, p))
          /\ (HoldsName(d, p) => NameAt(e, p) = NameAt(d, p))
      BY <3>2, <3>3 DEF After, HoldsName, NameAt, w
    <3>5. Step(e, m, f, p) = IF f[After(e, p)] # NoName THEN f[After(e, p)]
                             ELSE IF HoldsName(e, p) THEN NameAt(e, p) ELSE NoName
      BY <1>1, <2>1, <2>2, <2>4, StepIs, Zenon
    <3>6. Step(d, m, f, p) = IF f[After(d, p)] # NoName THEN f[After(d, p)]
                             ELSE IF HoldsName(d, p) THEN NameAt(d, p) ELSE NoName
      BY <2>4, StepIs, Zenon
    <3> QED
      BY <3>4, <3>5, <3>6
  <2> QED
    BY <2>3, <2>4
<1>4. \A f : [p \in 1 .. m + 1 |-> Step(e, m, f, p)] = [p \in 1 .. m + 1 |-> Step(d, m, f, p)]
  BY <1>3
<1> QED
  BY <1>4, Zenon DEF Walk

\* Where the name of the builder's hello is.
DecoyName(n) == [at |-> 128, len |-> n]

LEMMA StartIs ==
    ASSUME NEW d \in Seq(Octet), NEW m \in 0 .. Len(d)
    PROVE  /\ SubSeq(d, 1, m) \in Seq(Octet) /\ Len(SubSeq(d, 1, m)) = m
           /\ \A i \in 1 .. m : SubSeq(d, 1, m)[i] = d[i]
BY SubSeqProperties

\* The parser finds it in as much of the hello as holds it, and nothing in less.
LEMMA PrefixParses ==
    ASSUME NEW n, NEW k, NEW d, HelloHas(d, n, k), n \in 1 .. 250, NEW m \in 0 .. k
    PROVE  ParseClientHello(SubSeq(d, 1, m)) = IF m >= 127 + n THEN DecoyName(n) ELSE NoName
<1> DEFINE e == SubSeq(d, 1, m)
<1>1. /\ d \in Seq(Octet) /\ Len(d) = k /\ k \in 514 .. 544 /\ k >= 294 + n
      /\ d[1] = 22 /\ d[6] = 1 /\ d[44] = 32 /\ Word(d, 77) = 36 /\ d[115] = 1
      /\ Word(d, 117) = k - 118
      /\ Word(d, 119) = 0 /\ Word(d, 121) = n + 5 /\ Word(d, 126) = n
      /\ \A end \in 0 .. k : Silent(d, end, 127 + n)
  BY DEF HelloHas
<1>6. d \in Seq(Octet) /\ m \in 0 .. Len(d)
  BY <1>1
<1>7. Walk(e, m) = Walk(d, m)
  BY <1>6, WalkOfPrefix, Zenon
<1>2. e \in Seq(Octet) /\ Len(e) = m /\ \A i \in 1 .. m : e[i] = d[i]
  BY <1>6, StartIs, Zenon
<1> HIDE DEF e
<1> SUFFICES ParseClientHello(e) = IF m >= 127 + n THEN DecoyName(n) ELSE NoName
  BY DEF e
<1>3. CASE m < 44
  <2>1. Len(e) < 44 /\ ~(m >= 127 + n)
    BY <1>2, <1>3
  <2> QED
    BY <2>1, Zenon DEF ParseClientHello
<1>4. CASE m >= 44
  <2>1. e[1] = 22 /\ e[6] = 1 /\ e[44] = 32
    BY <1>1, <1>2, <1>4
  <2>2. m >= 78 => Word(e, 77) = 36
    <3>1. m >= 78 => e[77] = d[77] /\ e[77 + 1] = d[77 + 1]
      BY <1>2
    <3> QED
      BY <1>1, <3>1 DEF Word
  <2>3. m >= 115 => e[115] = 1
    BY <1>1, <1>2
  <2>4. m >= 118 => Word(e, 117) = k - 118
    <3>1. m >= 118 => e[117] = d[117] /\ e[117 + 1] = d[117 + 1]
      BY <1>2
    <3> QED
      BY <1>1, <3>1 DEF Word
  <2>5. CASE m < 78
    <3>1. ParseClientHello(e) = NoName
      BY <1>2, <2>1, <2>5, <1>4 DEF ParseClientHello
    <3> QED
      BY <2>5, <3>1
  <2>6. CASE m \in 78 .. 114
    <3>1. ParseClientHello(e) = NoName
      BY <1>2, <2>1, <2>2, <2>6, <1>4 DEF ParseClientHello
    <3> QED
      BY <2>6, <3>1
  <2>7. CASE m \in 115 .. 117
    <3>1. ParseClientHello(e) = NoName
      BY <1>2, <2>1, <2>2, <2>3, <2>7, <1>4 DEF ParseClientHello
    <3> QED
      BY <2>7, <3>1
  <2>8. CASE m >= 118
    <3>1. ParseClientHello(e) = ServerName(e, 119, m)
      <4> DEFINE suites == 45 + e[44]
                 compression == suites + 2 + Word(e, suites)
                 extensions == compression + 1 + e[compression]
                 end == extensions + 1 + Word(e, extensions)
      <4>1. suites = 77
        BY <2>1
      <4>2. compression = 115
        BY <2>2, <2>8, <4>1
      <4>3. extensions = 117
        BY <2>3, <2>8, <4>2
      <4>4. end = k
        BY <1>1, <2>4, <2>8, <4>3
      <4>5. ~(Len(e) < 44 \/ e[1] # 22 \/ e[6] # 1)
        BY <1>2, <2>1, <2>8
      <4> HIDE DEF suites
      <4>6. ~(suites + 1 > Len(e))
        BY <1>2, <2>8, <4>1
      <4> HIDE DEF compression
      <4>7. ~(compression > Len(e))
        BY <1>2, <2>8, <4>2
      <4> HIDE DEF extensions
      <4>8. ~(extensions + 1 > Len(e))
        BY <1>2, <2>8, <4>3
      <4> HIDE DEF end
      <4>9. (IF end > Len(e) THEN Len(e) ELSE end) = m
        BY <1>1, <1>2, <4>4
      <4>10. ParseClientHello(e) = ServerName(e, extensions + 2, IF end > Len(e) THEN Len(e) ELSE end)
        BY <4>5, <4>6, <4>7, <4>8, Zenon DEF ParseClientHello, suites, compression, extensions, end
      <4>11. extensions + 2 = 119
        BY <4>3
      <4> DEFINE from == extensions + 2
                 to == IF end > Len(e) THEN Len(e) ELSE end
      <4>12. from = 119 /\ to = m
        BY <4>9, <4>11
      <4> HIDE DEF from, to
      <4>13. ParseClientHello(e) = ServerName(e, from, to)
        BY <4>10, Zenon DEF from, to
      <4> QED
        BY <4>12, <4>13
    <3> DEFINE p == 119
               f == Walk(d, m)
    <3>2. ParseClientHello(e) = f[p]
      <4>1. Walk(e, m) = f
        BY <1>7
      <4> HIDE DEF f, p
      <4>2. ParseClientHello(e) = ServerName(e, p, m)
        BY <3>1 DEF p
      <4> QED
        BY <4>1, <4>2, ServerNameIs, Zenon
    <3>3. p \in 1 .. m + 1
      BY <2>8
    <3>4. f[p] = Step(d, m, f, p)
      <4> HIDE DEF p
      <4> QED
        BY <1>1, <3>3, WalkIs
    <3>9. Word(d, p) = 0 /\ Word(d, p + 2) = n + 5 /\ Word(d, p + 7) = n /\ p \in 119 .. 119
      <4>1. p + 2 = 121 /\ p + 7 = 126
        OBVIOUS
      <4> QED
        BY <1>1, <4>1
    <3> HIDE DEF p, f
    <3>5. ExtensionFits(d, m, p) <=> m >= 127 + n
      BY <3>9 DEF ExtensionFits
    <3>6. After(d, p) = (127 + n) + 1 /\ HoldsName(d, p) /\ NameAt(d, p) = DecoyName(n)
      BY <3>9 DEF After, HoldsName, NameAt, DecoyName
    <3>7. CASE m >= 127 + n
      <4>1. f[(127 + n) + 1] = NoName
        <5>1. Silent(d, m, 127 + n)
          BY <1>1
        <5> QED
          BY <3>7, <5>1 DEF Silent, f
      <4>2. f[After(d, p)] = NoName
        BY <3>6, <4>1
      <4>3. Step(d, m, f, p) = IF f[After(d, p)] # NoName THEN f[After(d, p)]
                               ELSE IF HoldsName(d, p) THEN NameAt(d, p) ELSE NoName
        <5>1. ExtensionFits(d, m, p)
          BY <3>5, <3>7
        <5> QED
          BY <1>6, <3>3, <5>1, StepIs, Zenon
      <4>4. Step(d, m, f, p) = DecoyName(n)
        BY <3>6, <4>2, <4>3
      <4> QED
        BY <3>2, <3>4, <3>7, <4>4
    <3>8. CASE ~(m >= 127 + n)
      <4>1. ~ExtensionFits(d, m, p)
        BY <3>5, <3>8
      <4>3. Step(d, m, f, p) = NoName
        BY <1>6, <3>3, <4>1, StepIs, Zenon
      <4> QED
        BY <3>2, <3>4, <3>8, <4>3
    <3> QED
      BY <3>7, <3>8
  <2> QED
    BY <2>5, <2>6, <2>7, <2>8, <1>4
<1> QED
  BY <1>3, <1>4

\* The scan takes the first place that looks like a server name.
LEMMA ScanFinds ==
    ASSUME NEW d \in Seq(Octet), NEW p \in 1 .. Len(d), p + 10 <= Len(d), SniExtensionAt(d, p),
           \A q \in 1 .. p - 1 : ~SniExtensionAt(d, q)
    PROVE  FindSNIOffset(d) = NameAt(d, p)
<1> DEFINE starts == {q \in 1 .. Len(d) : q + 10 <= Len(d) /\ SniExtensionAt(d, q)}
<1>1. p \in starts /\ \A q \in starts : p <= q
  <2>1. ASSUME NEW q \in starts, q < p PROVE FALSE
    <3>1. q \in 1 .. p - 1
      BY <2>1
    <3> QED
      BY <3>1
  <2> QED
    BY <2>1
<1>2. \A q \in starts : (\A r \in starts : q <= r) => q = p
  BY <1>1
<1>3. FindSNIOffset(d) = IF starts = {} THEN NoName
                         ELSE LET q == CHOOSE q \in starts : \A r \in starts : q <= r
                              IN [at |-> q + 9, len |-> Word(d, q + 7)]
  BY DEF FindSNIOffset
<1> HIDE DEF starts
<1>4. (CHOOSE q \in starts : \A r \in starts : q <= r) = p /\ starts # {}
  BY <1>1, <1>2
<1> QED
  BY <1>3, <1>4, Zenon DEF NameAt

\* What the scan takes for a server name starts with two zeros.
LEMMA TypeComesFirst ==
    ASSUME NEW d, NEW p, SniExtensionAt(d, p)
    PROVE  d[p] = 0 /\ d[p + 1] = 0
BY DEF SniExtensionAt

\* The scan meets nothing else before the name.
LEMMA PrefixScans ==
    ASSUME NEW n, NEW k, NEW d, HelloHas(d, n, k), n \in 1 .. 250, NEW m \in 0 .. k,
           m >= 127 + n, m >= 129
    PROVE  FindSNIOffset(SubSeq(d, 1, m)) = DecoyName(n)
<1> DEFINE p == 119
           e == SubSeq(d, 1, m)
<1>1. /\ d \in Seq(Octet) /\ Len(d) = k /\ k \in Nat
      /\ \A q \in 1 .. 118 : ~(d[q] = 0 /\ d[q + 1] = 0)
      /\ d[119] = 0 /\ d[120] = 0 /\ Word(d, 121) = n + 5
      /\ d[125] = 0 /\ Word(d, 126) = n
  BY DEF HelloHas
<1>2. e \in Seq(Octet) /\ Len(e) = m /\ \A i \in 1 .. m : e[i] = d[i]
  <2>1. m \in 0 .. Len(d)
    BY <1>1
  <2> QED
    BY <1>1, <2>1, StartIs, Zenon
<1> HIDE DEF e
<1>3. /\ e[119] = 0 /\ e[120] = 0 /\ e[125] = 0 /\ Word(e, 121) = n + 5 /\ Word(e, 126) = n
  <2>1. /\ e[119] = d[119] /\ e[120] = d[120] /\ e[125] = d[125]
        /\ e[121] = d[121] /\ e[121 + 1] = d[121 + 1] /\ e[126] = d[126] /\ e[126 + 1] = d[126 + 1]
    BY <1>2
  <2> QED
    BY <1>1, <2>1 DEF Word
<1>4. p + 1 = 120 /\ p + 2 = 121 /\ p + 6 = 125 /\ p + 7 = 126 /\ p \in 1 .. Len(e) /\ p + 10 <= Len(e)
      /\ p + 8 + n <= Len(e) /\ p = 119
  BY <1>2
<1>8. e[p] = 0 /\ e[p + 1] = 0 /\ Word(e, p + 2) = n + 5 /\ e[p + 6] = 0 /\ Word(e, p + 7) = n
  BY <1>3, <1>4
<1> HIDE DEF p
<1>5. SniExtensionAt(e, p)
  <2> DEFINE v == Word(e, p + 2)
             w == Word(e, p + 7)
  <2>1. v = n + 5 /\ w = n
    BY <1>8, Zenon
  <2> HIDE DEF v, w
  <2>2. v \in 5 .. 255 /\ w \in 1 .. 255 /\ p + 8 + w <= Len(e)
    BY <1>4, <2>1
  <2> QED
    BY <1>8, <2>2, Zenon DEF SniExtensionAt, v, w
<1>6. ASSUME NEW q \in 1 .. p - 1 PROVE ~SniExtensionAt(e, q)
  <2>1. q \in 1 .. 118 /\ q \in 1 .. m /\ q + 1 \in 1 .. m
    BY <1>4
  <2>2. e[q] = d[q] /\ e[q + 1] = d[q + 1]
    BY <1>2, <2>1, Zenon
  <2>3. ~(d[q] = 0 /\ d[q + 1] = 0)
    BY <1>1, <2>1
  <2> QED
    BY <2>2, <2>3, TypeComesFirst, Zenon
<1>7. FindSNIOffset(e) = NameAt(e, p)
  <2>1. e \in Seq(Octet) /\ p \in 1 .. Len(e) /\ p + 10 <= Len(e)
    BY <1>2, <1>4
  <2> QED
    BY <2>1, <1>5, <1>6, ScanFinds, Zenon
<1> QED
  BY <1>8, <1>4, <1>7 DEF NameAt, DecoyName, e

\* A name the walk finds is that of some extension that fits.
LEMMA WalkFindsName ==
    ASSUME NEW d \in Seq(Octet), NEW end \in 0 .. Len(d), NEW from \in 1 .. end + 1,
           Walk(d, end)[from] # NoName
    PROVE  \E q \in 1 .. end :
             ExtensionFits(d, end, q) /\ HoldsName(d, q) /\ Walk(d, end)[from] = NameAt(d, q)
<1> DEFINE n == end + 1
           f == Walk(d, end)
           Found(x) == \E q \in 1 .. end : ExtensionFits(d, end, q) /\ HoldsName(d, q) /\ x = NameAt(d, q)
           Bad == {k \in 0 .. end : f[n - k] # NoName /\ ~Found(f[n - k])}
<1>1. \A p \in 1 .. end + 1 : f[p] = Step(d, end, f, p)
  BY WalkIs
<1> HIDE DEF f, Found
<1>2. Bad = {}
  <2> SUFFICES ASSUME Bad # {} PROVE FALSE
    OBVIOUS
  <2>1. PICK k \in Bad : \A j \in Bad : k <= j
    BY LeastNumber, Bad \subseteq Nat
  <2>2. k \in 0 .. end /\ f[n - k] # NoName /\ ~Found(f[n - k])
    OBVIOUS
  <2> DEFINE p == n - k
  <2>3. p \in 1 .. end + 1
    BY <2>2
  <2>4. f[p] # NoName /\ ~Found(f[p])
    BY <2>2
  <2>5. \A x \in p + 1 .. end + 1 : f[x] = NoName \/ Found(f[x])
    <3> SUFFICES ASSUME NEW x \in p + 1 .. end + 1 PROVE f[x] = NoName \/ Found(f[x])
      OBVIOUS
    <3> DEFINE j == n - x
    <3>1. j \in 0 .. end /\ ~(k <= j) /\ n - j = x
      BY <2>2
    <3> HIDE DEF j
    <3>2. j \notin Bad
      <4> HIDE DEF Bad
      <4> QED
        BY <2>1, <3>1, Zenon
    <3> QED
      BY <3>1, <3>2
  <2> HIDE DEF p
  <2>6. f[p] = Step(d, end, f, p)
    BY <1>1, <2>3
  <2>7. ExtensionFits(d, end, p)
    BY <2>3, <2>4, <2>6, StepIs, Zenon
  <2>8. Step(d, end, f, p) = IF f[After(d, p)] # NoName THEN f[After(d, p)]
                             ELSE IF HoldsName(d, p) THEN NameAt(d, p) ELSE NoName
    BY <2>3, <2>7, StepIs, Zenon
  <2>9. After(d, p) \in p + 1 .. end + 1
    BY <2>3, <2>7, StepIs, Zenon
  <2>10. f[After(d, p)] = NoName
    <3>1. f[After(d, p)] = NoName \/ Found(f[After(d, p)])
      BY <2>5, <2>9, Zenon
    <3>2. f[After(d, p)] # NoName => f[p] = f[After(d, p)]
      BY <2>6, <2>8
    <3> QED
      BY <2>4, <3>1, <3>2, Zenon
  <2>11. HoldsName(d, p) /\ f[p] = NameAt(d, p)
    BY <2>4, <2>6, <2>8, <2>10
  <2>12. p \in 1 .. end
    BY <2>3, <2>7 DEF ExtensionFits
  <2> QED
    BY <2>4, <2>7, <2>11, <2>12, Zenon DEF Found
<1> DEFINE k == n - from
<1>3. k \in 0 .. end /\ n - k = from
  OBVIOUS
<1> HIDE DEF k
<1>4. f[from] = NoName \/ Found(f[from])
  BY <1>2, <1>3
<1> QED
  BY <1>4, Zenon DEF f, Found

\* So is the name the parser finds, in what was read.
LEMMA ParserFindsName ==
    ASSUME NEW d \in Seq(Octet), ParseClientHello(d) # NoName
    PROVE  \E end \in 0 .. Len(d), q \in 1 .. Len(d) :
             /\ q <= end /\ ExtensionFits(d, end, q) /\ HoldsName(d, q)
             /\ ParseClientHello(d) = NameAt(d, q)
<1> DEFINE n == Len(d)
           suites == 45 + d[44]
           compression == suites + 2 + Word(d, suites)
           extensions == compression + 1 + d[compression]
           stop == extensions + 1 + Word(d, extensions)
           end == IF stop > Len(d) THEN Len(d) ELSE stop
<1>1. /\ ~(Len(d) < 44 \/ d[1] # 22 \/ d[6] # 1)
      /\ ~(suites + 1 > Len(d)) /\ ~(compression > Len(d)) /\ ~(extensions + 1 > Len(d))
      /\ ParseClientHello(d) = ServerName(d, extensions + 2, end)
  <2>1. ~(Len(d) < 44 \/ d[1] # 22 \/ d[6] # 1)
    BY Zenon DEF ParseClientHello
  <2>2. ~(suites + 1 > Len(d))
    BY Zenon DEF ParseClientHello
  <2>3. ~(compression > Len(d))
    BY Zenon DEF ParseClientHello
  <2>4. ~(extensions + 1 > Len(d))
    BY Zenon DEF ParseClientHello
  <2> QED
    BY <2>1, <2>2, <2>3, <2>4, Zenon DEF ParseClientHello
<1>2. n \in Nat /\ n >= 44 /\ suites \in Nat /\ suites >= 45 /\ suites + 1 <= n
  <2> DEFINE x == d[44]
  <2>1. n \in Nat /\ n >= 44
    BY <1>1
  <2>2. x \in Nat
    BY <2>1, OctetsAreNumbers
  <2>3. suites = 45 + x /\ ~(suites + 1 > n)
    BY <1>1
  <2> HIDE DEF x, suites, n
  <2> QED
    BY <2>1, <2>2, <2>3
<1> HIDE DEF suites
<1>3. compression \in Nat /\ compression >= 47 /\ compression <= n
  <2>1. Word(d, suites) \in Nat
    BY <1>2, WordFits
  <2> QED
    BY <1>1, <1>2, <2>1
<1> HIDE DEF compression
<1>4. extensions \in Nat /\ extensions >= 48 /\ extensions + 1 <= n
  <2> DEFINE x == d[compression]
  <2>1. x \in Nat
    BY <1>3, OctetsAreNumbers
  <2>2. extensions = compression + 1 + x /\ ~(extensions + 1 > n)
    BY <1>1
  <2> HIDE DEF x, extensions, n
  <2> QED
    BY <1>2, <1>3, <2>1, <2>2
<1> HIDE DEF extensions
<1>5. end \in 0 .. Len(d) /\ extensions + 2 \in 1 .. end + 1
  <2>1. Word(d, extensions) \in Nat
    BY <1>4, WordFits
  <2> QED
    BY <1>4, <2>1
<1> HIDE DEF end
<1>6. Walk(d, end)[extensions + 2] = ParseClientHello(d)
  BY <1>1, ServerNameIs, Zenon
<1>7. PICK q \in 1 .. end : ExtensionFits(d, end, q) /\ HoldsName(d, q)
                            /\ Walk(d, end)[extensions + 2] = NameAt(d, q)
  <2> DEFINE from == extensions + 2
  <2>1. from \in 1 .. end + 1 /\ Walk(d, end)[from] # NoName
    BY <1>5, <1>6
  <2> HIDE DEF from
  <2>2. \E q \in 1 .. end : ExtensionFits(d, end, q) /\ HoldsName(d, q) /\ Walk(d, end)[from] = NameAt(d, q)
    BY <1>5, <2>1, WalkFindsName
  <2> QED
    BY <2>2 DEF from
<1>8. q \in 1 .. Len(d) /\ q <= end
  BY <1>5
<1> QED
  BY <1>5, <1>6, <1>7, <1>8

\* The scan finds the parser's name when nothing before it looks like one.
LEMMA ScanAgrees ==
    ASSUME NEW d \in Seq(Octet), NameComesFirst(d), ParseClientHello(d).len >= 2
    PROVE  /\ FindSNIOffset(d) = ParseClientHello(d)
           /\ ParseClientHello(d).at \in Nat /\ ParseClientHello(d).len \in Nat
<1>1. ParseClientHello(d) # NoName
  BY DEF NoName
<1>2. PICK end \in 0 .. Len(d), q \in 1 .. Len(d) :
             /\ q <= end /\ ExtensionFits(d, end, q) /\ HoldsName(d, q)
             /\ ParseClientHello(d) = NameAt(d, q)
  BY <1>1, ParserFindsName
<1> DEFINE v == Word(d, q + 2)
           w == Word(d, q + 7)
<1>3. Word(d, q) = 0 /\ v >= 5 /\ 5 + w <= v /\ q + 3 <= end /\ q + 3 + v <= end /\ q <= end
  BY <1>2, Zenon DEF ExtensionFits, HoldsName
<1>4. ParseClientHello(d).at = q + 9 /\ ParseClientHello(d).len = w
  BY <1>2 DEF NameAt
<1>5. v \in Nat
  <2>1. q + 2 \in 1 .. Len(d) - 1
    BY <1>3
  <2> QED
    BY <2>1, WordFits
<1>6. w \in Nat /\ q + 8 <= Len(d)
  <2>1. q + 7 \in 1 .. Len(d) - 1 /\ q + 8 <= Len(d)
    <3> HIDE DEF v, w
    <3> QED
      BY <1>3, <1>5
  <2> QED
    BY <2>1, WordFits
<1>7. /\ d[(q + 9) - 3] = 0 /\ Word(d, (q + 9) - 7) <= 255
      /\ \A p \in 1 .. (q + 9) - 10 : ~SniExtensionAt(d, p)
  BY <1>4, Zenon DEF NameComesFirst
<1>8. w >= 2 /\ (q + 9) - 3 = q + 6 /\ (q + 9) - 7 = q + 2 /\ (q + 9) - 10 = q - 1
  BY <1>4
<1>9. d[q + 6] = 0 /\ v <= 255 /\ \A p \in 1 .. q - 1 : ~SniExtensionAt(d, p)
  BY <1>7, <1>8
<1>10. d[q] = 0 /\ d[q + 1] = 0
  <2> DEFINE x == d[q]
             y == d[q + 1]
  <2>1. q \in 1 .. Len(d) /\ q + 1 \in 1 .. Len(d)
    BY <1>6
  <2>2. x \in Octet /\ y \in Octet
    BY <2>1, ElementOfSeq, Zenon
  <2>3. 256 * x + y = 0
    BY <1>3 DEF Word
  <2> HIDE DEF x, y
  <2>4. x = 0 /\ y = 0
    BY <2>2, <2>3 DEF Octet
  <2> QED
    BY <2>4, Zenon DEF x, y
<1> HIDE DEF v, w
<1>11. v \in 5 .. 255 /\ w \in 1 .. 255 /\ q + 8 + w <= Len(d) /\ q + 10 <= Len(d)
  BY <1>3, <1>5, <1>6, <1>8, <1>9
<1>12. SniExtensionAt(d, q)
  BY <1>9, <1>10, <1>11, Zenon DEF SniExtensionAt, v, w
<1>13. FindSNIOffset(d) = NameAt(d, q)
  BY <1>9, <1>11, <1>12, ScanFinds, Zenon
<1> QED
  BY <1>2, <1>4, <1>6, <1>13

\* Of the hello that the builder makes, for a name of up to 250 letters, any part that holds
\* the name is one the scan is right about (BuildClientHello, internal/tlsutil/builder.go).
THEOREM BuiltNamesComeFirst ==
    ASSUME NEW n \in 1 .. 250, NEW m \in 0 .. Len(BuildClientHello(Filler(n))),
           ParseClientHello(SubSeq(BuildClientHello(Filler(n)), 1, m)) # NoName
    PROVE  NameComesFirst(SubSeq(BuildClientHello(Filler(n)), 1, m))
<1> DEFINE d == BuildClientHello(Filler(n))
           e == SubSeq(d, 1, m)
           k == HelloSize(n)
<1>1. HelloHas(d, n, k)
  <2>1. n \in Nat
    OBVIOUS
  <2>2. Filler(n) \in Text(n)
    BY <2>1, FillerIs
  <2> QED
    BY <2>2, HelloBytes
<1>2. m \in 0 .. Len(d)
  OBVIOUS
<1> HIDE DEF d, k
<1>3. /\ d \in Seq(Octet) /\ Len(d) = k /\ m \in 0 .. k /\ m \in Nat
      /\ \A p \in 1 .. 118 : ~(d[p] = 0 /\ d[p + 1] = 0)
      /\ d[125] = 0 /\ Word(d, 121) = n + 5
  BY <1>1, <1>2 DEF HelloHas
<1>4. ParseClientHello(e) = IF m >= 127 + n THEN DecoyName(n) ELSE NoName
  <2>1. m \in 0 .. k
    BY <1>3
  <2> QED
    BY <1>1, <2>1, PrefixParses
<1>5. Len(e) = m /\ \A i \in 1 .. m : e[i] = d[i]
  BY <1>2, <1>3, StartIs
<1> HIDE DEF e
<1>6. CASE m >= 127 + n
  <2>1. ParseClientHello(e).at = 128
    BY <1>4, <1>6 DEF DecoyName
  <2>2. e[125] = 0 /\ Word(e, 121) = n + 5
    <3>1. e[125] = d[125] /\ e[121] = d[121] /\ e[121 + 1] = d[121 + 1]
      BY <1>5, <1>6
    <3> QED
      BY <1>3, <3>1 DEF Word
  <2>3. ASSUME NEW p \in 1 .. 118 PROVE ~SniExtensionAt(e, p)
    <3>1. p \in 1 .. m /\ p + 1 \in 1 .. m
      <4>1. m \in Nat /\ m >= 127 + n /\ n \in Nat
        BY <1>3, <1>6
      <4> QED
        BY <4>1
    <3>2. e[p] = d[p] /\ e[p + 1] = d[p + 1]
      BY <1>5, <3>1, Zenon
    <3> QED
      BY <1>3, <3>2 DEF SniExtensionAt
  <2>4. 128 - 3 = 125 /\ 128 - 7 = 121 /\ 128 - 10 = 118 /\ n + 5 <= 255
    OBVIOUS
  <2>5. NameComesFirst(e) <=> /\ e[128 - 3] = 0 /\ Word(e, 128 - 7) <= 255
                              /\ \A p \in 1 .. 128 - 10 : ~SniExtensionAt(e, p)
    BY <2>1 DEF NameComesFirst
  <2>6. NameComesFirst(e)
    BY <2>2, <2>3, <2>4, <2>5
  <2> QED
    BY <2>6 DEF e, d
<1>7. CASE ~(m >= 127 + n)
  BY <1>4, <1>7 DEF e, d
<1> QED
  BY <1>6, <1>7

\* sni_split makes one piece of what was read, or two.
LEMMA SniPieces ==
    ASSUME NEW d \in Seq(Nat)
    PROVE  /\ FragmentClientHello(d, "sni_split") \in Seq(Seq(Nat))
           /\ Len(FragmentClientHello(d, "sni_split")) <= 2
           /\ Len(FragmentClientHello(d, "sni_split")) = 2 =>
                FragmentClientHello(d, "sni_split") = FragmentAtSNI(d)
<1> DEFINE fs == FragmentClientHello(d, "sni_split")
<1>1. fs \in Seq(Seq(Nat))
  BY FragmentsHoldAll DEF Holds, FragmentStrategies
<1>2. fs = <<d>> \/ fs = FragmentAtSNI(d)
  BY DEF FragmentClientHello
<1>3. Len(<<d>>) = 1 /\ 1 <= 2 /\ 1 # 2 /\ 2 <= 2
  OBVIOUS
<1>4. Len(FragmentAtSNI(d)) = 2
  <2>1. FragmentAtSNI(d) = Half(d) \/ \E n : FragmentAtSNI(d) = CutAfter(d, n)
    BY Zenon DEF FragmentAtSNI
  <2>2. \A n : Len(CutAfter(d, n)) = 2
    BY DEF CutAfter
  <2> QED
    BY <2>1, <2>2 DEF Half
<1> HIDE DEF fs
<1>5. CASE fs = <<d>>
  <2>1. Len(fs) = 1
    BY <1>3, <1>5, Zenon
  <2> QED
    BY <1>1, <1>3, <2>1, Zenon DEF fs
<1>6. CASE fs = FragmentAtSNI(d)
  <2>1. Len(fs) = 2
    BY <1>4, <1>6, Zenon
  <2> QED
    BY <1>1, <1>3, <1>6, <2>1, Zenon DEF fs
<1> QED
  BY <1>2, <1>5, <1>6

\* While two pieces are left they are those that sni_split made of the first read.
CutInv ==
    /\ flightPc # "read" => \E n \in ReadSizes(stream) : first = SubSeq(stream, 1, n)
    /\ fragmentStrategy = "sni_split" =>
        /\ frags \in Seq(Seq(Nat)) /\ Len(frags) <= 2
        /\ Len(frags) = 2 => flightPc # "read" /\ frags = FragmentAtSNI(first)

LEMMA CutStep == ASSUME FlightInv, CutInv, FlightNext PROVE CutInv'
<1>1. CASE ReadFirstBytes
  <2>1. PICK n \in ReadSizes(stream) : first' = SubSeq(stream, 1, n)
                                      /\ frags' = FragmentClientHello(first', fragmentStrategy)
    BY <1>1 DEF ReadFirstBytes
  <2>2. stream' = stream /\ fragmentStrategy' = fragmentStrategy /\ flightPc' = "write"
    BY <1>1 DEF ReadFirstBytes
  <2>3. first' \in Seq(Nat)
    <3>1. stream \in Seq(Nat) /\ n \in 1 .. Len(stream)
      BY <2>1, FlightAssumption DEF FlightInv
    <3>2. SubSeq(stream, 0 + 1, n) \in Seq(Nat)
      BY <3>1, PieceOf
    <3> QED
      BY <2>1, <3>2
  <2>4. fragmentStrategy = "sni_split" =>
            /\ frags' \in Seq(Seq(Nat)) /\ Len(frags') <= 2
            /\ Len(frags') = 2 => frags' = FragmentAtSNI(first')
    BY <2>1, <2>3, SniPieces
  <2> QED
    BY <2>1, <2>2, <2>4 DEF CutInv
<1>2. CASE WriteFragment
  <2>1. frags # <<>> /\ frags' = Tail(frags) /\ flightPc = "write"
        /\ stream' = stream /\ fragmentStrategy' = fragmentStrategy /\ first' = first /\ flightPc' = flightPc
    BY <1>2 DEF WriteFragment
  <2>2. ASSUME fragmentStrategy = "sni_split" PROVE frags' \in Seq(Seq(Nat)) /\ Len(frags') < 2
    <3>1. frags \in Seq(Seq(Nat)) /\ Len(frags) <= 2 /\ frags # <<>>
      BY <2>1, <2>2 DEF CutInv
    <3> QED
      BY <2>1, <3>1
  <2>3. (flightPc # "read" => \E n \in ReadSizes(stream) : first = SubSeq(stream, 1, n))'
    BY <2>1, Zenon DEF CutInv
  <2>4. ASSUME fragmentStrategy = "sni_split"
        PROVE  frags' \in Seq(Seq(Nat)) /\ Len(frags') <= 2 /\ Len(frags') # 2
    <3>1. frags' \in Seq(Seq(Nat)) /\ Len(frags') < 2
      BY <2>2, <2>4
    <3> DEFINE l == Len(frags')
    <3>2. l \in Nat /\ l < 2
      BY <3>1
    <3> HIDE DEF l
    <3>3. l <= 2 /\ l # 2
      BY <3>2
    <3> QED
      BY <3>1, <3>3, Zenon DEF l
  <2> QED
    BY <2>1, <2>3, <2>4 DEF CutInv
<1>3. CASE WriteFragmentFails
  BY <1>3 DEF WriteFragmentFails, CutInv
<1>4. CASE RelayRest
  BY <1>4 DEF RelayRest, CutInv
<1> QED
  BY <1>1, <1>2, <1>3, <1>4 DEF FlightNext

LEMMA CutInvHolds == FlightSpec => []CutInv
<1>1. FlightInit => CutInv
  BY DEF FlightInit, CutInv
<1>2. FlightInv /\ CutInv /\ [FlightNext]_flightVars => CutInv'
  <2>1. FlightInv /\ CutInv /\ FlightNext => CutInv'
    BY CutStep
  <2>2. CutInv /\ UNCHANGED flightVars => CutInv'
    BY DEF CutInv, flightVars
  <2> QED
    BY <2>1, <2>2
<1> QED
  BY FlightInvHolds, <1>1, <1>2, PTL DEF FlightSpec

\* sni_split cuts the name the server will read, and not only of the streams a run tries:
\* whatever clients send and wherever the first read ends, neither piece holds the name the
\* parser finds, unless something before it looks like a server name to the scan
\* (FragmentAtSNI and FindSNIOffset, internal/tlsutil/fragment.go).
THEOREM NamesAreCut == FlightSpec => []SniIsCut
<1>1. FlightInv /\ CutInv => SniIsCut
  <2> SUFFICES ASSUME FlightInv, CutInv, fragmentStrategy = "sni_split", Len(frags) = 2,
                      ParseClientHello(first).len >= 2, NameComesFirst(first)
               PROVE  Len(frags[1]) \in ParseClientHello(first).at ..
                                          ParseClientHello(first).at + ParseClientHello(first).len - 2
    BY Zenon DEF SniIsCut
  <2>1. frags = FragmentAtSNI(first) /\ flightPc # "read"
    BY DEF CutInv
  <2>2. PICK n \in ReadSizes(stream) : first = SubSeq(stream, 1, n)
    BY <2>1 DEF CutInv
  <2>3. stream \in AllStreams /\ stream \in Seq(Octet) /\ n \in 1 .. Len(stream)
    BY <2>2, FlightAssumption DEF FlightInv
  <2>5. first \in Seq(Octet) /\ first \in Seq(Nat) /\ Len(first) = n
    <3>1. n \in 0 .. Len(stream)
      BY <2>3
    <3>2. first \in Seq(Octet) /\ Len(first) = n
      BY <2>2, <2>3, <3>1, StartIs
    <3> QED
      BY <3>2, OctetsAreNumbers
  <2> DEFINE sni == ParseClientHello(first)
             cut == sni.at - 1 + sni.len \div 2
  <2>6. FindSNIOffset(first) = sni /\ sni.at \in Nat /\ sni.len \in Nat /\ sni.len >= 2
    BY <2>5, ScanAgrees
  <2>7. sni # NoName
    BY <2>6 DEF NoName
  <2>8. frags = CutAfter(first, cut)
    BY <2>1, <2>6, <2>7 DEF FragmentAtSNI
  <2>9. cut \in 0 .. Len(first)
    BY <2>5, <2>6, <2>7, ScanStaysInside
  <2>10. cut \in sni.at .. sni.at + sni.len - 2
    <3> DEFINE at == sni.at
               len == sni.len
    <3>1. at \in Nat /\ len \in Nat /\ len >= 2
      BY <2>6
    <3> HIDE DEF at, len
    <3>2. at - 1 + len \div 2 \in at .. at + len - 2
      BY <3>1
    <3> QED
      BY <3>2 DEF at, len
  <2> HIDE DEF cut, sni
  <2>11. frags[1] = SubSeq(first, 1, cut)
    BY <2>8 DEF CutAfter
  <2>12. Len(frags[1]) = cut
    BY <2>5, <2>9, <2>11, StartIs
  <2> QED
    BY <2>10, <2>12 DEF sni
<1> QED
  BY FlightInvHolds, CutInvHolds, <1>1, PTL

\* The fake hello looks like a real one for every name that fits: as long as names do not
\* exceed 250 bytes it has the expected size, is one whole record, and both the parser and
\* the scan find its name, in the same place (BuildClientHello, ParseClientHello,
\* internal/tlsutil/builder.go; FindSNIOffset, internal/tlsutil/fragment.go).
THEOREM DecoysLookReal ==
    ASSUME NameLens \subseteq 1 .. 250
    PROVE  FlightSpec => []DecoyIsPlausible
<1>1. DecoyIsPlausible
  <2> SUFFICES ASSUME NEW n \in NameLens, stream = BuildClientHello(Filler(n))
               PROVE  /\ n <= 219 => Len(stream) = 517
                      /\ Broken \notin {Contents(stream)[i] : i \in {1, Len(Contents(stream))}}
                      /\ ParseClientHello(stream).len = n
                      /\ FindSNIOffset(stream) = ParseClientHello(stream)
    BY Zenon DEF DecoyIsPlausible
  <2> DEFINE d == BuildClientHello(Filler(n))
             k == HelloSize(n)
  <2>1. n \in 1 .. 250 /\ n \in Nat /\ Filler(n) \in Text(n)
    BY FillerIs
  <2>2. d \in OneRecord(k)
    BY <2>1, HelloIs DEF HelloSize
  <2>3. HelloHas(d, n, k)
    BY <2>1, HelloBytes
  <2>4. n <= 219 => k = 517
    BY DEF HelloSize
  <2>5. stream = d
    OBVIOUS
  <2> HIDE DEF d, k
  <2>6. d \in Seq(Octet) /\ Len(d) = k /\ k \in 514 .. 544 /\ k >= 294 + n /\ d[1] = 22
    BY <2>3 DEF HelloHas
  <2>7. SubSeq(d, 1, k) = d /\ k \in 0 .. k /\ k >= 127 + n /\ k >= 129
    BY <2>1, <2>6, SubSeqFull
  <2>8. ParseClientHello(d) = DecoyName(n) /\ FindSNIOffset(d) = DecoyName(n)
    <3>1. ParseClientHello(SubSeq(d, 1, k)) = DecoyName(n)
      BY <2>1, <2>3, <2>7, PrefixParses
    <3>2. FindSNIOffset(SubSeq(d, 1, k)) = DecoyName(n)
      BY <2>1, <2>3, <2>7, PrefixScans
    <3> QED
      BY <2>7, <3>1, <3>2
  <2>9. Contents(d) = Payload(d, 1, k - 5)
    <3>1. k \in Nat /\ k - 5 <= Word16
      BY <2>6 DEF Word16
    <3> QED
      BY <2>2, <3>1, ContentsOfRecord, Zenon
  <2>10. Broken \notin {Contents(d)[i] : i \in {1, Len(Contents(d))}}
    <3> DEFINE s == Payload(d, 1, k - 5)
    <3>1. Len(s) = k - 5 /\ k - 5 \in Nat
      BY <2>6 DEF Payload
    <3>2. ASSUME NEW i \in 1 .. k - 5 PROVE s[i] # Broken
      <4>1. s[i] = <<d[1], d[1 + 4 + i]>>
        BY <3>2 DEF Payload
      <4> QED
        BY <2>6, <4>1 DEF Broken
    <3>3. 1 \in 1 .. k - 5 /\ Len(s) \in 1 .. k - 5
      BY <2>6, <3>1
    <3> HIDE DEF s
    <3>4. \A i \in {1, Len(s)} : s[i] # Broken
      BY <3>2, <3>3
    <3> QED
      BY <2>9, <3>4, Zenon DEF s
  <2> QED
    BY <2>4, <2>5, <2>6, <2>8, <2>10 DEF DecoyName
<1> QED
  BY <1>1, PTL

=============================================================================
