---- MODULE TailLines ----
(***************************************************************************)
(* tailLines (internal/service/service.go), which /v1/logs and /v1/health  *)
(* read the service's log with, while the core and the service append to   *)
(* it.  It reads the file backwards in chunks, always into the same array  *)
(* tmp, and collects the bytes in the slice buf.  After the first chunk,   *)
(* append has nothing to add and returns the slice of tmp itself: buf then *)
(* shares tmp's array until a later append allocates a new one.            *)
(*                                                                         *)
(* A byte is a line feed or one of two others, so that what a line holds   *)
(* can be told; CRLF is left out.  No caller passes maxLines <= 0.         *)
(***************************************************************************)
EXTENDS Naturals, Sequences, FiniteSets, Places

CONSTANTS
    Chunk,      \* size of tmp: 64 KiB in the code
    Limits,     \* values of maxLines
    MaxFile     \* bound: length of the log

ASSUME TailAssumption == Chunk \in Nat \ {0} /\ Limits \subseteq Nat \ {0} /\ MaxFile \in Nat

Bytes == {"a", "b", "LF"}

Logs(n) == UNION {[1 .. k -> Bytes] : k \in 0 .. n}

VARIABLES
    log,        \* the file
    maxLines,
    size,       \* its size when Stat was called
    pos,        \* what is before it has not been read
    tmp,        \* the array each chunk is read into
    shared,     \* buf is a slice of tmp
    own,        \* buf's array when it is not
    filled,     \* len(buf)
    result,
    pc

vars == <<log, maxLines, size, pos, tmp, shared, own, filled, result, pc>>

\* The bytes of buf, given the array tmp.
Buffer(t) == IF shared THEN SubSeq(t, 1, filled) ELSE own

LineFeedPlaces(bytes) == {i \in 1 .. Len(bytes) : bytes[i] = "LF"}

LineFeeds(bytes) == Cardinality(LineFeedPlaces(bytes))

\* Where line k ends: at the k-th line feed, or the last one past the last byte.
LineEnd(bytes, k) ==
    IF k = 0 THEN 0
    ELSE IF k > LineFeeds(bytes) THEN Len(bytes) + 1
    ELSE KthOf(LineFeedPlaces(bytes), k)

\* strings.Split at the line feeds; a final line feed yields a last, empty line.
Lines(bytes) ==
    [k \in 1 .. LineFeeds(bytes) + 1 |->
        SubSeq(bytes, LineEnd(bytes, k - 1) + 1, LineEnd(bytes, k) - 1)]

LastLines(ls, n) == IF Len(ls) > n THEN SubSeq(ls, Len(ls) - n + 1, Len(ls)) ELSE ls

Init ==
    /\ log \in Logs(MaxFile)
    /\ maxLines \in Limits
    /\ size = Len(log)
    /\ pos = size
    /\ tmp = [i \in 1 .. Chunk |-> "a"]
    /\ shared = FALSE /\ own = <<>> /\ filled = 0
    /\ result = <<>>
    /\ pc = IF pos > 0 THEN "read" ELSE "split"

\* The loop stops when buf starts before the wanted lines.
Enough(bytes) == LineFeeds(bytes) > maxLines

ChunkLen == IF pos < Chunk THEN pos ELSE Chunk

AppendedLast(t, old) == old \o SubSeq(t, 1, ChunkLen)

\* append(tmp[:n:n], buf...): the new chunk, then what buf holds after the read.
Appended(t, old) == SubSeq(t, 1, ChunkLen) \o old

ReadChunkSeeksEnd ==
    /\ pc = "read"
    /\ pos' = pos - ChunkLen
    /\ tmp' = [i \in 1 .. Chunk |->
                  IF i <= ChunkLen THEN log[Len(log) - size + pos - ChunkLen + i] ELSE tmp[i]]
    /\ shared' = (filled = 0)
    /\ filled' = ChunkLen + filled
    /\ own' = IF filled = 0 THEN <<>> ELSE Appended(tmp', Buffer(tmp'))
    /\ pc' = IF pos' = 0 \/ Enough(Appended(tmp', Buffer(tmp'))) THEN "split" ELSE "read"
    /\ UNCHANGED <<log, maxLines, size, result>>

\* One iteration: ReadAt overwrites tmp (its first bytes only, at the file's start).
ReadChunk ==
    /\ pc = "read"
    /\ pos' = pos - ChunkLen
    /\ tmp' = [i \in 1 .. Chunk |-> IF i <= ChunkLen THEN log[pos - ChunkLen + i] ELSE tmp[i]]
    /\ shared' = (filled = 0)
    /\ filled' = ChunkLen + filled
    /\ own' = IF filled = 0 THEN <<>> ELSE Appended(tmp', Buffer(tmp'))
    /\ pc' = IF pos' = 0 \/ Enough(Appended(tmp', Buffer(tmp'))) THEN "split" ELSE "read"
    /\ UNCHANGED <<log, maxLines, size, result>>

SplitLines ==
    /\ pc = "split"
    /\ result' = LastLines(Lines(Buffer(tmp)), maxLines)
    /\ pc' = "done"
    /\ UNCHANGED <<log, maxLines, size, pos, tmp, shared, own, filled>>

\* The core or the service writes to the log meanwhile.
LogGrows ==
    /\ Len(log) < MaxFile
    /\ pc # "done"
    /\ \E b \in Bytes : log' = Append(log, b)
    /\ UNCHANGED <<maxLines, size, pos, tmp, shared, own, filled, result, pc>>

Next == ReadChunk \/ SplitLines \/ LogGrows

Spec == Init /\ [][Next]_vars

-----------------------------------------------------------------------------
(* Properties *)

\* The reference: the last lines of what the file held when it was opened.
WantedTail(n) == LastLines(Lines(SubSeq(log, 1, size)), n)

\* "tailLines returns up to maxLines lines from the end of path": exactly those.
TailIsLastLines == pc = "done" => result = WantedTail(maxLines)

\* It does when the last chunk alone is enough: the file has no more bytes than a chunk,
\* or more line feeds in it than the lines asked for, however the log grows meanwhile.
OneChunkSuffices ==
    LET lastChunk == SubSeq(log, (IF size > Chunk THEN size - Chunk ELSE 0) + 1, size)
    IN pc = "done" /\ (size <= Chunk \/ LineFeeds(lastChunk) > maxLines)
       => result = WantedTail(maxLines)

\* With more chunks, all bytes before the last chunk are the file's, in their order.
EarlierChunksExact ==
    pc # "read" =>
        \A i \in 1 .. filled : i + Chunk <= filled => Buffer(tmp)[i] = log[pos + i]

====
