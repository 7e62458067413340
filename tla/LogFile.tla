------------------------------- MODULE LogFile -------------------------------
(***************************************************************************)
(* From a line that is logged to the log on the card (log_ring.c,          *)
(* storage_log.c, log_rotate.c).  Lines go into a ring of bytes, where the *)
(* oldest give way, whole and counted; the storage task moves chunks of    *)
(* whole lines to stark.log, each behind a marker that says how many lines *)
(* were dropped before it; and when a chunk would not fit, the files move  *)
(* up one name and the oldest goes.  The task does this step by step; any  *)
(* step may fail, and the card or the power may go between two.  The names *)
(* are 0 (stark.log) and 1, 2, ... (stark.<i>.log).                        *)
(***************************************************************************)
EXTENDS Integers, Sequences, Functions

CONSTANTS LogFiles,   \* s_files
          LogLimit,   \* s_limit
          RingBytes,  \* CONFIG_STARK_LOG_RING_BYTES
          ChunkBytes, \* sizeof s_chunk
          LineSizes,  \* lengths of a line with its newline
          MaxLines    \* bound: lines logged

\* capture_vprintf() cuts a line at 160 bytes, a chunk has 1024 with 48 for its marker, and
\* a file at least 4096 (STARK_STORAGE_LOG_FILE_KB).
ASSUME LogAssumption ==
    /\ LogFiles \in 1..8 /\ LogLimit \in Nat /\ ChunkBytes \in Nat /\ RingBytes \in Nat
    /\ LineSizes \subseteq 1..ChunkBytes /\ LineSizes \subseteq 1..RingBytes
    /\ ChunkBytes < LogLimit

VARIABLES
    logRing,   \* the bytes in the ring, oldest first
    logLost,   \* the lines dropped since the last take; r->dropped is their number
    logDir,    \* name |-> the bytes in the file, oldest first
    logKnown,  \* s_size_known
    logSize,   \* s_size
    logStep,   \* where the flush is: "idle", "size", "rotate", "append"
    logRot,    \* the rotation step that is next
    logChunk,  \* the marker, if lines were dropped, and s_chunk
    logPut,    \* lines logged
    logGone,   \* history: lines of which an error or a reset took a part, or their marker
    logFailed  \* history: a rotation step failed since the last rotation went through

logVars == <<logRing, logLost, logDir, logKnown, logSize, logStep, logRot, logChunk, logPut,
             logGone, logFailed>>

\* A byte of a line, the newline at its end, and the marker, which counts as one byte; it
\* prints how many lines it stands for, and which they are is kept as history.
Byte(line, last) == [line |-> line, last |-> last, told |-> {}]
Line(line, size) == [i \in 1..size |-> Byte(line, i = size)]
Marker(lines) == [line |-> 0, last |-> TRUE, told |-> lines]
Tells(byte) == byte.told \cup ({byte.line} \ {0})
LinesIn(bytes) == UNION {Tells(bytes[i]) : i \in DOMAIN bytes}

SizeOf(i) == IF i \in DOMAIN logDir THEN Len(logDir[i]) ELSE 0
NoChunk == <<>>

\* log_rotate_plan(): step k moves file LogFiles - 1 - k up, the first one deletes it.
Overflows(size, add) == size > 0 /\ size + add > LogLimit
From(k) == LogFiles - 1 - k

LogInit ==
    /\ logRing = <<>> /\ logLost = {} /\ logPut = 0 /\ logGone = {}
    /\ logDir = <<>> /\ logKnown = FALSE /\ logSize = 0 /\ logStep = "idle"
    /\ logRot = 0 /\ logChunk = NoChunk /\ logFailed = FALSE

\* drop_line(), as often as it takes: the oldest lines that make room for so many bytes.
RoomFor(n) ==
    LET cuts == {0} \cup {i \in DOMAIN logRing : logRing[i].last \/ i = Len(logRing)}
        cut == CHOOSE c \in cuts : /\ RingBytes - (Len(logRing) - c) >= n
                                   /\ \A d \in cuts : RingBytes - (Len(logRing) - d) >= n => c <= d
    IN  SubSeq(logRing, 1, cut)

\* capture_vprintf(), from any task.
PutLine(size) ==
    /\ logPut < MaxLines
    /\ logPut' = logPut + 1
    /\ LET old == RoomFor(size)
       IN  /\ logRing' = SubSeq(logRing, Len(old) + 1, Len(logRing)) \o Line(logPut + 1, size)
           /\ logLost' = logLost \cup LinesIn(old)
    /\ UNCHANGED <<logDir, logKnown, logSize, logStep, logRot, logChunk, logGone, logFailed>>

\* log_ring_take(): what fits, through its last newline.
Taken ==
    LET ends == {0} \cup {i \in DOMAIN logRing : i <= ChunkBytes /\ logRing[i].last}
    IN  SubSeq(logRing, 1, CHOOSE e \in ends : \A d \in ends : d <= e)

\* storage_log_flush(): a chunk is taken before anything is known of the file.
TakeChunk ==
    /\ logStep = "idle" /\ logRing # <<>>
    /\ logRing' = SubSeq(logRing, Len(Taken) + 1, Len(logRing)) /\ logLost' = {}
    /\ logChunk' = (IF logLost = {} THEN <<>> ELSE <<Marker(logLost)>>) \o Taken
    /\ logStep' = "size"
    /\ UNCHANGED <<logDir, logKnown, logSize, logRot, logPut, logGone, logFailed>>

\* The lines that are not told of when only so much of the chunk is in the file.
Untold(written) == LinesIn(SubSeq(logChunk, written + 1, Len(logChunk)))

\* The size of the file, looked up when it is not known; on an error the chunk is lost.
SizeFound ==
    /\ logStep = "size"
    /\ logSize' = IF logKnown THEN logSize ELSE SizeOf(0)
    /\ logKnown' = TRUE
    /\ logStep' = IF Overflows(logSize', Len(logChunk)) THEN "rotate" ELSE "append"
    /\ logRot' = 0
    /\ UNCHANGED <<logRing, logLost, logDir, logChunk, logPut, logGone, logFailed>>

SizeUnknown ==
    /\ logStep = "size" /\ ~logKnown
    /\ logStep' = "idle" /\ logChunk' = NoChunk /\ logGone' = logGone \cup Untold(0)
    /\ UNCHANGED <<logRing, logLost, logRot, logDir, logKnown, logSize, logPut, logFailed>>

Gone(i) == Restrict(logDir, DOMAIN logDir \ {i})
Moved(i) == [j \in (DOMAIN logDir \ {i}) \cup {i + 1} |-> IF j = i + 1 THEN logDir[i] ELSE logDir[j]]

\* rotate(): a file that is not there is no error.
RotateStep ==
    /\ logStep = "rotate"
    /\ LET i == From(logRot)
       IN logDir' = IF i \notin DOMAIN logDir THEN logDir ELSE IF logRot = 0 THEN Gone(i) ELSE Moved(i)
    /\ IF logRot = LogFiles - 1
       THEN logStep' = "append" /\ logSize' = 0 /\ logFailed' = FALSE /\ UNCHANGED logRot
       ELSE logRot' = logRot + 1 /\ UNCHANGED <<logStep, logSize, logFailed>>
    /\ UNCHANGED <<logRing, logLost, logKnown, logChunk, logPut, logGone>>

\* The chunk is then appended to the file as it is.
RotateFails ==
    /\ logStep = "rotate" /\ logStep' = "append" /\ logFailed' = TRUE
    /\ UNCHANGED <<logRing, logLost, logRot, logDir, logKnown, logSize, logChunk, logPut, logGone>>

Appended(bytes) ==
    [i \in DOMAIN logDir \cup {0} |->
        IF i # 0 THEN logDir[i] ELSE IF 0 \in DOMAIN logDir THEN logDir[0] \o bytes ELSE bytes]

AppendChunk ==
    /\ logStep = "append" /\ logStep' = "idle" /\ logChunk' = NoChunk
    /\ logDir' = Appended(logChunk) /\ logSize' = logSize + Len(logChunk)
    /\ UNCHANGED <<logRing, logLost, logRot, logKnown, logPut, logGone, logFailed>>

\* A write that fails after so many bytes; none if the file could not be opened.
Part(written) ==
    /\ logStep = "append" /\ logStep' = "idle" /\ logChunk' = NoChunk
    /\ logDir' = IF written = 0 THEN logDir ELSE Appended(SubSeq(logChunk, 1, written))
    /\ logGone' = logGone \cup Untold(written)
    /\ UNCHANGED <<logRing, logLost, logRot, logSize, logPut, logFailed>>

\* Slip: the size is kept after a write that failed.
AppendFailsSlip(written) == Part(written) /\ UNCHANGED logKnown

\* Some of the chunk may be in the file: its size is not known any more.
AppendFails(written) == Part(written) /\ logKnown' = FALSE

\* storage_log_on_mount(), after a removal: a flush cut short stays as it is.
LogMounted ==
    /\ logStep' = "idle" /\ logChunk' = NoChunk
    /\ logKnown' = FALSE /\ logSize' = 0 /\ logFailed' = (logFailed \/ logStep = "rotate")
    /\ logGone' = logGone \cup Untold(0)
    /\ UNCHANGED <<logRing, logLost, logRot, logDir, logPut>>

\* After a reset what was in the ring is gone too.
LogReset ==
    /\ logRing' = <<>> /\ logLost' = {}
    /\ logStep' = "idle" /\ logChunk' = NoChunk
    /\ logKnown' = FALSE /\ logSize' = 0 /\ logFailed' = (logFailed \/ logStep = "rotate")
    /\ logGone' = logGone \cup Untold(0) \cup LinesIn(logRing) \cup logLost
    /\ UNCHANGED <<logRot, logDir, logPut>>

LogNext ==
    \/ \E size \in LineSizes : PutLine(size)
    \/ TakeChunk \/ SizeFound \/ SizeUnknown \/ RotateStep \/ RotateFails \/ AppendChunk
    \/ LogMounted \/ LogReset
    \/ \E written \in 0..Len(logChunk) : AppendFails(written)

(***************************************************************************)
(* Properties.                                                             *)
(***************************************************************************)
\* What the card holds, oldest first: the older files, and in a file its first bytes.
Places == UNION {{i} \X DOMAIN logDir[i] : i \in DOMAIN logDir}
ByteAt(p) == logDir[p[1]][p[2]]
Before(p, q) == p[1] > q[1] \/ (p[1] = q[1] /\ p[2] < q[2])

\* Across the files the lines are in the order they were logged, whatever failed half way,
\* and where lines are missing markers tell of each of them once, so that their numbers add
\* up; only those that an error or a reset took are missing without a word.
LogTellsItsGaps ==
    \A x, y \in Places :
        LET between == {z \in Places : Before(x, z) /\ Before(z, y)}
            missing == (ByteAt(x).line + 1)..(ByteAt(y).line - 1)
        IN  Before(x, y) /\ ByteAt(x).line # 0 /\ ByteAt(y).line # 0 /\ (\A z \in between : ByteAt(z).line = 0) =>
              /\ ByteAt(x).line <= ByteAt(y).line
              /\ missing \ logGone = UNION {ByteAt(z).told : z \in between}
              /\ \A v, w \in between : v # w => ByteAt(v).told \cap ByteAt(w).told = {}

\* The size the rotation goes by is the file's, and while rotations succeed it is
\* within the limit, but for a chunk that is over it by itself.
LogWithinLimit ==
    /\ logKnown /\ logStep \in {"idle", "size"} => logSize = SizeOf(0)
    /\ ~logFailed => SizeOf(0) <= LogLimit

\* From the ring to the card, after any write or rename that failed half way, and over
\* removals and resets.
LogIsSound == LogTellsItsGaps /\ LogWithinLimit
=============================================================================
