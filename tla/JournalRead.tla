------------------------------ MODULE JournalRead ------------------------------
(***************************************************************************)
(* journal_read() and its completion buf_got_read() (src/journals.c): reads*)
(* of one journal file through io_uring and the journal's read buffers.    *)
(*                                                                         *)
(* The reader is one chain of closures: the closure of a read issues the   *)
(* next one, so a journal has at most one read in flight.  The first read  *)
(* is the file header; every later one is addressed by what the header     *)
(* said, and stays inside the region the header said was written.          *)
(*                                                                         *)
(* The file itself changes underneath: journald (external) appends to a    *)
(* journal that is online.  Bytes are counted in units, and a unit of file *)
(* data is a cell [pos, val]: where in the file it came from, and what it  *)
(* said when it was read.  The header unit says how much of the file is    *)
(* written; any other unit is written (1) or still zero (0).               *)
(***************************************************************************)
EXTENDS BufLru

CONSTANTS JOURNAL_BUF_SIZE,   \* units of a buffer
          MaxSize,            \* bound on the size of the file
          MaxLen              \* bound on the length of one read

ASSUME SizesAssumption ==
    /\ JOURNAL_BUF_SIZE \in Nat \ {0}
    /\ MaxSize \in Nat
    /\ MaxLen \in Nat /\ MaxLen >= JOURNAL_BUF_SIZE

\* Memory that was never loaded is not a cell of file data.
ASSUME NoCellAssumption == NULL \notin [pos : Nat, val : Nat]

VARIABLES fsize,    \* size of the file
          hw,       \* units [0, hw) of the file are written
          lru,      \* journal->lru_{head,tail}, bufs[]->lru_{prev,next}
          buf,      \* bufs[]->{valid,offset,length}
          mem,      \* bufs[]->data
          rd,       \* the read in flight, or the last one
          dest,     \* the caller's memory of that read
          limit,    \* the end of the written region according to the header
                    \* the reader has loaded, 0 until it has
          err       \* what iou_run() returns when a callback fails

vars == <<fsize, hw, lru, buf, mem, rd, dest, limit, err>>

BufOff == 0 .. JOURNAL_BUF_SIZE - 1
DestOff == 0 .. MaxLen - 1
Cell == [pos : 0 .. MaxSize - 1, val : 0 .. MaxSize] \cup {NULL}
Zeroed == [k \in DestOff |-> NULL]

\* The file's unit p as it is now.
FileCell(p) == [pos |-> p,
                val |-> IF p = 0 THEN hw ELSE IF p < hw THEN 1 ELSE 0]

Init ==
    /\ fsize \in 0 .. MaxSize
    /\ hw \in 0 .. fsize
    /\ hw = 0 => fsize = 0
    /\ lru = lru_setup
    /\ buf = [b \in BufIdx |-> [valid |-> FALSE, offset |-> 0, length |-> 0]]
    /\ mem = [b \in BufIdx |-> [k \in BufOff |-> NULL]]
    /\ rd = [st |-> "idle", offset |-> 0, length |-> 0, buf |-> NULL, result |-> 0]
    /\ dest = Zeroed
    /\ limit = 0
    /\ err = "none"

-----------------------------------------------------------------------------
\* Faulty variant: the chain trusts the size of the file, not its header.
AsksByFileSize(o, l) ==
    /\ err = "none"
    /\ rd.st \in {"idle", "got"}
    /\ IF limit = 0
       THEN o = 0 /\ l = 1
       ELSE o >= 1 /\ o + l <= fsize

\* The reads the chain issues: the header first and only once, then ranges
\* inside the region the header describes.
Asks(o, l) ==
    /\ err = "none"
    /\ rd.st \in {"idle", "got"}
    /\ IF limit = 0
       THEN o = 0 /\ l = 1
       ELSE o >= 1 /\ o + l <= limit

\* Buffer b holds the whole range.
Covers(b, o, l) ==
    /\ buf[b].valid
    /\ o >= buf[b].offset
    /\ o + l <= buf[b].offset + buf[b].length

\* Faulty variant: the copy starts at the front of the buffer.
HitIndexFront(b, o) == 0

\* Where the data of a range that b covers starts in b.
HitIndex(b, o) == o - buf[b].offset

\* Faulty variant: the most recently used buffer is refilled.
VictimTail == lru.tail

\* The buffer a read that finds no data takes over.
Victim == lru.head

\* The closure runs: got_header() and its caller keep what the header says.
Dispatch(o, l, cells) ==
    /\ rd' = [st |-> "got", offset |-> o, length |-> l, buf |-> NULL, result |-> 0]
    /\ dest' = cells
    /\ limit' = IF o = 0 THEN cells[0].val ELSE limit

\* The operation is queued, or iou_op_new() had none to give.
QueueRead(o, l, b) ==
    \/ /\ rd' = [st |-> "queued", offset |-> o, length |-> l, buf |-> b, result |-> 0]
       /\ dest' = Zeroed
       /\ UNCHANGED <<limit, err>>
    \/ /\ err' = "ENOMEM"
       /\ UNCHANGED <<rd, dest, limit>>

\* journal_read(), data present: copied from the first buffer that covers it.
ReadHit(o, l) ==
    /\ Asks(o, l)
    /\ l <= JOURNAL_BUF_SIZE
    /\ \E b \in BufIdx :
          /\ Covers(b, o, l)
          /\ \A c \in BufIdx : c < b => ~ Covers(c, o, l)
          /\ lru' = buf_used(lru, b)
          /\ Dispatch(o, l, [k \in DestOff |->
                IF k < l THEN mem[b][HitIndex(b, o) + k] ELSE NULL])
    /\ UNCHANGED <<fsize, hw, buf, mem, err>>

\* journal_read(), data absent: the least recently used buffer is
\* invalidated and a read of a whole buffer's worth queued into it.
ReadMiss(o, l) ==
    /\ Asks(o, l)
    /\ l <= JOURNAL_BUF_SIZE
    /\ \A b \in BufIdx : ~ Covers(b, o, l)
    /\ lru' = buf_used(lru, Victim)
    /\ buf' = [buf EXCEPT ![Victim].valid = FALSE]
    /\ QueueRead(o, l, Victim)
    /\ UNCHANGED <<fsize, hw, mem>>

\* journal_read(), too long for a buffer: queued straight into dest.
ReadUnbuffered(o, l) ==
    /\ Asks(o, l)
    /\ l > JOURNAL_BUF_SIZE
    /\ QueueRead(o, l, NULL)
    /\ UNCHANGED <<fsize, hw, lru, buf, mem>>

-----------------------------------------------------------------------------
\* memory, its first n units overwritten by the file's units from o on.
Loaded(memory, o, n) ==
    [k \in DOMAIN memory |-> IF k < n THEN FileCell(o + k) ELSE memory[k]]

\* The kernel executes the queued read: n units arrive, possibly fewer than
\* asked for (end of file, or a read cut short), or the read fails.
KernelRead ==
    /\ rd.st = "queued"
    /\ \/ \E n \in 0 .. MaxLen :
             /\ n <= IF rd.buf = NULL THEN rd.length ELSE JOURNAL_BUF_SIZE
             /\ n = 0 \/ rd.offset + n <= fsize
             /\ rd' = [rd EXCEPT !.st = "done", !.result = n]
             /\ IF rd.buf = NULL
                THEN dest' = Loaded(dest, rd.offset, n) /\ UNCHANGED mem
                ELSE /\ mem' = [mem EXCEPT ![rd.buf] = Loaded(@, rd.offset, n)]
                     /\ UNCHANGED dest
       \/ /\ rd' = [rd EXCEPT !.st = "done", !.result = -1]
          /\ UNCHANGED <<mem, dest>>
    /\ UNCHANGED <<fsize, hw, lru, buf, limit, err>>

\* The completed operation's result is an error.
Failed == rd.result < 0

\* It is a count, and too small (a negative result compares as unsigned).
Short == rd.result \in 0 .. rd.length - 1

\* Faulty variants: the buffer's extent is taken to be a whole buffer, or its
\* end is kept for its length.
PublishWhole == buf' = [buf EXCEPT ![rd.buf] =
    [valid |-> TRUE, offset |-> rd.offset, length |-> JOURNAL_BUF_SIZE]]
PublishEnd == buf' = [buf EXCEPT ![rd.buf] =
    [valid |-> TRUE, offset |-> rd.offset, length |-> rd.offset + rd.result]]

\* The buffer can serve the range that arrived.
Publish == buf' = [buf EXCEPT ![rd.buf] =
    [valid |-> TRUE, offset |-> rd.offset, length |-> rd.result]]

\* Faulty variant: only a buffered read goes on to its closure.
GotUnbufferedLost == UNCHANGED <<buf, rd, dest, limit>>

\* The kernel has already put the data into dest.
GotUnbuffered == Dispatch(rd.offset, rd.length, dest) /\ UNCHANGED buf

\* The data is copied from the buffer to dest.
GotBuffered ==
    /\ Publish
    /\ Dispatch(rd.offset, rd.length,
          [k \in DestOff |-> IF k < rd.length THEN mem[rd.buf][k] ELSE NULL])

\* buf_got_read(): the completion callback.  Errors and short reads end the
\* run; otherwise dest is complete and the closure is dispatched.
buf_got_read ==
    /\ rd.st = "done"
    /\ err = "none"
    /\ \/ Failed /\ err' = "EIO" /\ UNCHANGED <<buf, rd, dest, limit>>
       \/ ~ Failed /\ Short /\ err' = "EINVAL" /\ UNCHANGED <<buf, rd, dest, limit>>
       \/ /\ ~ Failed /\ ~ Short
          /\ IF rd.buf # NULL THEN GotBuffered ELSE GotUnbuffered
          /\ UNCHANGED err
    /\ UNCHANGED <<fsize, hw, lru, mem>>

-----------------------------------------------------------------------------
\* journald makes the file longer ahead of what it is going to write.
JournaldGrow ==
    /\ fsize > 0
    /\ fsize < MaxSize
    /\ fsize' = fsize + 1
    /\ UNCHANGED <<hw, lru, buf, mem, rd, dest, limit, err>>

\* journald appends: the data first, the header's account of it with it.
JournaldAppend ==
    /\ hw > 0
    /\ hw < fsize
    /\ hw' = hw + 1
    /\ UNCHANGED <<fsize, lru, buf, mem, rd, dest, limit, err>>

Next ==
    \/ \E o \in 0 .. MaxSize - 1, l \in 1 .. MaxLen :
          ReadHit(o, l) \/ ReadMiss(o, l) \/ ReadUnbuffered(o, l)
    \/ KernelRead
    \/ buf_got_read
    \/ JournaldGrow
    \/ JournaldAppend

Spec == Init /\ [][Next]_vars

\* The kernel completes what it was given and iou_run() dispatches what the
\* kernel completed.
FairSpec == Spec /\ WF_vars(KernelRead) /\ WF_vars(buf_got_read)

-----------------------------------------------------------------------------
TypeOK ==
    /\ fsize \in 0 .. MaxSize
    /\ hw \in 0 .. fsize
    /\ lru \in LruList
    /\ buf \in [BufIdx -> [valid : BOOLEAN, offset : 0 .. MaxSize,
                           length : 0 .. JOURNAL_BUF_SIZE]]
    /\ mem \in [BufIdx -> [BufOff -> Cell]]
    /\ rd \in [st : {"idle", "queued", "done", "got"}, offset : 0 .. MaxSize,
               length : 0 .. MaxLen, buf : BufPtr, result : -1 .. MaxLen]
    /\ dest \in [DestOff -> Cell]
    /\ limit \in 0 .. MaxSize
    /\ err \in {"none", "ENOMEM", "EIO", "EINVAL"}

\* The first n cells of memory are the file's units from o on.
IsFileData(memory, o, n) ==
    \A k \in DOMAIN memory : k < n => memory[k] # NULL /\ memory[k].pos = o + k

\* buf_used() leaves a single chain through all JOURNAL_BUF_CNT buffers,
\* consistent in both directions, whatever hits and misses came before.
LruWellLinked == WellLinked(lru)

\* A buffer marked valid holds the file's data at the place and over the
\* length it advertises: no refill, failed read or short read leaves a valid
\* buffer describing other data than it has.
BuffersHoldFile ==
    \A b \in BufIdx :
       buf[b].valid => IsFileData(mem[b], buf[b].offset, buf[b].length)

\* When journal_read()'s closure runs, dest holds the range that was asked
\* for, all of it, from the right place in the file: by a hit, a fill or an
\* unbuffered read alike.
ReadDelivers ==
    rd.st = "got" => IsFileData(dest, rd.offset, rd.length)

\* The closure never sees a unit that had not been written yet although the
\* header it read says it is written: buffers are filled with what lies
\* beyond the range asked for, and journald writes there later, but no such
\* stale unit is ever served.
ReadsWrittenData ==
    rd.st = "got" =>
       \A k \in DestOff : k < rd.length /\ rd.offset + k > 0 => dest[k].val = 1

\* The range read last can be read again without I/O: its buffer is valid
\* and is the last one journal_read() would take over.
LastReadStaysCached ==
    rd.st = "got" /\ rd.length <= JOURNAL_BUF_SIZE /\ err = "none" =>
       Covers(lru.tail, rd.offset, rd.length)

\* The pointer manipulation, the valid bits and the asynchronous refills
\* together are a least-recently-used pool.
Pool == INSTANCE LruPool WITH
            order <- LruOrder(lru),
            held <- {b \in BufIdx : buf[b].valid}
RefinesLruPool == Pool!Spec

\* Every read that journal_read() queues comes to its closure or ends the run.
ReadCompletes == rd.st \in {"queued", "done"} ~> (rd.st = "got" \/ err # "none")
=============================================================================
