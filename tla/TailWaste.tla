------------------------------- MODULE TailWaste -------------------------------
(***************************************************************************)
(* "jio report tail-waste" and "jio reclaim tail-waste"                    *)
(* (src/report-tail-waste.c, src/reclaim-tail-waste.c), with               *)
(* journal_get_object_header() of src/journals.c: the space between the    *)
(* end of a journal's last object and the end of its file is summed up,    *)
(* or cut off.  jio_reclaim_tail_waste() returns -ENOTSUP before its first *)
(* call in this version: of it, the module says what its callbacks do once *)
(* they are let run.                                                       *)
(*                                                                         *)
(* A journal's header, its tail object's header and the size of its file   *)
(* are taken at three moments; journald (external) appends to the file and *)
(* grows it in between.  Sizes and sums are unsigned, modulo UINT.         *)
(***************************************************************************)
EXTENDS Integers, FiniteSetsExt, Functions

CONSTANTS Journal,       \* the journals
          Command,       \* the commands: "report", "reclaim" or both
          UINT,          \* 2^64 in the code
          header_size,   \* size of a journal's header, where objects begin
          MaxEnd,        \* bound on the size of a file
          Size,          \* sizes of the objects that journald writes
          HeaderWord     \* the header's second word: its flags, read as a size

ASSUME WasteAssumption ==
    /\ IsFiniteSet(Journal)
    /\ Command \subseteq {"report", "reclaim"}
    /\ header_size \in Nat \ {0} /\ header_size % 8 = 0
    /\ MaxEnd \in Nat /\ header_size <= MaxEnd /\ UINT \in Nat /\ MaxEnd < UINT
    /\ Size \subseteq Nat \ {0}
    /\ HeaderWord \in 0 .. UINT - 1

VARIABLES cmd,      \* the command
          state,    \* the file: its header's state,
          tail,     \*   tail_object_offset,
          size,     \*   what reads as an object's size at an offset,
          end,      \*   the end of its last object
          fsize,    \*   and its size
          ch,       \* the chain of a journal: st, foo->header
          shown,    \* what the closure found: sz, and sz - tail
          waste,    \* tail_waste_t of the report
          rec,      \* tail_waste_t of the reclaim
          err       \* a callback has failed: iou_run() returns

vars == <<cmd, state, tail, size, end, fsize, ch, shown, waste, rec, err>>

State == {"offline", "online", "archived"}
Offset == 0 .. MaxEnd
Nothing == [sz |-> 0, waste |-> 0]

Init ==
    /\ cmd \in Command
    /\ state = [j \in Journal |-> "online"]
    /\ tail = [j \in Journal |-> 0]
    /\ size = [j \in Journal |-> [o \in Offset |-> IF o = 0 THEN HeaderWord ELSE 0]]
    /\ end = [j \in Journal |-> header_size]
    /\ fsize = [j \in Journal |-> header_size]
    /\ ch = [j \in Journal |-> [st |-> "idle", tail |-> 0, state |-> "offline"]]
    /\ shown = [j \in Journal |-> Nothing]
    /\ waste = [bytes |-> [s \in State |-> 0], total |-> 0, file_size |-> 0,
                counts |-> [s \in State |-> 0], n_journals |-> 0]
    /\ rec = [n_journals |-> 0, n_mules |-> 0, n_ignored |-> 0, n_errored |-> 0,
              n_reclaimed |-> 0, ignored |-> 0, errored |-> 0, reclaimed |-> 0]
    /\ err = FALSE

-----------------------------------------------------------------------------
ALIGN64(x) == ((x + 7) \div 8) * 8

\* Faulty variant: the difference is signed.
MinusSigned(a, b) == a - b

Plus(a, b) == (a + b) % UINT
Minus(a, b) == (a - b) % UINT

\* per_journal_tail_waste(): the journal's chain begins.
per_journal_tail_waste(j) ==
    /\ ~ err
    /\ ch[j].st = "idle"
    /\ ch' = [ch EXCEPT ![j].st = "header"]
    /\ UNCHANGED <<cmd, state, tail, size, end, fsize, shown, waste, rec, err>>

\* got_header() and journal_get_object_header(): the object header that the
\* header just loaded points at is read next, at 0 when it points nowhere.
journal_get_object_header(j) ==
    /\ ~ err
    /\ ch[j].st = "header"
    /\ ch' = [ch EXCEPT ![j] = [st |-> "tail_object", tail |-> tail[j], state |-> state[j]]]
    /\ UNCHANGED <<cmd, state, tail, size, end, fsize, shown, waste, rec, err>>

\* A read fails or is short, or fstat() fails.
ChainFails(j) ==
    /\ ~ err
    /\ ch[j].st \in {"header", "tail_object"}
    /\ err' = TRUE
    /\ UNCHANGED <<cmd, state, tail, size, end, fsize, ch, shown, waste, rec>>

\* Faulty variant: the padding behind the tail object is taken for waste.
EndOfTailUnaligned(j) == Plus(ch[j].tail, size[j][ch[j].tail])

\* The end of the tail object as the chain knows it.
EndOfTail(j) == Plus(ch[j].tail, ALIGN64(size[j][ch[j].tail]) % UINT)

\* Faulty variant: the difference the other way around.
WasteNowReversed(j) == Minus(EndOfTail(j), fsize[j])

\* sz - tail, sz being the size of the file by now.
WasteNow(j) == Minus(fsize[j], EndOfTail(j))

\* The chain's last callback: the closure runs, and the chain is over.
got_object_header(j) ==
    /\ ~ err
    /\ ch[j].st = "tail_object"
    /\ ch' = [ch EXCEPT ![j].st = "done"]
    /\ shown' = [shown EXCEPT ![j] = [sz |-> fsize[j], waste |-> WasteNow(j)]]
    /\ UNCHANGED <<cmd, state, tail, size, end, err>>

-----------------------------------------------------------------------------
\* Faulty variant: the total is taken over from the journal's state.
SummedByState(s, sz, w) ==
    [bytes |-> [waste.bytes EXCEPT ![s] = Plus(@, w)],
     total |-> Plus(waste.bytes[s], w),
     file_size |-> Plus(waste.file_size, sz),
     counts |-> [waste.counts EXCEPT ![s] = @ + 1],
     n_journals |-> waste.n_journals + 1]

\* The sums with a journal of state s added.
Summed(s, sz, w) ==
    [bytes |-> [waste.bytes EXCEPT ![s] = Plus(@, w)],
     total |-> Plus(waste.total, w),
     file_size |-> Plus(waste.file_size, sz),
     counts |-> [waste.counts EXCEPT ![s] = @ + 1],
     n_journals |-> waste.n_journals + 1]

\* print_tail_waste()
print_tail_waste(j) ==
    /\ cmd = "report"
    /\ got_object_header(j)
    /\ waste' = Summed(ch[j].state, fsize[j], WasteNow(j))
    /\ UNCHANGED <<fsize, rec>>

\* Faulty variant: a journal in any state is cut.
MayTruncateAny(j) == TRUE

\* journald is through with the journal, according to the header.
MayTruncate(j) == ch[j].state = "archived"

\* ftruncate() to the end of the tail object.
Truncate(j) == fsize' = [fsize EXCEPT ![j] = EndOfTail(j)]

\* reclaim_tail_waste(): nothing to cut, not to be cut, not cut, or cut.
reclaim_tail_waste(j) ==
    LET counted == [rec EXCEPT !.n_journals = @ + 1]
        w == WasteNow(j)
    IN  /\ cmd = "reclaim"
        /\ got_object_header(j)
        /\ \/ /\ w = 0
              /\ rec' = [counted EXCEPT !.n_mules = @ + 1]
              /\ UNCHANGED fsize
           \/ /\ w # 0 /\ ~ MayTruncate(j)
              /\ rec' = [counted EXCEPT !.n_ignored = @ + 1, !.ignored = Plus(@, w)]
              /\ UNCHANGED fsize
           \/ /\ w # 0 /\ MayTruncate(j)
              /\ rec' = [counted EXCEPT !.n_errored = @ + 1, !.errored = Plus(@, w)]
              /\ UNCHANGED fsize
           \/ /\ w # 0 /\ MayTruncate(j)
              /\ rec' = [counted EXCEPT !.n_reclaimed = @ + 1, !.reclaimed = Plus(@, w)]
              /\ Truncate(j)
        /\ UNCHANGED waste

-----------------------------------------------------------------------------
\* journald makes the file of a journal it writes to longer.
JournaldGrow(j) ==
    /\ state[j] = "online"
    /\ fsize[j] + 8 <= MaxEnd
    /\ fsize' = [fsize EXCEPT ![j] = @ + 8]
    /\ UNCHANGED <<cmd, state, tail, size, end, ch, shown, waste, rec, err>>

\* journald appends an object and then accounts for it in the header.
JournaldAppend(j, s) ==
    /\ state[j] = "online"
    /\ end[j] + ALIGN64(s) <= fsize[j]
    /\ size' = [size EXCEPT ![j][end[j]] = s]
    /\ tail' = [tail EXCEPT ![j] = end[j]]
    /\ end' = [end EXCEPT ![j] = @ + ALIGN64(s)]
    /\ UNCHANGED <<cmd, state, fsize, ch, shown, waste, rec, err>>

\* journald syncs the journal, resumes writing it, or archives it for good;
\* a journal has its hash tables by then, if nothing else.
JournaldSetState(j, s) ==
    /\ state[j] # "archived"
    /\ s = "archived" => tail[j] # 0
    /\ state' = [state EXCEPT ![j] = s]
    /\ UNCHANGED <<cmd, tail, size, end, fsize, ch, shown, waste, rec, err>>

Next ==
    \E j \in Journal :
       \/ per_journal_tail_waste(j)
       \/ journal_get_object_header(j)
       \/ ChainFails(j)
       \/ print_tail_waste(j)
       \/ reclaim_tail_waste(j)
       \/ JournaldGrow(j)
       \/ \E s \in Size : JournaldAppend(j, s)
       \/ \E s \in State : JournaldSetState(j, s)

Spec == Init /\ [][Next]_vars

-----------------------------------------------------------------------------
TypeOK ==
    /\ cmd \in Command
    /\ state \in [Journal -> State]
    /\ tail \in [Journal -> Offset]
    /\ size \in [Journal -> [Offset -> Size \cup {0, HeaderWord}]]
    /\ end \in [Journal -> Offset]
    /\ fsize \in [Journal -> Offset]
    /\ ch \in [Journal -> [st : {"idle", "header", "tail_object", "done"},
                           tail : Offset, state : State]]
    /\ shown \in [Journal -> [sz : Offset, waste : 0 .. UINT - 1]]
    /\ waste.bytes \in [State -> 0 .. UINT - 1] /\ waste.total \in 0 .. UINT - 1
    /\ err \in BOOLEAN

\* The journals whose closure has run.
Done == {j \in Journal : ch[j].st = "done"}

\* The waste of a journal with objects never wraps around, although the size
\* of the file is taken later than the header, and it begins no later than
\* the file's objects end.
WasteFits ==
    \A j \in Done : ch[j].tail # 0 =>
       shown[j].waste <= shown[j].sz /\ shown[j].sz - shown[j].waste <= end[j]

\* The waste of an archived journal is exact: from the end of its last object
\* to the end of the file, to the byte.
ArchivedWasteExact ==
    \A j \in Done : ch[j].state = "archived" => shown[j].sz - shown[j].waste = end[j]

\* The report's total is the sum of the journals' waste, and of the waste by
\* state, whatever order the journals' chains end in.
TotalsAreSums ==
    cmd = "report" =>
       /\ waste.total = SumFunctionOnSet([j \in Journal |-> shown[j].waste], Done) % UINT
       /\ waste.total = SumFunctionOnSet(waste.bytes, State) % UINT

\* No object is ever cut off: not one that was there when the journal's
\* header was read, and not one that journald appended since.
KeepsObjects == \A j \in Journal : end[j] <= fsize[j]
=============================================================================
