------------------------------ MODULE ReportUsage ------------------------------
(***************************************************************************)
(* "jio report usage" (src/report-usage.c): every journal's objects are    *)
(* iterated concurrently, and the closure of each iteration adds to the    *)
(* usage of its journal and to the totals they all share.                  *)
(***************************************************************************)
EXTENDS Ring, FiniteSetsExt

VARIABLES usage,       \* foo->usage: per type, the objects and their bytes; all bytes
          total,       \* aggregate_usage
          file_size,   \* aggregate_usage.file_size
          n_journals

usageVars == <<usage, total, file_size, n_journals>>

NoUsage == [count |-> [t \in Type |-> 0], use |-> [t \in Type |-> 0], use_total |-> 0]

UsageInit ==
    /\ usage = [j \in Journal |-> NoUsage]
    /\ total = NoUsage
    /\ file_size = 0
    /\ n_journals = 0

\* A usage u with an object added n times.
Counted(u, object, n) ==
    [count |-> [u.count EXCEPT ![object.type] = @ + n],
     use |-> [u.use EXCEPT ![object.type] = @ + n * object.size],
     use_total |-> u.use_total + n * object.size]

\* Faulty variant: the journal's usage, not the object, goes to the totals.
per_data_object_resummed(j, object, n) ==
    /\ usage' = [usage EXCEPT ![j] = Counted(@, object, n)]
    /\ total' = IF n = 0 THEN total ELSE Counted(usage[j], object, n)

\* per_data_object(), run n times: it does not look at *iter_offset.
per_data_object(j, object, n) ==
    /\ usage' = [usage EXCEPT ![j] = Counted(@, object, n)]
    /\ total' = Counted(total, object, n)

\* per_journal(): the file is sized up and its header read.  Files are
\* preallocated: the size is taken to be MaxEnd.
per_journal(j) ==
    /\ journal_get_header(j)
    /\ file_size' = file_size + MaxEnd
    /\ n_journals' = n_journals + 1
    /\ UNCHANGED <<usage, total>>

\* per_journal(), fstat() failing.
FstatFails(j) ==
    /\ ~ err
    /\ it[j].st = "idle"
    /\ err' = TRUE
    /\ UNCHANGED <<starts, at, end, tail, intact, it, seen>>
    /\ UNCHANGED usageVars

\* The steps of the iteration, with the closure they run: at the end of the
\* journal it runs once more, with the object header of the last object.
UsageGotHeader(j) ==
    /\ got_header(j)
    /\ per_data_object(j, it[j].object, IF it'[j].st = "done" THEN 1 ELSE 0)
    /\ UNCHANGED <<file_size, n_journals>>
UsageGotObject(j) ==
    /\ got_iter_object_header(j)
    /\ per_data_object(j, it'[j].object, IF it'[j].st = "done" THEN 2 ELSE 1)
    /\ UNCHANGED <<file_size, n_journals>>

UsageCallback(j) ==
    \/ per_journal(j) /\ Dispatch(j, 1)
    \/ FstatFails(j) /\ Dispatch(j, 0)
    \/ UsageGotHeader(j) /\ Dispatch(j, NextRead(j))
    \/ UsageGotObject(j) /\ Dispatch(j, NextRead(j))
    \/ ReadFails(j) /\ Dispatch(j, 0) /\ UNCHANGED usageVars

-----------------------------------------------------------------------------
\* The objects of type t that j's iteration delivers.
Delivered(j, t) == {o \in Expected(j) : at[j][o].type = t}

\* The object header the closure finds when it runs for the end.
LastObject(j) ==
    IF Expected(j) = {} THEN Blank ELSE at[j][Max(Expected(j))]

\* The totals are the sums of the journals' usages after every callback, and
\* the aggregate usage, which is counted by itself, is the sum of the bytes of
\* all types, in whatever order the journals' objects arrive.
TotalIsSum ==
    /\ \A t \in Type :
          /\ total.count[t] = SumFunction([j \in Journal |-> usage[j].count[t]])
          /\ total.use[t] = SumFunction([j \in Journal |-> usage[j].use[t]])
    /\ total.use_total = SumFunction([j \in Journal |-> usage[j].use_total])
    /\ total.use_total = SumFunction(total.use)

\* What is counted for a journal in the end: its objects as of its header,
\* and the last one again, whatever journald appended meanwhile.
UsageIsObjectsAndLast ==
    \A j \in Journal, t \in Type : it[j].st = "done" =>
       /\ usage[j].count[t] = Cardinality(Delivered(j, t))
                              + (IF LastObject(j).type = t THEN 1 ELSE 0)
       /\ usage[j].use[t] = SumFunctionOnSet([o \in Offset |-> at[j][o].size], Delivered(j, t))
                            + (IF LastObject(j).type = t THEN LastObject(j).size ELSE 0)

\* The counts of a journal with objects are those of its objects: the closure
\* leaves the final dispatch, with *iter_offset 0, out of account, as the
\* iterator's contract says it should.
UsageCountsObjects ==
    \A j \in Journal, t \in Type : it[j].st = "done" /\ Expected(j) # {} =>
       usage[j].count[t] = Cardinality(Delivered(j, t))
=============================================================================
