------------------------------ MODULE EntryArrays ------------------------------
(***************************************************************************)
(* "jio report entry-arrays" (src/report-entry-arrays.c): the payload of   *)
(* every entry array is read, and equal payloads are counted together in   *)
(* the journal's profile.  At the end of a journal its statistics, by size *)
(* class, are printed and added to the totals of all journals.             *)
(*                                                                         *)
(* A payload is its size and the items in use: journald fills an array in  *)
(* place, from the front, so what a read finds in it is any filling.       *)
(* Payloads stand for their SHA-1 digests.                                 *)
(***************************************************************************)
EXTENDS Ring, FiniteSetsExt, SequencesExt

CONSTANTS OBJECT_ENTRY_ARRAY,
          ItemsOffset,      \* of the items in an entry array object
          Item,             \* items in use
          Classes           \* classes of sizes by their logarithm (64 of them)

ASSUME ArraysAssumption ==
    /\ OBJECT_ENTRY_ARRAY \in Type \ {OBJECT_UNUSED}
    /\ ItemsOffset \in Nat /\ Classes \in Nat
    /\ \A s \in Size : s > ItemsOffset /\ s < 2^Classes

VARIABLES profile,   \* per journal: its arrays, and the count of each payload
          stats,     \* per journal: what was printed at its end
          totals     \* of all journals

arraysVars == <<profile, stats, totals>>

Class == 0 .. Classes - 1
Zeroes == [c \in Class |-> 0]

\* Per size class: log2_size_counts, log2_size_bytes, log2_size_utilized.
NoStats ==
    [count |-> 0, unique |-> 0, total |-> Zeroes, distinct |-> Zeroes,
     bytes |-> Zeroes, unique_bytes |-> Zeroes, space |-> Zeroes, utilized |-> Zeroes]

PerClass == {"total", "distinct", "bytes", "unique_bytes", "space", "utilized"}

ArraysInit ==
    /\ profile = [j \in Journal |-> [reading |-> FALSE, count |-> 0, ea |-> <<>>]]
    /\ stats = [j \in Journal |-> NoStats]
    /\ totals = NoStats

-----------------------------------------------------------------------------
payload_size(object) == object.size - ItemsOffset

\* What an array of this size may hold.
Payloads(size) == {[size |-> size, items |-> s] : s \in SeqOf(Item, size \div 8)}

\* Faulty variant: every array is taken for a new one.
per_entry_array_payload_fresh(ea, p) ==
    [q \in DOMAIN ea \cup {p} |-> IF q = p THEN 1 ELSE ea[q]]

\* per_entry_array_payload(): a payload met before is counted, or it becomes
\* a new entry of the table ea.
per_entry_array_payload(ea, p) ==
    [q \in DOMAIN ea \cup {p} |-> IF q \notin DOMAIN ea THEN 1
                                 ELSE IF q = p THEN ea[q] + 1 ELSE ea[q]]

\* Faulty variant: rounded up.
u64log2_up(n) == CHOOSE k \in Class : 2^k >= n /\ (k = 0 \/ 2^(k - 1) < n)

\* The position of the highest bit.
u64log2(n) == IF n > 1 THEN CHOOSE k \in Class : 2^k <= n /\ n < 2^(k + 1) ELSE 0

\* The sum of f over the payloads of the table ea that are in class c.
SumClass(ea, c, f) ==
    SumFunctionOnSet(f, {p \in DOMAIN ea : u64log2(p.size) = c})

\* The possible statistics of a profile.  The bytes of a class are assigned,
\* not added to: they are those of the class's last payload in the table, in
\* which payloads are in no particular order.
Stats(pr) ==
    LET ea == pr.ea
        Lasts == {last \in [{u64log2(p.size) : p \in DOMAIN ea} -> DOMAIN ea] :
                    \A c \in DOMAIN last : u64log2(last[c].size) = c}
    IN  {[count |-> pr.count, unique |-> Cardinality(DOMAIN ea),
          total |-> [c \in Class |-> SumClass(ea, c, ea)],
          distinct |-> [c \in Class |-> SumClass(ea, c, [p \in DOMAIN ea |-> 1])],
          bytes |-> [c \in Class |-> IF c \in DOMAIN last
                                     THEN last[c].size * ea[last[c]] ELSE 0],
          unique_bytes |-> [c \in Class |-> IF c \in DOMAIN last THEN last[c].size ELSE 0],
          space |-> [c \in Class |-> SumClass(ea, c, [p \in DOMAIN ea |-> p.size * ea[p]])],
          utilized |-> [c \in Class |-> SumClass(ea, c, [p \in DOMAIN ea |-> 8 * Len(p.items) * ea[p]])]] :
         last \in Lasts}

\* Faulty variant: a slip in one of the eight lines, the digests of a class.
add_stats_swapped(dest, src) ==
    [f \in DOMAIN dest |-> IF f \notin PerClass THEN dest[f] + src[f]
                           ELSE IF f = "distinct"
                           THEN [c \in Class |-> dest[f][c] + src.total[c]]
                           ELSE [c \in Class |-> dest[f][c] + src[f][c]]]

\* add_stats(): field by field, and class by class.
add_stats(dest, src) ==
    [f \in DOMAIN dest |-> IF f \notin PerClass THEN dest[f] + src[f]
                           ELSE [c \in Class |-> dest[f][c] + src[f][c]]]

\* journal_iter_next_object() was called with the journal's profile at pr: at
\* the end of the journal per_object() prints and adds up.
Profiled(j, pr) ==
    /\ profile' = [profile EXCEPT ![j] = pr]
    /\ IF it'[j].st = "done"
       THEN \E s \in Stats(pr) : /\ stats' = [stats EXCEPT ![j] = s]
                                 /\ totals' = add_stats(totals, s)
       ELSE UNCHANGED <<stats, totals>>

ArraysGotHeader(j) == got_header(j) /\ Profiled(j, profile[j])

\* per_object(): other objects are passed over, an array's payload is read.
arrays_object(j) ==
    /\ ~ err
    /\ it[j].st = "reading"
    /\ ~ profile[j].reading
    /\ IF at[j][it[j].offset].type = OBJECT_ENTRY_ARRAY
       THEN /\ profile' = [profile EXCEPT ![j].reading = TRUE, ![j].count = @ + 1]
            /\ UNCHANGED <<stats, totals>> /\ UNCHANGED vars
            /\ Dispatch(j, 1)
       ELSE /\ got_iter_object_header(j) /\ Profiled(j, profile[j])
            /\ Dispatch(j, NextRead(j))

\* The payload has arrived, and the iteration goes on.
ArraysGotPayload(j) ==
    /\ profile[j].reading
    /\ got_iter_object_header(j)
    /\ \E p \in Payloads(payload_size(at[j][it[j].offset])) :
          Profiled(j, [profile[j] EXCEPT !.reading = FALSE,
                                         !.ea = per_entry_array_payload(@, p)])

\* The callbacks of j, and the failure of a read or an allocation.
ArraysCallback(j) ==
    \/ journal_get_header(j) /\ Dispatch(j, 1) /\ UNCHANGED arraysVars
    \/ ArraysGotHeader(j) /\ Dispatch(j, NextRead(j))
    \/ arrays_object(j)
    \/ ArraysGotPayload(j) /\ Dispatch(j, NextRead(j))
    \/ ReadFails(j) /\ Dispatch(j, 0) /\ UNCHANGED arraysVars

-----------------------------------------------------------------------------
\* The arrays among the objects that the iteration of j has to deliver, with
\* payloads between 2^c and 2^(c + 1) bytes.
ArraysOf(j, c) ==
    {o \in Expected(j) : /\ at[j][o].type = OBJECT_ENTRY_ARRAY
                         /\ 2^c <= payload_size(at[j][o])
                         /\ payload_size(at[j][o]) < 2^(c + 1)}

\* What is printed for a journal accounts for each of its entry arrays, and
\* the space it takes, in its own size class, however the arrays were filled
\* while they were read; no more of it is in use than there is, and no more
\* payloads are told apart than there are arrays.
ArraysAccounted ==
    \A j \in Journal : it[j].st = "done" =>
       /\ \A c \in Class :
             /\ stats[j].total[c] = Cardinality(ArraysOf(j, c))
             /\ stats[j].space[c] =
                   SumFunctionOnSet([o \in Offset |-> payload_size(at[j][o])], ArraysOf(j, c))
             /\ stats[j].utilized[c] <= stats[j].space[c]
             /\ stats[j].distinct[c] <= stats[j].total[c]
       /\ stats[j].count = SumFunction(stats[j].total)
       /\ stats[j].unique = SumFunction(stats[j].distinct)

\* The totals are the sums of what was printed for the journals so far, each
\* of the eight numbers by itself and in each size class, in whatever order
\* the journals come to their ends.
TotalsAddUp ==
    /\ totals.count = SumFunction([j \in Journal |-> stats[j].count])
    /\ totals.unique = SumFunction([j \in Journal |-> stats[j].unique])
    /\ \A f \in PerClass, c \in Class :
          totals[f][c] = SumFunction([j \in Journal |-> stats[j][f][c]])
=============================================================================
