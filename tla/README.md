# A verification of jio

jio is a tool for systemd-journald's journal files. It opens the machine's
journals and walks their objects with asynchronous reads, through libiou (a
wrapper of io_uring), in closures built with thunk.h. This directory holds TLA+
modules of its core, TLC configurations that check them on small instances, and
TLAPS proofs about them. Paths are relative to the repository; `src/journals.c`
stands for the file in its `src/` directory.

## Inventory

One thread runs `iou_run()`, which waits for completions and dispatches each
one's closure. Closures queue further operations. Nothing locks anything: what
is concurrent is the interleaving of the journals' chains of closures, the
kernel's reads, and journald, another process that writes the same files. A
closure that returns a negative number ends `iou_run()` and with it the command.

| part | state | operations | makes it correct |
|---|---|---|---|
| read buffers, `src/journals.c` | 8 buffers per journal, `valid`/`offset`/`length`, an LRU list threaded through them | `journal_read`, `buf_got_read`, `buf_used` | a closure finds the range it asked for, as journald wrote it; the list stays a list and evicts the least recently used |
| object iteration, `src/journals.c` | header, `iter_offset`, `iter_object_header` per journal | `journal_get_header`, `journal_iter_objects`, `journal_iter_next_object` | every object the header knows of is delivered once, then the end; it ends |
| hash table iteration, `src/journals.c` | loaded table, `iter_bucket`, `iter_offset` | `journal_get_hash_table`, `journal_hash_table_for_each` | every object the table leads to is delivered once; it ends |
| opening, `src/journals.c`, `src/machid.c`, `src/readfile.c` | `journals_t` | `machid_get`, `journals_open`, `get_journals`, `opened_journal`, `journals_for_each` | the command sees every journal that can be opened, once, with its own file |
| object loading, `src/journals.c` | none | `journal_get_object_header`, `journal_get_object`, `journal_get_object_full` | the object asked for is loaded whole |
| report usage | usage per journal and total | `per_journal`, `per_data_object` | counts and sizes are those of the objects |
| report layout | one output file per journal | `per_journal`, `per_data_object` | a mark per object in order, from which its place can be told; the file is closed at the end |
| report tail-waste | waste per journal state | `per_journal_tail_waste`, `print_tail_waste` | size minus end of the tail object, percentages up to 100 |
| reclaim tail-waste | as above, and the file | `reclaim_tail_waste` | never cuts off an object; disabled in this commit |
| report entry-arrays | per journal a table of payloads, statistics by size class; totals | `per_object`, `per_entry_array_payload`, `add_stats` | every array is in the statistics of its class; totals are sums |
| verify hashed-objects | per-journal object buffer, worker thread | `per_object`, `per_hashed_object`, `verify_hashed_object` | each object verified once with its own payload before its buffer is reused |
| humane numbers, boot id | the text in its buffer | `humane_bytes`, `bootid_get`, `dehyphen` | the number printed is the number given; the text is what was read without its hyphens |
| command line, `src/jio.c` | none | `main` | the exit status tells whether the command went through |
| upstream | none | lookup3, siphash24, file format | copied from systemd |

How they meet: `jio.c` starts one command; the command gets the machine id, then
`journals_open()`, then `journals_for_each()` runs the command's `per_journal`
for each open file, and that starts a chain of closures per journal that only
meets the others in totals and in `iou_run()`. All reads go through
`journal_read()`.

What is hard, and what `PROJECT.json` lists line by line as hazards: buffers
filled with bytes journald writes later; short and failed reads into a buffer
already taken over; the hand-written list; iterations over files that grow;
zero-sized objects; the extra dispatch at the end of an iteration; opens that
complete in any order, or are refused; files that come and go between two
passes over a directory; unsigned arithmetic on sizes taken at different times;
a worker thread with pointers into an iteration's state; buffers used again for
objects of other sizes; a failure in one journal's chain while the others are at
their ends; roundings at the edges of units and percentages.

## Plan

The order is by how much rests on a part. Done in this version:

1. `BufLru`, `LruPool`, `JournalRead` and their proofs: everything reads through
   them.
2. `ObjectIter` and its proofs: every command iterates but the two about
   tail-waste.
3. `ReportUsage`, which composes `ObjectIter` with a command's closures.
4. `HashTableIter`.
5. `JournalsOpen`, with `machid` and `readfile`.
6. `TailWaste`: `report-tail-waste.c` and the callbacks of
   `reclaim-tail-waste.c`, with `journal_get_object_header()`.
7. `ReportLayout`, `EntryArrays` and `VerifyHashed`: the closures of the other
   commands over `ObjectIter`.
8. `Ring`, `Jio` and its proofs: `main()` and the four commands that iterate
   objects, with what `iou_run()` waits for.
9. `Text`: numbers, percentages and the boot id against references.
10. Proofs about the rest: that `JournalRead` implements `LruPool`;
    `JournalsOpen`, `HashTableIter` and `TailWaste`; what the four commands
    report.
11. `Iterations`, the abstract specification of what an iteration promises, with
    the proofs that `ObjectIter`, `HashTableIter` and `Jio` implement it.
12. Proofs about `Text`.

To come:

13. Compositions: `ObjectIter` reading through `JournalRead`; `JournalsOpen`, and
    the commands about tail-waste, in `Jio`.
14. Sizes of objects that no journald wrote, with arithmetic at machine width.

## Modules

`BufLru` is the list of buffers as a value `[head, tail, prev, next]`, with
`buf_used()` as the operator that moves a buffer to its tail, pointer by
pointer. No actions.

`LruPool` is the abstract specification of the buffers: an order and a set of
buffers that hold something. A use moves a buffer to the end, only the first in
order is given up, only the one given up last is filled.

`JournalRead` (extends `BufLru`) is one journal's reads. `ReadHit`, `ReadMiss`
and `ReadUnbuffered` are the three ways through `journal_read()`, each with the
failing allocation of the operation; `KernelRead` (external) completes the
operation with all, some or none of the units or an error; `buf_got_read` is
the completion. `JournaldGrow` and `JournaldAppend` (external) change the file at
any time. File data is counted in units; a unit in memory remembers where it
came from and whether journald had written it, which is all the properties
tell apart. The refinement mapping to `LruPool` reads the order off the forward
pointers and takes the valid buffers as the held ones.

Its reader asks for the header first and once, then for ranges inside what that
header says is written, one read at a time. This is how every command in jio
goes about it: a journal's next read is issued by the closure of the previous
one. `AsksByFileSize` shows that it matters: a reader that went by the size of
the file would be served stale bytes from the buffers.

`ObjectIter` is the iteration of the objects of several journals. Offsets and
sizes are real byte counts, aligned by `ALIGN64`. `journal_get_header`,
`got_header` and `got_iter_object_header` are the callbacks, each with the
dispatch and the call of `journal_iter_next_object()` it leads to (`Continue`);
`IterAgain` is the restart that the comment on `journal_iter_next_object()`
offers (no command uses it); `ReadFails` stands for everything `JournalRead` says
can go wrong with a read. journald appends, and a machine that went down may
leave one object of a file as zeroes (`Lose`), the corruption the code guards
against.

`Iterations` is the abstract specification of an iteration, without files or
reads: when it begins, what it will deliver is settled; each thing is then
delivered once, in an order if there is one; it ends with the last, or stops.
`ObjectIter` and `HashTableIter` map to it. What an iteration of objects has
still to deliver is read off the loaded header: the objects from `iter_offset` up
to the tail it names, as far as the first that reads as zero-sized, in the order
of their offsets. That of a hash table is what the loaded table leads to and has
not been delivered, without an order. Reading a header that knows of no object
begins an iteration and ends it at once; journald's appends and failing reads are
steps that the abstract iterations do not see.

`Ring` (external) is what `iou_run()` waits for: per journal, the number of
operations its chain of closures has queued, or jobs it has given to a worker,
that are outstanding. A closure is dispatched for one of them and queues others,
or none (`Dispatch`); `journal_iter_next_object()` queues a read unless the
journal is at its end (`NextRead`). It knows nothing of journals' ends: a closure
that forgets to go on leaves nothing outstanding, and `iou_run()` is then through.

`ReportUsage`, `ReportLayout`, `EntryArrays` and `VerifyHashed` extend
`ObjectIter`, with `Ring`, by the closures of a command each. A command's callbacks of one
journal are one action (`UsageCallback`, `LayoutCallback`, ...): every step of
the iteration is conjoined with the dispatches of the closure it makes, the
final one included.

`ReportUsage` adds up per journal and in totals that all journals share: objects
and bytes by type, and all bytes once more by themselves (`use_total`).
`ReportLayout` writes one mark per object; a mark is a record of what is printed.
Places for the marks `Tell` the objects when they are where a reader of the
marks alone would put them, one behind the other, and name each object once.
`EntryArrays` passes over other objects and reads the payload of each entry
array, between two steps of the iteration (`reading`). journald fills arrays in
place, so a payload is any filling of the array's size. The sizes of a class are
assigned where its counts are added up, and the table is in no particular order:
the size that stays is any of the class (`Stats`).

`VerifyHashed` drives the iteration itself: its closure calls
`journal_iter_next_object()` once it is through with an object (`Resume`). An
object is loaded into a buffer that grows (`Grown`), small ones are verified in
the callback, larger ones are handed to a worker thread (`Handoff`,
`WorkerVerifies`, `WorkerDone`), during which the other journals go on. A field's
payload starts at another offset than a data object's (`hashed_payload_size`). The
worker may still be running when another journal's callback has failed.

`Jio` composes the four. `main` chooses a command or exits at once, `Callback(j)`
is any callback of the command for journal `j`, `Environment` is journald, and
`main_returns` is the exit: with a failure as soon as a closure has failed,
otherwise when nothing is outstanding, wherever the iterations are then. That they
are at their ends is what `SuccessIsComplete` says, and not a condition of
returning. The properties of a closure are stated there for the
command they belong to (`UsageReported`, `LayoutReported`, `ArraysReported`,
`HashedVerified`).

`Text` is one call of `humane_bytes()`, of the percentages of `report tail-waste`,
or of `bootid_get()` once the file is read. `humane_bytes()` includes the rounding
of integers to doubles and of doubles to two decimals; `dehyphen()` goes character
by character over the buffer it reads and writes.

`TailWaste` is both commands about the space behind a journal's last object. The
header, the tail object's header and the size of the file are taken at three
moments, and journald writes in between; sums and differences are modulo `UINT`,
which stands for 2^64. `print_tail_waste` and `reclaim_tail_waste` are the two
closures at the end of the chain, each together with the callback that runs it.
A journal that has no object yet is included: its header is then read as an
object header, of which `HeaderWord` is the size. `jio_reclaim_tail_waste()` is
disabled in this version by a return at its start; the model shows what its
callbacks do once that return is removed.

`HashTableIter` loads a table and follows its chains. An object is its offset;
journald links objects into chains meanwhile.

`JournalsOpen` goes from reading `/etc/machine-id` to the command's closure for
each journal. The directory changes at any time. Files are their names, and a
descriptor is the name of the file it was opened on, so that registering the
wrong file under an index would show. `get_journals_list` is the whole second
pass: `Stored` are the entries that are stored before the assertion stops the
program, one beyond the allocation among them when there are too many.

Theorems are in `JournalRead_proofs` (with the lemmas about `BufLru`),
`ObjectIter_proofs`, `Reports_proofs` (`Jio` and its four closures),
`HashTableIter_proofs`, `JournalsOpen_proofs`, `TailWaste_proofs` and
`Text_proofs`. `SumLemmas` has what they share about sums over finite sets,
powers of two, division, and multiples of a number in an interval.

The `MC...` modules and `.cfg` files are the instances for TLC. Definitions
marked "Faulty variant" in the modules are plausible mistakes, one per property:
with the definition next to it replaced by the variant, TLC finds the property
violated. They are used nowhere else.

## Runs

| run | instance | checks |
|---|---|---|
| `read` | 3 buffers of 2 units, a file of 5, reads of up to 3 | types; `LruWellLinked`, `BuffersHoldFile`, `ReadDelivers`, `ReadsWrittenData`, `LastReadStaysCached`, `ReadCompletes`; implements `LruPool` |
| `objects` | 2 journals of up to 4 objects, sizes 16 and 17 | types, `ReadsObjects`, `IterationComplete`, `IterationEnds`; implements `Iterations` |
| `commands` | 2 journals of up to 2 objects of 2 types, sizes 24 and 31, each of the four commands | `TotalIsSum`, `UsageReported`, `LayoutReported`, `ArraysReported`, `TotalsAddUp`, `SuccessIsComplete`, `CommandEnds` |
| `verify` | the same with 3 types, two of them hashed, `verify hashed-objects` alone | `WorkerOwnsObject`, `LoadsFit`, `HashedVerified` |
| `usage_end` | the same, `report usage` | `UsageCountsObjects`, violated |
| `tail_waste` | 2 journals, files of up to 32 bytes, sizes 8 and 13, `UINT` 128, both commands | types, `WasteFits`, `ArchivedWasteExact`, `TotalsAreSums`, `KeepsObjects` |
| `hash` | 3 buckets, 4 objects | `ChainsComplete`, `IterationEnds`; implements `Iterations` |
| `hash_whole` | the same | `IteratesWholeTable`, violated |
| `hash_again` | the same | `RecursAfterEnd`, violated |
| `open` | 3 journals and a dot file | types, `OverrunIsFatal`, `VisitsAfterAllOpened`, `IdxNamesOwnFile`, `OpenEnds` |
| `open_race` | the same | `NeverAborts`, violated |
| `text` | integers of 13 bits, doubles of 11, 7 units of 4; every part of totals about 100, 200 and 10000; texts of up to 6 characters | `HumaneTells`, `PercentClose`, `BootIdBare` |

Why the bounds are enough. Three buffers give `buf_used()` a head, a middle and
a tail; a file of five units is more than two buffers hold, so buffers are given
up and ranges straddle them, and reads of three are longer than a buffer. Sizes
16 and 17 are one that needs no padding and one that does; two journals
interleave, and share only totals. Four objects over three buckets give chains
of two and more, empty buckets between full ones, and chains that grow behind
the loaded table. With three journals the last open to complete may be any, and
refused ones may lie before, between or after opened ones. `TailWaste`'s sizes are
scaled down, with a padded and an unpadded one; `UINT` is small enough for an
empty journal's difference to wrap, and larger than any file. In `commands` and
`verify` one size is padded and one is not; one is above `SmallSize`, so that
objects are verified in both places, and the buffer grows after it has been used;
with pages of 16 bytes an object spans one boundary or two, or ends on one. With
items from byte 20 on, the arrays of 24 and 31 bytes have payloads of 4 and 11
bytes, in size classes 2 and 3: two arrays are of one class or of two, with equal
payloads or not. `verify` has fields, data objects and others, whose payloads
start at bytes 16 and 20, and payloads that decompress to 40 bytes; `commands`
has data objects and arrays, none of them compressed. One journal may fail, be
empty or at its end while the other is anywhere. `Text` keeps the proportions of the code, where 64 bits are
six units of 10 bits and part of a seventh, and a double rounds the numbers of
the last ones; `TextAssumption` says which proportions matter. The proofs lift
the bounds everywhere, for safety only.

`OpenEnds` says that opening comes to an end, and a failure is one: that a journal
vacuumed before its open completes fails the whole command is in the model, and no
property is about it, because nothing in the repository promises otherwise.

Deadlock is not checked where a run may stop: a command ends when its chains do
or a callback has failed. In `open` journald never stops, so it is.

### Fairness

Weak fairness of the kernel completing what was queued and of `iou_run()`
dispatching what has completed: `iou_run()` loops until nothing is outstanding,
and io_uring completes every operation it accepts, with an error if need be.
Nothing is assumed of journald: it may append forever or never. Allocations and
reads may fail; liveness says "or the run has failed". The start of an
iteration (`journal_get_header`) and a restart are not assumed to happen in
`ObjectIter`. In `Jio` every journal's callbacks are weakly fair, the first one
included, because `journals_for_each()` starts every journal's chain before
`iou_run()` goes on; and so are the worker threads, which do a bounded amount of
work, and the exit once `iou_run()` has returned. `CommandEnds` needs no more
than that.

### Findings

- `report usage` counts every journal's last object twice (`usage_end`): its
  closure does not look at `*iter_offset`, which the iterator's comment says it
  should, and the final dispatch still has the last object's header. A journal
  without objects has an UNUSED object counted.
- The hash table iteration never delivers bucket 0 (`hash_whole`), and aborts
  when it is continued after its end (`hash_again`); its comments promise both.
  No command uses it yet.
- A file created between the two passes over the journal directory fails an
  assertion (`open_race`); the comment there says it should be handled. It also
  says that the assertion defends against the race, but the entry is stored
  beyond the allocation before it is reached: in the states of the run that are
  aborted, `name` has one entry more than `n_allocated`. What does hold is that it
  goes no further (`OverrunIsFatal`).

One thing is in the model and no run states it: `report entry-arrays` prints the
sizes of a size class from variables that are assigned for every payload of the
class (lines 236 and 237), so they are those of one payload, where the legend and
the lines next to it are about all of them. `Stats` does what the code does.

## Proofs

Every safety property that a passing run checks is a theorem for all values of
the constants; so are the refinements of `LruPool` and `Iterations`.

### Reads

`JournalRead_proofs` proves of `JournalRead`'s `Spec`, for every number and size
of buffers and every size of file: `TypeCorrect`; `ReadsAreRight`
(`ReadDelivers`, `BuffersHoldFile`); `ReadsAreFresh` (`ReadsWrittenData`);
`LruIsRight` (`LruWellLinked`, `LastReadStaysCached`); `ImplementsLruPool`
(`RefinesLruPool`).

None of the invariants is inductive. What is proved inductive adds: `FlightInv`,
that the buffer of a read in flight is the tail of the list and not valid, that
its length fits and that a completed read's memory holds the file from the
range's start as far as the result says; `FreshInv`, that what a valid buffer, or
memory just loaded, holds below `limit` was written when it was read. `limit`
never exceeds what journald has written, and the header is read alone before
anything else, so what a later read asks for was written before that read's
buffer was filled, whatever lies beyond it in the buffer; and `GotInv`, that the
range of a finished read lies within the limit. The module begins with the lemmas
about the list: it starts well linked, and `buf_used()` keeps it so and makes its
argument the tail, by giving the new numbering of the buffers.

For the refinement, the order that the mapping walks along the forward pointers
is shown to be the numbering that `LruWellLinked` promises (`OrderIsRank`), and
`buf_used()` to be `MovedToEnd` on it (`UseMovesToEnd`). A hit is then `Use`, a
miss is `GiveUp`, and the completion of a buffered read is `Fill`, because
`FlightInv` says that its buffer is the tail and empty; every other step
stutters.

### Iterations

`ObjectIter_proofs` proves, for any journals, objects and sizes,
`IterationStaysOnObjects` (`ReadsObjects` and the types) and `IterationIsExact`
(`IterationComplete`). The invariant adds `Layout`, how objects follow each
other up to `end`, with `tail` the last of them; `Snapshot`, that the tail an
iteration goes by is 0 or an object's start; and `Progress`, that an iteration
has delivered once exactly the expected objects below its offset. The heart is
`NextObject`: from an object with a non-zero size, `NextOffset` is the next
object's start, or 0 when the object was the tail.

`HashTableIter_proofs` proves `DeliversOnce` (`DeliversKnownOnce`),
`ChainsAreComplete` (`ChainsComplete`) and `HeaderIsNeverRead`
(`NeverReadsHeader`), for any table and whatever journald links meanwhile
(the run `hash` checks only the second of them: the first follows from the
refinement, and the third is proved alone). The invariant says that some `rank`
numbers each bucket's objects along its chain (`Chained`), that the loaded
table's heads are still the file's and its known objects those up to the tails it
had (`TableKnows`), and that exactly the known objects with a smaller bucket, or
in the same one with a smaller rank, have been delivered (`Progress`). A link that journald adds gets the next rank, behind
every tail the table knows, which is why the iteration does not notice it.

`ImplementsIterations` and `TableImplementsIterations` prove that both
implement `Iterations` (`RefinesIterations`). Under the invariants above, a step
that dispatches the closure for an object is `Deliver` of it: it is among those
still to be delivered, none of them lies before it, and what is left is what
`NextObject`, or the chain's next `rank`, leads to. Loading a header, or going to
a loaded table's first object, is `Begin`, and an end at once if there is nothing
to deliver. Everything else stutters: an append changes neither the objects at
or below a loaded tail nor the known ones (`AppendStays`), and a failing read
stops the run. The closure's last run, at the end, is no delivery; it shows in
`IterationComplete`.

### Opening

`JournalsOpen_proofs` proves `OverrunStops` (`OverrunIsFatal` and the types),
`VisitsComeLast` (`VisitsAfterAllOpened`) and `ReadsOwnFile` (`IdxNamesOwnFile`),
for any finite set of names and whatever comes and goes in the directory. The invariant counts:
what is opened and what is pending make up `n_journals` (`OpensCounted`), so when
the count is reached nothing is pending, which `Handed` relies on; and a
descriptor is that of the name under its index, a refusal, or not yet there.

### Commands

`Reports_proofs` proves of `JioSpec`, for any set of journals and any interleaving
of callbacks, workers and journald: `WorkerKeepsObject` (`WorkerOwnsObject`,
`LoadsFit`) and `SuccessMeansComplete` (`SuccessIsComplete`). The invariant
`JInv` is that of the iteration with four parts more: the types of the closures;
`Busy`, that a closure with an object belongs to the command that verifies, that
its journal's iteration is on that object, and that the buffer has room for it
and, once loaded, holds it; `Chained`, that as long as nothing has failed a
journal's chain has one operation outstanding until the journal is at its end, and
none then; and `Finished`, that success was only come by at the end of every
journal. `Chained` is what carries `SuccessMeansComplete`: for each closure of the
four commands it is shown to queue the next operation exactly if the iteration it
leaves behind is not done (`CallbackChains`), so that nothing outstanding means
everything done. `WorkerOwnsObject` alone is not inductive: what a worker is
given is what was loaded before, where the iteration stood then. That journald
changes no object an iteration may be on comes from the iteration's invariant
(`EnvironmentKeeps`). That a journal at its end had its closure run once for the
end, of which `SuccessIsComplete` speaks, is `IterationComplete`. Each command's
callbacks are shown to do to the iteration no more than its own steps do
(`CallbackMoves`), so what `ObjectIter_proofs` proves holds under every command,
the refinement included (`JioImplementsIterations`).

It then proves what the commands come to at a journal's
end: `UsageIsRight` (`TotalIsSum`, `UsageReported`), `LayoutIsRight`
(`LayoutReported`), `VerifyIsComplete` (`HashedVerified`) and `ArraysAreRight`
(`TotalsAddUp`, `ArraysReported`). Those properties speak of the end only; the
invariant `RInv` says what has been counted in every state: the number of, and
the sum over, the objects that the iteration has passed (`Passed`).

- `UsageInv`: the usage of a journal is that of the objects passed, and of the
  last one once more at the end (see the findings).
- `VerifyInv`: the same of the hashed objects, each with the payload of its type,
  where one that has been verified counts before the iteration leaves it.
- `ArraysInv`: the table of payloads accounts for the arrays passed, class by
  class (`Accounts`); the totals are, number by number and class by class, the sums
  of what was printed (`TotalsGrow`); the table's count is the sum of the classes'
  counts and of the read that is out (`Profile`); and nothing is in the statistics
  before the end.
- `LayoutInv`: the marks printed have places, one behind the other from the
  header on, which are the objects passed in their order, and the iteration is
  at the place behind the last. The page boundaries printed with a mark are
  those inside its object (`BoundariesInside`).

The community modules define sums by a recursive function and the library proves
facts about such by induction theorems that no installed prover can instantiate.
`SumLemmas` goes another way: of the sets, or numbers, for which a lemma fails it
takes one of the least cardinality, or the least, and shows that a smaller one
fails too. That gives what a sum over a finite set becomes when one term is
added, taken away or changed, that `2^n` is the size of a power set (as the
community modules define powers, which is what `u64log2()`'s size classes are
compared with), and the division facts that page boundaries need.

### Tail waste

`TailWaste_proofs` proves `WasteIsFree` (`WasteFits`, `ArchivedWasteExact` and
the types), `TruncateIsSafe` (`KeepsObjects`) and `TotalsAreRight`
(`TotalsAreSums`), for any finite set of journals, whatever journald does between
the reads. The invariant adds `Files`, that the last object ends where journald
writes on and that an archived journal has one; and `Chains`, that what a chain
has loaded names an object still there, and the last one for good if it says the
journal is archived. The totals are sums modulo `UINT`, wrapped differences of
empty journals included.

### Texts and numbers

`Text_proofs` proves of `Text`'s `Spec`: `PercentIsClose` (`PercentClose`),
`BootIdIsBare` (`BootIdBare`) and `HumaneIsTold` (`HumaneTells`).

The percentages are a fact about division (`PercentFacts`): the divisor
`total / 100` is the total's hundredth less a part of 1, which a part of the total
meets no more than 100 times.

`dehyphen()` reads and writes one buffer. Its invariant `BootIdInv` is that from
`str` on the buffer is as it was read (`Unread`), and that up to `dest` it holds
the characters to keep of those before `str`, each at the number of those kept
up to it (`Compacted`). `dest` is never ahead of `str`, because what is kept is no
more than what is read, so the turn that writes at `dest` disturbs neither
(`TurnFacts`). At the end a NUL is put at `dest`, before which there is none, and
the copy ends there (`CStringFacts`).

For `humane_bytes()`, a double is the integer if the precision suffices, and
otherwise off by no more than the number divided by `2^Precision`
(`DoubleFacts`). The unit found is the largest there is one of (`OrderFacts`), and
there is one because the double is below `2^(Width + 1)`. The two roundings
together stay below a hundredth of the unit because 400 times the factor between
units is no more than `2^Precision` (`HumaneFacts`), by far in the code. Powers
are added in `PowerAdds` and compared in `PowerOrder`.

### What they assume

The constants' assumptions, each of which TLC evaluates in a run:
`BufCntAssumption` and `NullAssumption` (there are buffers, and none of them is
NULL); `SizesAssumption`, `NoCellAssumption`; `IterAssumption`
(finitely many journals and types; headers are aligned and fit; journald writes no object
of size 0); `LayoutAssumption` (pages have a size); `ArraysAssumption` (entry
arrays are not the unused type, are larger than their header, and their sizes
are below the last class); `VerifyAssumption`; `CommandAssumption`;
`HashAssumption`; `OpenAssumption` (finitely many names; `NoFd` and `Denied` are
different, and no names); `WasteAssumption` (finitely many journals, files
smaller than `UINT`); `TextAssumption` (the units reach beyond the width, as 7
times 10 bits do beyond 64, and the precision is large enough, as
400 * 1024 <= 2^53; NUL is no character of a text, and a hyphen is one). In the
proofs offsets are natural numbers; `hashed_payload_size` is an integer, which
may be negative for an object smaller than its own header where the code wraps; except in `TailWaste` they stand for 64-bit
offsets that do not wrap.

### Only model-checked

- `ReadCompletes`, `IterationEnds`, `OpenEnds`, `CommandEnds`: liveness under
  fairness needs ENABLED, which is beyond TLAPS.
- The properties of the runs that expect a violation, which the code refutes.

## Assumed, and not modelled

- A kernel read is atomic, and journald writes an object before the header that
  accounts for it. The first is finer in reality; the second is what lets any
  reader of a live journal trust its header.
- journald never shortens a file, and does not touch one it has archived.
- journald links an object into a hash table in one step, and `HashTableIter`
  reads an object's `next_hash_offset` as it is then. `journal_read()` may serve it
  from a buffer filled earlier; of the last object of a chain, which the walk does
  not follow beyond the tail the loaded table names, the value does not matter, and
  that of the ones before it was final when the table was loaded. A buffer that is
  older than the table is not covered.
- `/etc/machine-id` is not empty, as the code itself assumes in a FIXME.
- The size of a file does not change in `ReportUsage`; journald allocates ahead.
- Object sizes other than zero are what journald wrote. Corrupt sizes that make
  an offset wrap are not modelled; the code has a TODO for checking them.
- libiou and thunk.h are submodules whose contents are not in the repository;
  they are modelled by how the code uses them: a completion runs its closure
  once, zeroed allocations, an error ends the run. Whether the result of a worker
  ends the run is libiou's: both may happen. The lifetime of thunks
  (`thunk_mid()` among it) is left out, as are the wording of what is printed and
  the byte order of the fields.
- Hash values are not computed and payloads not decompressed: verifying an object
  succeeds or fails, and decompression comes to any of a few sizes.
- `journal_get_object_full()`: no command calls it.
- The hash functions in `src/upstream`: bit mixing, copied from systemd.
