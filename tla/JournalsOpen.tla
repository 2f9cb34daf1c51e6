----------------------------- MODULE JournalsOpen -----------------------------
(***************************************************************************)
(* What every command of jio starts with: machid_get() (src/machid.c,      *)
(* src/readfile.c), journals_open() and journals_for_each()                *)
(* (src/journals.c).  The machine's journal directory is listed in two     *)
(* passes, all the journals are opened concurrently, registered with the   *)
(* ring when the last open has completed, and handed to the command one    *)
(* by one.                                                                 *)
(*                                                                         *)
(* journald (external) rotates and vacuums: files come and go in the       *)
(* directory at any time.  A file is its name, and an open file's          *)
(* descriptor is the name of the file it was opened on.                    *)
(***************************************************************************)
EXTENDS Integers, FiniteSets

CONSTANTS Name,       \* names the directory may have
          DotFile,    \* those that begin with a dot
          NoFd,       \* journal->fd before the open completes: calloc()'s 0
          Denied      \* journal->fd of a journal that may not be opened: -1

ASSUME OpenAssumption ==
    /\ IsFiniteSet(Name)
    /\ DotFile \subseteq Name
    /\ NoFd \notin Name /\ Denied \notin Name /\ NoFd # Denied

VARIABLES dir,           \* the names in the journal directory
          st,            \* what the chain of callbacks is waiting for
          n_allocated,
          name,          \* journals[]->name, from index 0 on
          fd,            \* journals[]->fd
          pending,       \* the journals whose open has not completed
          n_opened,
          registered,    \* the files registered with the ring, by index
          idx,           \* journals[]->idx, -1 until registered
          visited        \* how often the closure ran for a journal

vars == <<dir, st, n_allocated, name, fd, pending, n_opened, registered, idx, visited>>

None == [i \in {} |-> 0]
n_journals == Cardinality(DOMAIN name)
Index == DOMAIN name

Init ==
    /\ dir \in SUBSET Name
    /\ st = "machid_open"
    /\ n_allocated = 0
    /\ name = None
    /\ fd = None
    /\ pending = {}
    /\ n_opened = 0
    /\ registered = None
    /\ idx = None
    /\ visited = None

-----------------------------------------------------------------------------
\* The steps before the directory: each is a callback that queues the next
\* operation, or ends the run when its own has failed or no memory is left.
Step(from, to) ==
    /\ st = from
    /\ st' \in {to, "failed"}
    /\ UNCHANGED <<dir, n_allocated, name, fd, pending, n_opened, registered, idx, visited>>

open_done == Step("machid_open", "machid_read")
\* The machine id is terminated and copied, and journals_open() goes on;
\* /etc/machine-id is assumed not to be empty.
have_machid == Step("machid_read", "var_open")
\* The buffer is filled, and readfile()'s closure runs.
read_done == have_machid
var_opened == Step("var_open", "dir_open")

\* Faulty variant: dot files are not skipped.
ListedAll == dir

\* The entries that are counted and listed.
Listed == dir \ DotFile

\* get_journals(), first pass: the entries are counted.
get_journals_count ==
    /\ st = "dir_open"
    /\ \/ st' = "failed" /\ UNCHANGED n_allocated
       \/ /\ n_allocated' = Cardinality(Listed)
          /\ st' = IF Listed = {} THEN "no_journals" ELSE "listing"
    /\ UNCHANGED <<dir, name, fd, pending, n_opened, registered, idx, visited>>

\* Faulty variant: the index of the entry stored is compared, not the count.
OutnumberedLate(n) == n > n_allocated + 1

\* n entries are too many: the assertion fails that follows each one's store.
Outnumbered(n) == n > n_allocated

\* The orders in which readdir() may return the entries.
Orders == {order \in [0 .. Cardinality(Listed) - 1 -> Listed] :
              \A i, k \in DOMAIN order : order[i] = order[k] => i = k}

\* The entries that are stored: one that is too many is stored, in journals[]
\* or beyond it, before the assertion stops the program.
Stored(order) == {i \in DOMAIN order : ~ Outnumbered(i)}

\* get_journals(), second pass: the entries are named, in readdir()'s order,
\* and all opens are queued.  When the files are gone there is nothing to open
\* and iou_run() has nothing to do.
get_journals_list ==
    /\ st = "listing"
    /\ \/ st' = "failed" /\ UNCHANGED <<name, fd, pending>>
       \/ \E order \in Orders :
             LET n == Cardinality(Stored(order))
             IN  /\ name' = [i \in Stored(order) |-> order[i]]
                 /\ IF Outnumbered(n)
                    THEN st' = "aborted" /\ UNCHANGED <<fd, pending>>
                    ELSE \/ st' = "failed" /\ UNCHANGED <<fd, pending>>
                         \/ /\ st' = IF n = 0 THEN "no_journals" ELSE "opening"
                            /\ fd' = [i \in Stored(order) |-> NoFd]
                            /\ pending' = Stored(order)
    /\ UNCHANGED <<dir, n_allocated, n_opened, registered, idx, visited>>

-----------------------------------------------------------------------------
\* Faulty variants: the opens that succeed are counted, or one fewer is
\* waited for.
AllOpenedFds(n, fds) == Cardinality({i \in Index : fds[i] # Denied /\ fds[i] # NoFd}) = n_journals
AllButOneOpened(n, fds) == n >= n_journals - 1

\* Every open was performed, with or without success.
AllOpened(n, fds) == n = n_journals

\* Faulty variant: files are registered without the ones not opened.
FdsDense(fds) ==
    LET opened == {i \in Index : fds[i] # Denied}
        rank(i) == Cardinality({k \in opened : k < i})
    IN  [p \in {rank(i) : i \in opened} |-> fds[CHOOSE i \in opened : rank(i) = p]]

\* The table of files registered with the ring.
Fds(fds) == fds

\* The journals journals_for_each() does not skip.
Opened(fds) == {i \in Index : fds[i] # Denied}

\* journals_for_each(): the command's closure runs for each journal in order,
\* until it fails for one.
journals_for_each(fds) ==
    \/ /\ st' = "visited"
       /\ visited' = [i \in Index |-> IF i \in Opened(fds) THEN 1 ELSE 0]
    \/ \E last \in Opened(fds) :
          /\ st' = "failed"
          /\ visited' = [i \in Index |-> IF i \in Opened(fds) /\ i <= last THEN 1 ELSE 0]

\* The last open has completed: the files are registered and the closure,
\* journals_for_each(), runs.
RegisterAndVisit(fds) ==
    /\ registered' = Fds(fds)
    /\ idx' = [i \in Index |-> i]
    /\ journals_for_each(fds)

\* opened_journal() with the journal's fd being f: counted, and if it was the
\* last, the closure runs, unless memory or the ring refuse.
CountOpened(i, f) ==
    LET fds == [fd EXCEPT ![i] = f]
    IN  /\ n_opened' = n_opened + 1
        /\ fd' = fds
        /\ IF AllOpened(n_opened + 1, fds)
           THEN \/ RegisterAndVisit(fds)
                \/ st' = "failed" /\ UNCHANGED <<registered, idx, visited>>
           ELSE UNCHANGED <<st, registered, idx, visited>>

\* opened_journal(): the opens complete in any order.  A journal that may not
\* be opened is skipped; any other error ends the run.
opened_journal(i) ==
    /\ st = "opening"
    /\ i \in pending
    /\ pending' = pending \ {i}
    /\ \/ name[i] \in dir /\ CountOpened(i, name[i])
       \/ name[i] \in dir /\ CountOpened(i, Denied)
       \/ /\ st' = "failed"
          /\ n_opened' = n_opened + 1
          /\ UNCHANGED <<fd, registered, idx, visited>>
    /\ UNCHANGED <<dir, n_allocated, name>>

-----------------------------------------------------------------------------
\* journald creates a file or removes one.
Rotate ==
    /\ \E f \in Name : dir' = dir \cup {f} \/ dir' = dir \ {f}
    /\ UNCHANGED <<st, n_allocated, name, fd, pending, n_opened, registered, idx, visited>>

Callback ==
    \/ open_done
    \/ read_done
    \/ var_opened
    \/ get_journals_count
    \/ get_journals_list
    \/ \E i \in Index : opened_journal(i)

Next == Callback \/ Rotate

Spec == Init /\ [][Next]_vars

\* The kernel completes every operation and iou_run() dispatches it.
FairSpec == Spec /\ WF_vars(Callback)

-----------------------------------------------------------------------------
Indices == 0 .. Cardinality(Name) - 1

TypeOK ==
    /\ dir \subseteq Name
    /\ st \in {"machid_open", "machid_read", "var_open", "dir_open", "listing", "opening",
               "visited", "no_journals", "failed", "aborted"}
    /\ n_allocated \in 0 .. Cardinality(Name)
    /\ Index \subseteq Indices /\ name \in [Index -> Name \ DotFile]
    /\ DOMAIN fd \in {{}, Index} /\ fd \in [DOMAIN fd -> Name \cup {NoFd, Denied}]
    /\ pending \subseteq Index
    /\ n_opened \in 0 .. Cardinality(Name)
    /\ DOMAIN registered \subseteq Indices
    /\ DOMAIN idx \in {{}, Index} /\ DOMAIN visited \in {{}, Index}

\* Nothing is done with a journal that journals[] has no room for, whatever
\* files appear between the two passes over the directory: no more than one is
\* stored, and it is the last thing that the program does.
OverrunIsFatal ==
    n_journals > n_allocated => st = "aborted" /\ n_journals = n_allocated + 1

\* The command is never handed a journal before every open has completed,
\* whichever completes last and whether or not it was permitted.
VisitsAfterAllOpened ==
    DOMAIN visited # {} => pending = {} /\ \A i \in Index : fd[i] # NoFd

\* A journal's idx, which its reads address the file by, names the file the
\* journal was opened on, in whatever order the opens completed and although
\* some were not permitted.
IdxNamesOwnFile ==
    \A i \in DOMAIN visited :
       visited[i] > 0 => idx[i] \in DOMAIN registered /\ registered[idx[i]] = name[i]

\* Every run comes to an end: the journals are visited, there are none, or
\* the run fails or is aborted.
OpenEnds == <>(st \in {"visited", "no_journals", "failed", "aborted"})

\* Files that appear between the passes are handled gracefully.
NeverAborts == st # "aborted"
=============================================================================
