---------------------------------- MODULE Jio ----------------------------------
(***************************************************************************)
(* main() (src/jio.c) with the commands that iterate the objects of all    *)
(* journals: from the arguments to the exit status, with the callbacks of  *)
(* the command's journals interleaving in iou_run() in between, and        *)
(* journald appending all the while.                                       *)
(*                                                                         *)
(* The machine id and the journals have been obtained by the time a        *)
(* command's callbacks run: module JournalsOpen is about how.              *)
(***************************************************************************)
EXTENDS ReportUsage, ReportLayout, EntryArrays, VerifyHashed

CONSTANT Command    \* the commands that may be asked for

ASSUME CommandAssumption == Command \subseteq {"usage", "layout", "entry-arrays", "verify"}

VARIABLES cmd,      \* the command that runs, "none" before and without one
          status    \* the exit status, "running" before

allVars == <<vars, queued, usageVars, out, arraysVars, vf, cmd, status>>

JioInit ==
    /\ Init /\ RingInit /\ UsageInit /\ LayoutInit /\ ArraysInit /\ VerifyInit
    /\ cmd = "none"
    /\ status = "running"

-----------------------------------------------------------------------------
\* main() up to iou_run(): a text is printed and that is all; or iou_new()
\* fails, the subcommand is none, or machid_get() fails; or a command starts,
\* and has the operation queued that leads to the closure of each journal.
\* journals_for_each() runs them all in that operation's callback, here they
\* are taken apart: a journal it has not come to keeps the callback, and the
\* ring, from being through.
main ==
    /\ status = "running" /\ cmd = "none"
    /\ \/ cmd' \in Command /\ queued' = [j \in Journal |-> 1] /\ UNCHANGED status
       \/ status' \in {"success", "failure"} /\ UNCHANGED <<cmd, queued>>
    /\ UNCHANGED <<vars, usageVars, out, arraysVars, vf>>

\* Faulty variant: iou_run() waits for every journal's callbacks, failed or not.
main_returns_drained ==
    /\ status = "running" /\ cmd # "none"
    /\ NothingOutstanding
    /\ status' = IF err THEN "failure" ELSE "success"
    /\ UNCHANGED <<vars, queued, usageVars, out, arraysVars, vf, cmd>>

\* iou_run() returns when a callback has failed or nothing is outstanding, be
\* the journals at their ends or not.  The command returns what it returned,
\* and main() makes it the exit status.
main_returns ==
    /\ status = "running" /\ cmd # "none"
    /\ \/ err /\ status' = "failure"
       \/ ~ err /\ NothingOutstanding /\ status' = "success"
    /\ UNCHANGED <<vars, queued, usageVars, out, arraysVars, vf, cmd>>

\* A callback of j, or the worker thread for j, runs.
Callback(j) ==
    /\ status = "running"
    /\ \/ cmd = "usage" /\ UsageCallback(j) /\ UNCHANGED <<out, arraysVars, vf>>
       \/ cmd = "layout" /\ LayoutCallback(j) /\ UNCHANGED <<usageVars, arraysVars, vf>>
       \/ cmd = "entry-arrays" /\ ArraysCallback(j) /\ UNCHANGED <<usageVars, out, vf>>
       \/ cmd = "verify" /\ VerifyCallback(j) /\ UNCHANGED <<usageVars, out, arraysVars>>
    /\ UNCHANGED <<cmd, status>>

\* journald and the machine it runs on (external), as long as jio reads.
Environment ==
    /\ status = "running" /\ ~ err
    /\ Appends \/ \E j \in Journal, o \in Offset : Lose(j, o)
    /\ UNCHANGED <<queued, usageVars, out, arraysVars, vf, cmd, status>>

JioNext ==
    \/ main
    \/ main_returns
    \/ \E j \in Journal : Callback(j)
    \/ Environment

JioSpec == JioInit /\ [][JioNext]_allVars

\* iou_run() completes what is queued and runs its callback; what the worker
\* threads are given they get done.
JioFairSpec ==
    /\ JioSpec
    /\ WF_allVars(main_returns)
    /\ \A j \in Journal : WF_allVars(Callback(j))

-----------------------------------------------------------------------------
\* The usage that is reported of a journal is that of its objects as of its
\* header, and of the last one again (ReportUsage).
UsageReported == cmd = "usage" => UsageIsObjectsAndLast

\* A journal's layout file tells where its objects are (ReportLayout).
LayoutReported == cmd = "layout" => LayoutTellsObjects

\* What is reported of a journal's entry arrays accounts for all of them, in
\* their size classes (EntryArrays).
ArraysReported == cmd = "entry-arrays" => ArraysAccounted

\* Each of a journal's hashed objects is verified once (VerifyHashed).
HashedVerified == cmd = "verify" => VerifyComplete

\* jio exits with success after a command only if every journal was gone
\* through to its end: when nothing is outstanding any more, no chain of
\* callbacks was dropped halfway, and no read that failed, in whichever
\* journal and at whatever time, leaves a report that passes for complete.
SuccessIsComplete ==
    status = "success" /\ cmd # "none" =>
       \A j \in Journal : it[j].st = "done" /\ seen[j][0] = 1

\* A command that was started comes to an end, whatever journald appends and
\* whichever read or check fails.
CommandEnds == cmd # "none" ~> status # "running"
=============================================================================
