-------------------------------- MODULE Driver --------------------------------
(***************************************************************************)
(* driver.py: one task per unfinished problem, the rows they append to     *)
(* submissions.jsonl and results.jsonl, STOP and signals, failures, the    *)
(* exit code, and the launches that follow each other in one run directory.*)
(*                                                                         *)
(* What a problem's task does before its two rows (search and selection)   *)
(* is one action here; Orchestrator and Selection model it.                *)
(*                                                                         *)
(* Names that start with Bug are variants of the definition that follows   *)
(* them, as a plausible mistake in the code would write it.                *)
(***************************************************************************)
EXTENDS Integers, Sequences, FiniteSets, Journal

CONSTANTS
  Problems,     \* problem_idx, in input order
  Width,        \* concurrency.problems
  MaxLaunches,  \* bound on the launches of one run directory
  Tears         \* how an append that is cut short can cut its line

ASSUME ProblemAssumption == Problems \subseteq Nat /\ IsFiniteSet(Problems)
ASSUME BoundAssumption == Width \in Nat \ {0} /\ MaxLaunches \in Nat
ASSUME TearAssumption == Tears \subseteq Tails \ {"newline"}

VARIABLES
  submissions, results,  \* the two files
  stopFile,              \* there is a STOP file
  launches,              \* launches so far
  main,                  \* where run_driver is
  pc,                    \* where each problem's task is
  pending,               \* the tasks run_driver still waits for
  cancelled,             \* the tasks it has cancelled
  stopEvent,             \* stop_event is set
  stopper,               \* the task that waits for it has ended
  asked,                 \* a STOP file or a signal has set it
  fatal,                 \* some task met a fatal request error
  code                   \* the exit code

disk == <<submissions, results, stopFile>>
tasks == <<pc, pending, cancelled>>
flags == <<stopEvent, stopper, asked, fatal>>
vars == <<disk, launches, main, tasks, flags, code>>

Finished == Loaded(results)
Running == {p \in Problems : pc[p] = "running"}
BugEnded(p) == pc[p] \in {"written", "fatal", "cancelled"}
Ended(p) == pc[p] \in {"written", "failed", "fatal", "cancelled"}

\* The problems a launch has to run.
BugTodo == Problems
Todo == Problems \ Finished

Init ==
  /\ submissions = Empty /\ results = Empty /\ stopFile = FALSE
  /\ launches = 1
  /\ main = "waiting"
  /\ pc = [p \in Problems |-> "waiting"] /\ pending = Problems /\ cancelled = {}
  /\ stopEvent = FALSE /\ stopper = FALSE /\ asked = FALSE /\ fatal = FALSE
  /\ code = 0

\* The same command again, STOP removed or not; with nothing left to do
\* run_driver returns 0 at once.
Relaunch ==
  /\ main \in {"exited", "crashed"} /\ launches < MaxLaunches
  /\ launches' = launches + 1
  /\ main' = IF Todo = {} THEN "exited" ELSE "waiting"
  /\ pc' = [p \in Problems |-> IF p \in Todo THEN "waiting" ELSE "skipped"]
  /\ pending' = Todo /\ cancelled' = {}
  /\ stopEvent' = FALSE /\ stopper' = FALSE /\ asked' = FALSE /\ fatal' = FALSE
  /\ code' = 0
  /\ stopFile' \in {stopFile, FALSE}
  /\ UNCHANGED <<submissions, results>>

Up == main \in {"waiting", "draining"}

----------------------------------------------------------------------------
(* The task of one problem *)

Becomes(p, where) == pc' = [pc EXCEPT ![p] = where]

\* The semaphore admits tasks in the order they were created.
BugStart(p) ==
  /\ Up /\ pc[p] = "waiting" /\ p \notin cancelled
  /\ Becomes(p, "running")
  /\ UNCHANGED <<disk, launches, main, pending, cancelled, flags, code>>
Start(p) ==
  /\ Up /\ pc[p] = "waiting" /\ p \notin cancelled
  /\ \A q \in Problems : pc[q] = "waiting" => p <= q
  /\ Cardinality(Running) < Width
  /\ Becomes(p, "running")
  /\ UNCHANGED <<disk, launches, main, pending, cancelled, flags, code>>

\* The problem is finished: its two rows, with no await between them.
Write(p) ==
  /\ Up /\ pc[p] = "running" /\ p \notin cancelled
  /\ submissions' = AppendRow(submissions, p)
  /\ results' = AppendRow(results, p)
  /\ Becomes(p, "written")
  /\ UNCHANGED <<stopFile, launches, main, pending, cancelled, flags, code>>

\* Either append cut short.
BugWriteCut(p) ==
  \/ results' \in CutRow(results, p, Tears) /\ UNCHANGED submissions
  \/ results' = AppendRow(results, p) /\ submissions' \in CutRow(submissions, p, Tears)
WriteCut(p) ==
  \/ submissions' \in CutRow(submissions, p, Tears) /\ UNCHANGED results
  \/ submissions' = AppendRow(submissions, p) /\ results' \in CutRow(results, p, Tears)

\* An append raises (the disk is full): the task fails, as it does for any
\* exception but a fatal request error.
Fail(p) ==
  /\ Up /\ pc[p] = "running" /\ p \notin cancelled
  /\ WriteCut(p) \/ UNCHANGED <<submissions, results>>
  /\ Becomes(p, "failed")
  /\ UNCHANGED <<stopFile, launches, main, pending, cancelled, flags, code>>

\* FatalRequestError ends the task quietly and asks everyone to stop.
Fatal(p) ==
  /\ Up /\ pc[p] = "running" /\ p \notin cancelled
  /\ fatal' = TRUE /\ stopEvent' = TRUE
  /\ Becomes(p, "fatal")
  /\ UNCHANGED <<disk, launches, main, pending, cancelled, stopper, asked, code>>

\* A cancelled task gives up whatever it was waiting for.
Abandon(p) ==
  /\ Up /\ pc[p] \in {"waiting", "running"} /\ p \in cancelled
  /\ Becomes(p, "cancelled")
  /\ UNCHANGED <<disk, launches, main, pending, cancelled, flags, code>>

----------------------------------------------------------------------------
(* Stopping *)

\* A signal, or the watcher that has found the STOP file.
Ask ==
  /\ Up /\ ~stopEvent
  /\ stopEvent' = TRUE /\ asked' = TRUE
  /\ UNCHANGED <<disk, launches, main, tasks, stopper, fatal, code>>
Signal == Ask
WatchStop == stopFile /\ Ask

\* The operator creates the file.
CreateStop ==
  /\ Up /\ ~stopFile
  /\ stopFile' = TRUE
  /\ UNCHANGED <<submissions, results, launches, main, tasks, flags, code>>

\* stop_event.wait() returns.
StopperEnds ==
  /\ Up /\ stopEvent /\ ~stopper
  /\ stopper' = TRUE
  /\ UNCHANGED <<disk, launches, main, tasks, stopEvent, asked, fatal, code>>

----------------------------------------------------------------------------
(* run_driver *)

Drain(waited, status) ==
  /\ main' = "draining"
  /\ pending' = waited /\ cancelled' = cancelled \cup waited
  /\ code' = status

\* asyncio.wait returns: the tasks that have ended by now are no longer
\* pending; a stop comes before the failures among them.
MainWakes ==
  LET done == {p \in pending : Ended(p)}
      failed == \E p \in done : pc[p] = "failed" IN
  /\ main = "waiting"
  /\ done # {} \/ stopper
  /\ \/ /\ stopper
        /\ Drain(pending \ done, code)
        /\ UNCHANGED stopEvent
     \/ /\ ~stopper /\ failed
        /\ Drain(pending \ done, 1)
        /\ stopEvent' = TRUE
     \/ /\ ~stopper /\ ~failed
        /\ IF stopEvent \/ pending = done
           THEN Drain(pending \ done, code)
           ELSE /\ pending' = pending \ done
                /\ UNCHANGED <<main, cancelled, code>>
        /\ UNCHANGED stopEvent
  /\ UNCHANGED <<disk, launches, pc, stopper, asked, fatal>>

\* Every task it waits for is over.
BugExit ==
  /\ main = "draining" /\ \A p \in pending : Ended(p)
  /\ main' = "exited"
  /\ UNCHANGED <<disk, launches, tasks, flags, code>>
Exit ==
  /\ main = "draining" /\ \A p \in pending : Ended(p)
  /\ main' = "exited"
  /\ code' = IF fatal THEN 1 ELSE code
  /\ UNCHANGED <<disk, launches, tasks, flags>>

\* The process is killed, perhaps while it writes the rows of a problem.
Crash ==
  /\ Up
  /\ \/ UNCHANGED <<submissions, results>>
     \/ \E p \in Running \ cancelled : WriteCut(p)
  /\ main' = "crashed"
  /\ UNCHANGED <<stopFile, launches, tasks, flags, code>>

Task(p) == Start(p) \/ Write(p) \/ Fail(p) \/ Fatal(p) \/ Abandon(p)

Process == (\E p \in Problems : Task(p)) \/ WatchStop \/ StopperEnds \/ MainWakes \/ Exit

Next == Process \/ Signal \/ CreateStop \/ Crash \/ Relaunch

Spec == Init /\ [][Next]_vars

\* The event loop runs what is ready, the watcher polls, and a problem's search
\* and selection end (Orchestrator!SearchHalts).
FairSpec ==
  /\ Spec
  /\ \A p \in Problems : WF_vars(Task(p))
  /\ WF_vars(WatchStop) /\ WF_vars(StopperEnds) /\ WF_vars(MainWakes) /\ WF_vars(Exit)

----------------------------------------------------------------------------
(* Properties *)

FileType == [rows: Seq(Problems), tail: Tails]

\* Every variable keeps its type, and the semaphore its count.
TypeOK ==
  /\ submissions \in FileType /\ results \in FileType
  /\ {stopFile, stopEvent, stopper, asked, fatal} \subseteq BOOLEAN
  /\ launches \in Nat
  /\ main \in {"waiting", "draining", "exited", "crashed"}
  /\ pc \in [Problems -> {"skipped", "waiting", "running", "written", "failed", "fatal", "cancelled"}]
  /\ pending \subseteq Problems /\ cancelled \subseteq Problems
  /\ Cardinality(Running) <= Width
  /\ code \in {0, 1}

\* However launches crash and tear their last line, no problem has two result
\* rows: a finished problem is never run again (driver.py:168-169).
OneResultPerProblem ==
  \A i, j \in 1..Len(results.rows) : results.rows[i] = results.rows[j] => i = j

\* When no line is torn, a problem that counts as finished has its submission:
\* the two appends are made in that order (driver.py:202-203).
FinishedHasSubmission == Finished \subseteq Loaded(submissions)

\* What the caller of the process may conclude: 0 means that no endpoint error
\* was fatal and that every problem is finished unless someone asked to stop;
\* 1 means that some problem failed or met a fatal error.
ExitCodeIsTruthful ==
  main = "exited" =>
    /\ code = 0 => ~fatal /\ (asked \/ Problems \subseteq Finished)
    /\ code = 1 => fatal \/ \E p \in Problems : pc[p] = "failed"

\* Every launch comes to an end, whatever fails and whenever it is stopped.
LaunchEnds == Up ~> ~Up
=============================================================================
