----------------------------- MODULE DriverProofs -----------------------------
(***************************************************************************)
(* The driver's rows, for any problems, width and number of launches: no   *)
(* problem has two result rows however appends are cut, and without cut    *)
(* lines every finished problem has its submission.                        *)
(*                                                                         *)
(* OneResultPerProblem is inductive together with Owed: while a launch is  *)
(* up, a task that may still write its rows has none that can be read.     *)
(*                                                                         *)
(* ExitCodeIsTruthful, without cut lines as well, follows from ExitInv,    *)
(* which holds in any case: every reason to drain has its cause.           *)
(***************************************************************************)
EXTENDS Driver, TLAPS, FiniteSetTheorems, SequenceTheorems

Once(f) == \A i, j \in 1..Len(f.rows) : f.rows[i] = f.rows[j] => i = j

Owed == Up => \A p \in Problems : pc[p] \in {"waiting", "running"} => p \notin Finished

RowsOnce == TypeOK /\ Once(results) /\ Owed

-----------------------------------------------------------------------------
(* Appending to a file *)

\* What is left of a file when something runs into its last line.
LEMMA SurvivorsLeft ==
  ASSUME NEW f \in FileType
  PROVE  /\ Survivors(f) \in Seq(Problems)
         /\ Len(Survivors(f)) <= Len(f.rows)
         /\ \A i \in 1..Len(Survivors(f)) : Survivors(f)[i] = f.rows[i]
<1>1. f.rows \in Seq(Problems) /\ Len(f.rows) \in Nat
  BY DEF FileType
<1>2. CASE f.tail # "whole" \/ f.rows = <<>>
  BY <1>1, <1>2 DEF Survivors
<1>3. CASE f.tail = "whole" /\ f.rows # <<>>
  BY <1>1, <1>3 DEF Survivors
<1> QED BY <1>2, <1>3

\* A file that begins like f and ends, perhaps, with one more row.
Continues(g, f, row) ==
  /\ g \in FileType
  /\ \/ /\ Len(g.rows) <= Len(f.rows)
        /\ \A i \in 1..Len(g.rows) : g.rows[i] = f.rows[i]
     \/ g.rows = Append(f.rows, row)

\* append_jsonl adds its row or loses what it runs into.
LEMMA AppendContinues ==
  ASSUME NEW f \in FileType, NEW row \in Problems
  PROVE  Continues(AppendRow(f, row), f, row)
<1>1. CASE f.tail = "newline"
  <2>1. AppendRow(f, row) = [rows |-> Append(f.rows, row), tail |-> "newline"]
    BY <1>1 DEF AppendRow
  <2>2. f.rows \in Seq(Problems)
    BY DEF FileType
  <2> QED BY <2>1, <2>2 DEF Continues, FileType, Tails
<1>2. CASE f.tail # "newline"
  <2>1. AppendRow(f, row) = [rows |-> Survivors(f), tail |-> "newline"]
    BY <1>2 DEF AppendRow
  <2> QED BY <2>1, SurvivorsLeft DEF Continues, FileType, Tails
<1> QED BY <1>1, <1>2

\* An append that is cut short does one or the other, or nothing.
LEMMA CutContinues ==
  ASSUME NEW f \in FileType, NEW row \in Problems, NEW g \in CutRow(f, row, Tears)
  PROVE  Continues(g, f, row)
<1>1. CASE g = f
  BY <1>1 DEF Continues, FileType
<1>2. CASE f.tail = "newline" /\ g = [rows |-> Append(f.rows, row), tail |-> "whole"]
  <2>1. f.rows \in Seq(Problems)
    BY DEF FileType
  <2> QED BY <1>2, <2>1 DEF Continues, FileType, Tails
<1>3. CASE g = [rows |-> Survivors(f), tail |-> "part"]
  BY <1>3, SurvivorsLeft DEF Continues, FileType, Tails
<1> QED BY <1>1, <1>2, <1>3 DEF CutRow

\* Either way only the new row can be new to a reader, and a row that was not
\* there cannot come twice.
LEMMA ContinuedRows ==
  ASSUME NEW f \in FileType, NEW row \in Problems, NEW g, Continues(g, f, row)
  PROVE  /\ g \in FileType
         /\ Loaded(g) \subseteq Loaded(f) \cup {row}
         /\ Once(f) /\ row \notin Loaded(f) => Once(g)
<1>1. g \in FileType /\ f.rows \in Seq(Problems) /\ g.rows \in Seq(Problems)
  BY DEF Continues, FileType
<1>2. CASE /\ Len(g.rows) <= Len(f.rows)
           /\ \A i \in 1..Len(g.rows) : g.rows[i] = f.rows[i]
  BY <1>1, <1>2 DEF Loaded, Once
<1>3. CASE g.rows = Append(f.rows, row)
  <2>1. /\ Len(g.rows) = Len(f.rows) + 1
        /\ \A i \in 1..Len(f.rows) : g.rows[i] = f.rows[i]
        /\ g.rows[Len(f.rows) + 1] = row
    BY <1>1, <1>3
  <2>2. \A i \in 1..Len(g.rows) : i \in 1..Len(f.rows) \/ i = Len(f.rows) + 1
    BY <1>1, <2>1
  <2> QED BY <1>1, <2>1, <2>2 DEF Loaded, Once
<1> QED BY <1>1, <1>2, <1>3 DEF Continues

\* The rows of a task, whole or cut.
LEMMA WriteCutContinues ==
  ASSUME submissions \in FileType, results \in FileType, NEW p \in Problems, WriteCut(p)
  PROVE  /\ submissions' \in FileType
         /\ results' = results \/ Continues(results', results, p)
BY AppendContinues, CutContinues, ContinuedRows DEF WriteCut

-----------------------------------------------------------------------------
(* Types *)

\* The semaphore's count when nobody enters.
LEMMA NobodyEnters ==
  ASSUME TypeOK, Running' \subseteq Running
  PROVE  Cardinality(Running') <= Width
<1>1. IsFiniteSet(Running)
  BY FS_Subset, ProblemAssumption DEF Running
<1>2. Cardinality(Running') <= Cardinality(Running) /\ IsFiniteSet(Running')
  BY <1>1, FS_Subset
<1>3. Cardinality(Running) \in Nat /\ Cardinality(Running') \in Nat
  BY <1>1, <1>2, FS_CardinalityType
<1> QED BY <1>2, <1>3, BoundAssumption DEF TypeOK

\* A task that leaves its place, or was not in one, takes none.
LEMMA BecomesType ==
  ASSUME TypeOK, NEW p \in Problems, NEW where \in {"written", "failed", "fatal", "cancelled"},
         Becomes(p, where)
  PROVE  /\ pc' \in [Problems -> {"skipped", "waiting", "running", "written", "failed",
                                  "fatal", "cancelled"}]
         /\ Cardinality(Running') <= Width
<1>1. Running' \subseteq Running
  BY DEF Becomes, Running, TypeOK
<1> QED BY <1>1, NobodyEnters DEF Becomes, TypeOK

\* The rows of a problem that is not finished keep the invariant, whoever
\* writes them and however.
LEMMA RowsWritten ==
  ASSUME RowsOnce, NEW p \in Problems, Up, pc[p] = "running",
         results' = results \/ Continues(results', results, p)
  PROVE  /\ results' \in FileType
         /\ Once(results')
         /\ Finished' \subseteq Finished \cup {p}
<1>1. p \notin Finished
  BY DEF RowsOnce, Owed
<1>2. results \in FileType
  BY DEF RowsOnce, TypeOK
<1> QED BY <1>1, <1>2, ContinuedRows DEF RowsOnce, Finished

LEMMA InitRows == Init => RowsOnce
<1> SUFFICES ASSUME Init PROVE RowsOnce
  OBVIOUS
<1>1. Empty \in FileType /\ Loaded(Empty) = {} /\ Once(Empty)
  BY DEF Empty, FileType, Tails, Loaded, Once
<1>2. Running = {}
  BY DEF Init, Running
<1>3. Cardinality(Running) <= Width
  BY <1>2, FS_EmptySet, BoundAssumption
<1> QED BY <1>1, <1>3 DEF Init, RowsOnce, TypeOK, Owed, Finished

LEMMA NextRows == RowsOnce /\ [Next]_vars => RowsOnce'
<1> SUFFICES ASSUME RowsOnce, [Next]_vars PROVE RowsOnce'
  OBVIOUS
<1>0. TypeOK
  BY DEF RowsOnce
<1>1. ASSUME NEW p \in Problems, Start(p) PROVE RowsOnce'
  <2>1. Running' = Running \cup {p} /\ p \notin Running
    BY <1>0, <1>1 DEF Start, Becomes, Running, TypeOK
  <2>2. IsFiniteSet(Running)
    BY FS_Subset, ProblemAssumption DEF Running
  <2>3. Cardinality(Running') = Cardinality(Running) + 1 /\ Cardinality(Running) \in Nat
    BY <2>1, <2>2, FS_AddElement, FS_CardinalityType
  <2>4. Cardinality(Running') <= Width
    BY <2>3, <1>1, BoundAssumption DEF Start
  <2>5. TypeOK'
    BY <1>0, <1>1, <2>4 DEF Start, Becomes, TypeOK, disk, flags
  <2>6. Owed' /\ Once(results')
    BY <1>0, <1>1 DEF Start, Becomes, RowsOnce, Owed, Up, Finished, disk, TypeOK
  <2> QED BY <2>5, <2>6 DEF RowsOnce
<1>2. ASSUME NEW p \in Problems, Write(p) PROVE RowsOnce'
  <2>1. /\ submissions' \in FileType
        /\ Continues(results', results, p)
    BY <1>0, <1>2, AppendContinues, ContinuedRows DEF Write, TypeOK
  <2>2. /\ results' \in FileType /\ Once(results') /\ Finished' \subseteq Finished \cup {p}
    BY <1>2, <2>1, RowsWritten DEF Write
  <2>3. TypeOK'
    BY <1>0, <1>2, <2>1, <2>2, BecomesType DEF Write, TypeOK, flags
  <2>4. Owed'
    BY <1>0, <1>2, <2>2 DEF Write, Becomes, RowsOnce, Owed, Up, TypeOK
  <2> QED BY <2>2, <2>3, <2>4 DEF RowsOnce
<1>3. ASSUME NEW p \in Problems, Fail(p) PROVE RowsOnce'
  <2>1. /\ submissions' \in FileType
        /\ results' = results \/ Continues(results', results, p)
    BY <1>0, <1>3, WriteCutContinues DEF Fail, TypeOK
  <2>2. /\ results' \in FileType /\ Once(results') /\ Finished' \subseteq Finished \cup {p}
    BY <1>3, <2>1, RowsWritten DEF Fail
  <2>3. TypeOK'
    BY <1>0, <1>3, <2>1, <2>2, BecomesType DEF Fail, TypeOK, flags
  <2>4. Owed'
    BY <1>0, <1>3, <2>2 DEF Fail, Becomes, RowsOnce, Owed, Up, TypeOK
  <2> QED BY <2>2, <2>3, <2>4 DEF RowsOnce
<1>4. ASSUME NEW p \in Problems, Fatal(p) PROVE RowsOnce'
  <2>1. TypeOK'
    BY <1>0, <1>4, BecomesType DEF Fatal, TypeOK, disk
  <2> QED BY <1>0, <1>4, <2>1 DEF Fatal, Becomes, RowsOnce, Owed, Up, Finished, TypeOK, disk
<1>5. ASSUME NEW p \in Problems, Abandon(p) PROVE RowsOnce'
  <2>1. TypeOK'
    BY <1>0, <1>5, BecomesType DEF Abandon, TypeOK, disk, flags
  <2> QED BY <1>0, <1>5, <2>1 DEF Abandon, Becomes, RowsOnce, Owed, Up, Finished, TypeOK, disk
<1>6. CASE Ask
  BY <1>6 DEF Ask, RowsOnce, TypeOK, Owed, Up, Finished, Running, disk, tasks
<1>7. CASE CreateStop
  BY <1>7 DEF CreateStop, RowsOnce, TypeOK, Owed, Up, Finished, Running, tasks, flags
<1>8. CASE StopperEnds
  BY <1>8 DEF StopperEnds, RowsOnce, TypeOK, Owed, Up, Finished, Running, disk, tasks
<1>9. CASE MainWakes
  <2>1. /\ UNCHANGED <<disk, launches, pc, stopper, asked, fatal>>
        /\ main = "waiting" /\ main' \in {"waiting", "draining"}
        /\ pending' \subseteq pending /\ cancelled' \subseteq cancelled \cup pending
        /\ stopEvent' \in {stopEvent, TRUE} /\ code' \in {code, 1}
    BY <1>9 DEF MainWakes, Drain
  <2> QED BY <2>1 DEF RowsOnce, TypeOK, Owed, Up, Finished, Running, disk
<1>10. CASE Exit
  BY <1>10 DEF Exit, RowsOnce, TypeOK, Owed, Up, Finished, Running, disk, tasks, flags
<1>11. CASE Crash
  <2>1. UNCHANGED <<stopFile, launches, tasks, flags, code>> /\ main' = "crashed" /\ Up
    BY <1>11 DEF Crash
  <2>2. submissions' \in FileType /\ results' \in FileType /\ Once(results')
    <3>1. CASE UNCHANGED <<submissions, results>>
      BY <3>1 DEF RowsOnce, TypeOK
    <3>2. CASE \E p \in Running \ cancelled : WriteCut(p)
      <4>1. PICK p \in Problems : pc[p] = "running" /\ WriteCut(p)
        BY <3>2 DEF Running
      <4>2. /\ submissions' \in FileType
            /\ results' = results \/ Continues(results', results, p)
        BY <1>0, <4>1, WriteCutContinues DEF TypeOK
      <4> QED BY <2>1, <4>1, <4>2, RowsWritten
    <3> QED BY <1>11, <3>1, <3>2 DEF Crash
  <2> QED BY <2>1, <2>2 DEF RowsOnce, TypeOK, Owed, Up, Running, tasks, flags
<1>12. CASE Relaunch
  <2>1. Finished' = Finished /\ Running' = {}
    BY <1>12 DEF Relaunch, Finished, Running
  <2>2. Cardinality(Running') <= Width
    BY <2>1, FS_EmptySet, BoundAssumption
  <2>3. /\ Todo \subseteq Problems /\ main' \in {"exited", "waiting"}
        /\ pc' \in [Problems -> {"waiting", "skipped"}]
        /\ pending' = Todo /\ cancelled' = {}
    BY <1>12 DEF Relaunch, Todo
  <2>4. /\ launches' \in Nat /\ code' \in {0, 1}
        /\ submissions' = submissions /\ results' = results
    BY <1>0, <1>12 DEF Relaunch, TypeOK
  <2>5. stopFile \in BOOLEAN
    BY <1>0 DEF TypeOK
  <2>6. stopFile' \in BOOLEAN
    BY <1>12, <2>5 DEF Relaunch
  <2>7. {stopFile, stopEvent, stopper, asked, fatal}' \subseteq BOOLEAN
    BY <1>12, <2>6 DEF Relaunch
  <2>8. TypeOK'
    BY <1>0, <2>3, <2>4, <2>7, <2>2 DEF TypeOK
  <2>9. Owed' /\ Once(results')
    BY <1>12, <2>1 DEF Relaunch, RowsOnce, Owed, Todo
  <2> QED BY <2>8, <2>9 DEF RowsOnce
<1>13. CASE UNCHANGED vars
  BY <1>13 DEF vars, RowsOnce, TypeOK, Owed, Up, Finished, Running, disk, tasks, flags
<1> QED
  BY <1>1, <1>2, <1>3, <1>4, <1>5, <1>6, <1>7, <1>8, <1>9, <1>10, <1>11, <1>12, <1>13
  DEF Next, Process, Task, WatchStop, Signal

\* The inductive invariant of the driver's rows.
THEOREM DriverInvariant == Spec => []RowsOnce
  BY InitRows, NextRows, PTL DEF Spec

\* Every variable of the driver keeps its type, and the semaphore its count
\* (driver.py:174).
THEOREM DriverTypes == Spec => []TypeOK
<1>1. RowsOnce => TypeOK
  BY DEF RowsOnce
<1> QED BY DriverInvariant, <1>1, PTL

\* No problem has two result rows, for any problems, launches, crashes and cut
\* lines (driver.py:168-169).
THEOREM OneResult == Spec => []OneResultPerProblem
<1>1. RowsOnce => OneResultPerProblem
  BY DEF RowsOnce, Once, OneResultPerProblem
<1> QED BY DriverInvariant, <1>1, PTL

-----------------------------------------------------------------------------
(* Whole lines.  The append to submissions.jsonl comes first, so what is   *)
(* read of results.jsonl can be read of it as well.                        *)

WholeLines ==
  /\ submissions.tail = "newline" /\ results.tail = "newline"
  /\ Finished \subseteq Loaded(submissions)

\* A whole append to a whole file adds its row and loses none.
LEMMA WholeAppend ==
  ASSUME NEW f \in FileType, NEW row \in Problems, f.tail = "newline"
  PROVE  /\ AppendRow(f, row).tail = "newline"
         /\ Loaded(AppendRow(f, row)) = Loaded(f) \cup {row}
<1>1. AppendRow(f, row) = [rows |-> Append(f.rows, row), tail |-> "newline"]
  BY DEF AppendRow
<1>2. f.rows \in Seq(Problems)
  BY DEF FileType
<1>3. /\ Len(Append(f.rows, row)) = Len(f.rows) + 1
      /\ \A i \in 1..Len(f.rows) : Append(f.rows, row)[i] = f.rows[i]
      /\ Append(f.rows, row)[Len(f.rows) + 1] = row
  BY <1>2
<1>4. \A i \in 1..Len(f.rows) + 1 : i \in 1..Len(f.rows) \/ i = Len(f.rows) + 1
  BY <1>2
<1> QED BY <1>1, <1>2, <1>3, <1>4 DEF Loaded

\* The rows of a task when the second append may be missing.
LEMMA WholeWrites ==
  ASSUME Tears = {}, TypeOK, WholeLines, NEW p \in Problems,
         \/ WriteCut(p)
         \/ submissions' = AppendRow(submissions, p) /\ results' = AppendRow(results, p)
  PROVE  WholeLines'
<1>1. CutRow(submissions, p, Tears) = {submissions} /\ CutRow(results, p, Tears) = {results}
  BY DEF CutRow
<1>2. /\ submissions' \in {submissions, AppendRow(submissions, p)}
      /\ results' = results \/ (results' = AppendRow(results, p)
                                 /\ submissions' = AppendRow(submissions, p))
  BY <1>1 DEF WriteCut
<1> QED BY <1>2, WholeAppend DEF TypeOK, WholeLines, Finished

\* No other step writes.
LEMMA WholeElsewhere ==
  ASSUME WholeLines, UNCHANGED <<submissions, results>>
  PROVE  WholeLines'
BY DEF WholeLines, Finished

LEMMA NextWhole == Tears = {} /\ TypeOK /\ WholeLines /\ [Next]_vars => WholeLines'
<1> SUFFICES ASSUME Tears = {}, TypeOK, WholeLines, [Next]_vars PROVE WholeLines'
  OBVIOUS
<1>1. ASSUME NEW p \in Problems, Task(p) PROVE WholeLines'
  BY <1>1, WholeWrites, WholeElsewhere DEF Task, Start, Write, Fail, Fatal, Abandon, disk
<1>2. CASE Crash
  BY <1>2, WholeWrites, WholeElsewhere DEF Crash, Running
<1>3. CASE WatchStop \/ StopperEnds \/ MainWakes \/ Exit \/ Signal \/ CreateStop \/ Relaunch
  BY <1>3, WholeElsewhere
  DEF WatchStop, StopperEnds, MainWakes, Exit, Signal, Ask, CreateStop, Relaunch, disk
<1>4. CASE UNCHANGED vars
  BY <1>4, WholeElsewhere DEF vars, disk
<1> QED BY <1>1, <1>2, <1>3, <1>4 DEF Next, Process

\* Unless lines are cut, every problem that counts as finished has its
\* submission, for any problems, launches, failures and crashes
\* (driver.py:202-203).
THEOREM SubmissionFirst ==
  ASSUME Tears = {}
  PROVE  Spec => []FinishedHasSubmission
<1>1. Init => WholeLines
  BY DEF Init, WholeLines, Empty, Finished, Loaded
<1>2. TypeOK /\ WholeLines /\ [Next]_vars => WholeLines'
  BY NextWhole
<1>3. WholeLines => FinishedHasSubmission
  BY DEF WholeLines, FinishedHasSubmission
<1> QED BY <1>1, <1>2, <1>3, DriverTypes, PTL DEF Spec
-----------------------------------------------------------------------------
(* The exit code                                                           *)
(*                                                                         *)
(* ExitCodeIsTruthful speaks of launches that have exited.  What leads     *)
(* there is that every reason to drain is kept: a set stop event has a     *)
(* cause, no failure is among the tasks the driver has taken note of while *)
(* it waits, and a drain with code 0 that nobody has asked for and nothing *)
(* fatal has caused is that of a launch with nothing left to do.           *)

Satisfied(p) == pc[p] \in {"written", "skipped"}

\* What has set the stop event.
StopHasCause ==
  /\ stopper => stopEvent
  /\ stopEvent => asked \/ fatal \/ code = 1

CodeHasCause ==
  /\ \A p \in Problems : pc[p] = "fatal" => fatal
  /\ code = 1 => fatal \/ \E p \in Problems : pc[p] = "failed"

\* Tasks that run_driver does not wait for are over, and while it waits for
\* others none of them has failed.
NotedAreOver ==
  \A p \in Problems : p \notin pending =>
    /\ pc[p] = "skipped" \/ Ended(p)
    /\ main = "waiting" => pc[p] # "failed"

NobodyCancelled ==
  main = "waiting" => code = 0 /\ cancelled = {} /\ \A p \in Problems : pc[p] # "cancelled"

QuietEnd ==
  main \in {"draining", "exited"} /\ code = 0 /\ ~asked /\ ~fatal =>
    \A p \in Problems : Satisfied(p)

FatalExit == main = "exited" /\ fatal => code = 1

ExitInv == /\ StopHasCause /\ CodeHasCause /\ NotedAreOver /\ NobodyCancelled
           /\ QuietEnd /\ FatalExit

\* A task that has written its rows, or had none to write, is finished.
SatisfiedAreFinished == \A p \in Problems : Satisfied(p) => p \in Finished

LEMMA NextExit == TypeOK /\ ExitInv /\ [Next]_vars => ExitInv'
<1> SUFFICES ASSUME TypeOK, ExitInv, [Next]_vars PROVE ExitInv'
  OBVIOUS
<1> USE DEF StopHasCause, CodeHasCause, NotedAreOver, NobodyCancelled, QuietEnd, FatalExit, Satisfied
<1>1. ASSUME NEW p \in Problems, Start(p) PROVE ExitInv'
  BY <1>1 DEF Start, Becomes, ExitInv, TypeOK, Up, Ended, flags
<1>2. ASSUME NEW p \in Problems, Write(p) \/ Fail(p) PROVE ExitInv'
  <2>1. /\ pc[p] = "running" /\ p \notin cancelled /\ Up
        /\ UNCHANGED <<main, pending, cancelled, flags, code>>
        /\ \E where \in {"written", "failed"} : pc' = [pc EXCEPT ![p] = where]
    BY <1>2 DEF Write, Fail, Becomes
  <2> QED BY <2>1 DEF ExitInv, TypeOK, Up, Ended, flags
<1>3. ASSUME NEW p \in Problems, Fatal(p) PROVE ExitInv'
  BY <1>3 DEF Fatal, Becomes, ExitInv, TypeOK, Up, Ended
<1>4. ASSUME NEW p \in Problems, Abandon(p) PROVE ExitInv'
  BY <1>4 DEF Abandon, Becomes, ExitInv, TypeOK, Up, Ended, flags
<1>5. CASE Ask
  BY <1>5 DEF Ask, ExitInv, TypeOK, Up, Ended, tasks
<1>6. CASE CreateStop
  BY <1>6 DEF CreateStop, ExitInv, TypeOK, Up, Ended, tasks, flags
<1>7. CASE StopperEnds
  BY <1>7 DEF StopperEnds, ExitInv, TypeOK, Up, Ended, tasks
<1>8. CASE MainWakes
  <2> DEFINE done == {p \in pending : Ended(p)}
             anyFailed == \E p \in done : pc[p] = "failed"
  <2>0. /\ main = "waiting" /\ UNCHANGED <<pc, stopper, asked, fatal>>
        /\ \A p \in Problems : Ended(p)' <=> Ended(p)
    BY <1>8 DEF MainWakes, Ended
  <2>1. code = 0 /\ cancelled = {} /\ \A p \in Problems : pc[p] # "cancelled"
    BY <2>0 DEF ExitInv
  <2>2. \A p \in Problems : p \notin pending \ done => pc[p] = "skipped" \/ Ended(p)
    BY DEF ExitInv
  <2>3. CASE stopper /\ Drain(pending \ done, code) /\ UNCHANGED stopEvent
    <3>1. stopEvent /\ (asked \/ fatal)
      BY <2>1, <2>3 DEF ExitInv
    <3> QED BY <2>0, <2>1, <2>2, <2>3, <3>1 DEF ExitInv, Drain, TypeOK
  <2>4. CASE ~stopper /\ anyFailed /\ Drain(pending \ done, 1) /\ stopEvent' = TRUE
    <3>1. \E p \in Problems : pc[p] = "failed"
      BY <2>4 DEF TypeOK
    <3> QED BY <2>0, <2>1, <2>2, <2>4, <3>1 DEF ExitInv, Drain, TypeOK
  <2>5. CASE ~stopper /\ ~anyFailed /\ (stopEvent \/ pending = done)
             /\ Drain(pending \ done, code) /\ UNCHANGED stopEvent
    <3>1. ~asked /\ ~fatal => \A p \in Problems : Satisfied(p)
      <4> SUFFICES ASSUME ~asked, ~fatal, NEW p \in Problems PROVE Satisfied(p)
        OBVIOUS
      <4>1. pending = done
        BY <2>1, <2>5 DEF ExitInv
      <4>2. pc[p] = "skipped" \/ Ended(p)
        BY <2>2, <4>1
      <4>3. pc[p] # "failed"
        BY <2>0, <2>5, <4>1 DEF ExitInv
      <4>4. pc[p] # "fatal" /\ pc[p] # "cancelled"
        BY <2>1 DEF ExitInv
      <4> QED BY <4>2, <4>3, <4>4 DEF Ended
    <3> QED BY <2>0, <2>1, <2>2, <2>5, <3>1 DEF ExitInv, Drain, TypeOK
  <2>6. CASE ~stopper /\ ~anyFailed /\ ~(stopEvent \/ pending = done) /\ pending' = pending \ done
             /\ UNCHANGED <<main, cancelled, code>> /\ UNCHANGED stopEvent
    <3>1. \A p \in Problems : p \notin pending' => pc[p] # "failed"
      BY <2>0, <2>6 DEF ExitInv
    <3> QED BY <2>0, <2>1, <2>2, <2>6, <3>1 DEF ExitInv, TypeOK
  <2> QED BY <1>8, <2>3, <2>4, <2>5, <2>6 DEF MainWakes
<1>9. CASE Exit
  BY <1>9 DEF Exit, ExitInv, TypeOK, Ended, tasks, flags
<1>10. CASE Crash
  <2>1. main' = "crashed" /\ UNCHANGED <<tasks, flags, code>>
    BY <1>10 DEF Crash
  <2> QED BY <2>1 DEF ExitInv, TypeOK, Ended, tasks, flags
<1>11. CASE Relaunch
  <2>1. /\ main' = "exited" => Todo = {}
        /\ pc' = [p \in Problems |-> IF p \in Todo THEN "waiting" ELSE "skipped"]
        /\ pending' = Todo /\ cancelled' = {} /\ code' = 0
        /\ main' \in {"exited", "waiting"}
        /\ stopEvent' = FALSE /\ stopper' = FALSE /\ fatal' = FALSE
    BY <1>11 DEF Relaunch
  <2> QED BY <2>1 DEF ExitInv
<1>12. CASE UNCHANGED vars
  BY <1>12 DEF vars, ExitInv, Ended, tasks, flags
<1> QED
  BY <1>1, <1>2, <1>3, <1>4, <1>5, <1>6, <1>7, <1>8, <1>9, <1>10, <1>11, <1>12
  DEF Next, Process, Task, WatchStop, Signal

\* The driver's exit code has its causes, for any problems, width, launches,
\* crashes and cut lines.
THEOREM ExitInvariant == Spec => []ExitInv
<1>1. Init => ExitInv
  BY DEF Init, ExitInv, StopHasCause, CodeHasCause, NotedAreOver, NobodyCancelled, QuietEnd,
         FatalExit, Ended, Satisfied
<1> QED BY <1>1, NextExit, DriverTypes, PTL DEF Spec

\* Without cut lines what is finished stays so.
LEMMA FinishedStays ==
  ASSUME Tears = {}, TypeOK, WholeLines, [Next]_vars
  PROVE  Finished \subseteq Finished'
<1>1. ASSUME NEW p \in Problems, WriteCut(p) \/ results' = AppendRow(results, p)
      PROVE  Finished \subseteq Finished'
  <2>1. results' \in {results, AppendRow(results, p)}
    BY <1>1 DEF WriteCut, CutRow
  <2> QED BY <2>1, WholeAppend DEF TypeOK, WholeLines, Finished
<1>2. CASE results' = results
  BY <1>2 DEF Finished
<1>3. ASSUME NEW p \in Problems, Task(p) PROVE Finished \subseteq Finished'
  BY <1>1, <1>2, <1>3 DEF Task, Start, Write, Fail, Fatal, Abandon, disk
<1>4. CASE Crash
  BY <1>1, <1>2, <1>4 DEF Crash, Running
<1>5. CASE WatchStop \/ StopperEnds \/ MainWakes \/ Exit \/ Signal \/ CreateStop \/ Relaunch
  BY <1>2, <1>5
  DEF WatchStop, StopperEnds, MainWakes, Exit, Signal, Ask, CreateStop, Relaunch, disk
<1>6. CASE UNCHANGED vars
  BY <1>2, <1>6 DEF vars, disk
<1> QED BY <1>3, <1>4, <1>5, <1>6 DEF Next, Process

LEMMA NextSatisfied ==
  Tears = {} /\ TypeOK /\ WholeLines /\ SatisfiedAreFinished /\ [Next]_vars => SatisfiedAreFinished'
<1> SUFFICES ASSUME Tears = {}, TypeOK, WholeLines, SatisfiedAreFinished, [Next]_vars,
                    NEW q \in Problems, Satisfied(q)'
             PROVE  q \in Finished'
  BY DEF SatisfiedAreFinished
<1>0. Finished \subseteq Finished'
  BY FinishedStays
<1>1. CASE Satisfied(q)
  BY <1>0, <1>1 DEF SatisfiedAreFinished
<1>2. ASSUME NEW p \in Problems, Write(p) PROVE Satisfied(q) \/ q \in Finished'
  <2>1. q = p \/ Satisfied(q)
    BY <1>2 DEF Write, Becomes, Satisfied, TypeOK
  <2>2. p \in Finished'
    BY <1>2, WholeAppend DEF Write, TypeOK, WholeLines, Finished
  <2> QED BY <2>1, <2>2
<1>3. ASSUME NEW p \in Problems, Start(p) \/ Fail(p) \/ Fatal(p) \/ Abandon(p) PROVE Satisfied(q)
  BY <1>3 DEF Start, Fail, Fatal, Abandon, Becomes, Satisfied, TypeOK
<1>4. ASSUME Ask \/ CreateStop \/ StopperEnds \/ MainWakes \/ Exit \/ Crash \/ UNCHANGED vars
      PROVE  Satisfied(q)
  <2>1. pc' = pc
    BY <1>4 DEF Ask, CreateStop, StopperEnds, MainWakes, Exit, Crash, vars, tasks
  <2> QED BY <2>1 DEF Satisfied
<1>5. CASE Relaunch
  <2>1. pc'[q] = IF q \in Todo THEN "waiting" ELSE "skipped"
    BY <1>5 DEF Relaunch
  <2>2. q \in Finished
    BY <2>1 DEF Satisfied, Todo
  <2> QED BY <1>0, <2>2
<1> QED
  BY <1>1, <1>2, <1>3, <1>4, <1>5 DEF Next, Process, Task, WatchStop, Signal

\* Exit code 0 means that nothing was fatal and that every problem is finished
\* unless someone has asked to stop, and 1 that something failed: whatever ends
\* at one wake-up, and whatever earlier launches left (driver.py:222-266).
THEOREM ExitTruth ==
  ASSUME Tears = {}
  PROVE  Spec => []ExitCodeIsTruthful
<1>1. Init => WholeLines /\ SatisfiedAreFinished
  BY DEF Init, WholeLines, SatisfiedAreFinished, Satisfied, Empty, Finished, Loaded
<1>2. TypeOK /\ WholeLines /\ [Next]_vars => WholeLines'
  BY NextWhole
<1>3. TypeOK /\ WholeLines /\ SatisfiedAreFinished /\ [Next]_vars => SatisfiedAreFinished'
  BY NextSatisfied
<1>4. TypeOK /\ ExitInv /\ SatisfiedAreFinished => ExitCodeIsTruthful
  BY DEF TypeOK, ExitInv, QuietEnd, FatalExit, CodeHasCause, SatisfiedAreFinished, ExitCodeIsTruthful
<1> QED BY <1>1, <1>2, <1>3, <1>4, DriverTypes, ExitInvariant, PTL DEF Spec
=============================================================================
