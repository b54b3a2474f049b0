------------------------------ MODULE Selection ------------------------------
(***************************************************************************)
(* selection.py: every finalist is judged in a slot of its own by each     *)
(* judgment of each judge; a slot whose response is invalid is resampled;  *)
(* rows on disk are replayed after a relaunch; the best finalist is        *)
(* selected when every slot has ended.                                     *)
(*                                                                         *)
(* A request behaves as RequestContract says.  A relaunch finds the same   *)
(* finalists.                                                              *)
(*                                                                         *)
(* Names that start with Bug are variants of the definition that follows   *)
(* them, as a plausible mistake in the code would write it.                *)
(***************************************************************************)
EXTENDS Integers, Sequences, FiniteSets, FiniteSetsExt

CONSTANTS
  Finalists,     \* accepted or fallback proofs
  Judges,
  Judgments,     \* judgments_per_finalist of each judge
  MaxResamples,  \* MAX_JUDGMENT_RESAMPLES
  Scores,        \* the scores responses may carry
  Invalid,       \* a response that is truncated or has no score
  ProofLength,   \* length of each finalist's text
  Place,         \* place of its checkpoint in checkpoint_order
  MaxLaunches    \* bound on launches

ASSUME JudgeAssumption ==
  /\ IsFiniteSet(Finalists) /\ Finalists # {} /\ IsFiniteSet(Judges)
  /\ Judgments \in [Judges -> Nat \ {0}] /\ MaxResamples \in Nat
ASSUME ScoreAssumption == Scores \subseteq 0..7 /\ Invalid \notin 0..7
ASSUME FinalistAssumption ==
  /\ ProofLength \in [Finalists -> Nat] /\ Place \in [Finalists -> Nat]
  /\ \A f, g \in Finalists : Place[f] = Place[g] => f = g
ASSUME LaunchAssumption == MaxLaunches \in Nat

Slots == UNION {{<<f, j, k>> : k \in 0..(Judgments[j] - 1)} : f \in Finalists, j \in Judges}
Attempts == 0..MaxResamples
Replies == Scores \cup {Invalid}

VARIABLES
  rows,      \* judge.jsonl: the responses recorded for each slot and attempt
  ledger,    \* the slots and attempts that were on disk at launch
  launches,  \* launches so far
  main,      \* where judge_finalists is
  pc,        \* where each slot's task is
  attempt,   \* its attempt
  reply,     \* the response it is recording
  result,    \* how it has ended: a score or Invalid
  cancel,    \* the tasks with a cancellation still to be delivered
  threads,   \* rows whose writer goes on without the task that asked for it
  choice     \* the selected finalist

slotVars == <<pc, attempt, reply, result>>
vars == <<rows, ledger, launches, main, slotVars, cancel, threads, choice>>

----------------------------------------------------------------------------
(* Slots *)

BugOver(s) == pc[s] \in {"done", "cancelled"}
Over(s) == pc[s] \in {"done", "failed", "cancelled"}
Saved(s, a) == rows[s][a][1]

Moves(s, where) == pc' = [pc EXCEPT ![s] = where]
Ends(s, score) ==
  /\ Moves(s, "done")
  /\ result' = [result EXCEPT ![s] = score]
  /\ UNCHANGED attempt

\* From attempt a on: attempts on disk are replayed until one is valid; the
\* first that is not on disk is requested; after the last the slot is invalid.
BugProceed(s, a) ==
  IF a \in Attempts
  THEN /\ Moves(s, "requesting")
       /\ attempt' = [attempt EXCEPT ![s] = a]
       /\ UNCHANGED result
  ELSE Ends(s, Invalid)
BugProceedPast(s, a) ==
  IF <<s, a>> \in ledger /\ Saved(s, a) # Invalid THEN Ends(s, Saved(s, a))
  ELSE /\ Moves(s, "requesting")
       /\ attempt' = [attempt EXCEPT ![s] = a]
       /\ UNCHANGED result
Proceed(s, a) ==
  LET open == {b \in Attempts : b >= a /\ (<<s, b>> \notin ledger \/ Saved(s, b) # Invalid)} IN
  IF open = {} THEN Ends(s, Invalid)
  ELSE LET b == Min(open) IN
         IF <<s, b>> \in ledger THEN Ends(s, Saved(s, b))
         ELSE /\ Moves(s, "requesting")
              /\ attempt' = [attempt EXCEPT ![s] = b]
              /\ UNCHANGED result

Begin(s) ==
  /\ pc[s] = "created" /\ s \notin cancel
  /\ Proceed(s, 0)
  /\ UNCHANGED <<rows, ledger, launches, main, reply, cancel, threads, choice>>

\* A response; one that outran a cancellation uses it up.
Respond(s) ==
  /\ pc[s] = "requesting"
  /\ \E r \in Replies : reply' = [reply EXCEPT ![s] = r]
  /\ Moves(s, "locking")
  /\ cancel' = cancel \ {s}
  /\ UNCHANGED <<rows, ledger, launches, main, attempt, result, threads, choice>>

\* A parked request: its error row is written and the slot is invalid.
Park(s) ==
  /\ pc[s] = "requesting" /\ s \notin cancel
  /\ Moves(s, "noting")
  /\ UNCHANGED <<rows, ledger, launches, main, attempt, reply, result, cancel, threads, choice>>
Noted(s) ==
  /\ pc[s] = "noting" /\ s \notin cancel
  /\ Ends(s, Invalid)
  /\ UNCHANGED <<rows, ledger, launches, main, reply, cancel, threads, choice>>

\* The sink: one writer at a time, in a thread of its own.
Lock(s) ==
  /\ pc[s] = "locking" /\ s \notin cancel
  /\ \A q \in Slots : pc[q] # "writing"
  /\ Moves(s, "writing")
  /\ UNCHANGED <<rows, ledger, launches, main, attempt, reply, result, cancel, threads, choice>>

Record(s, a, r) == rows' = [rows EXCEPT ![s][a] = Append(@, r)]

\* The row is on disk: a valid score ends the slot, any other is resampled.
BugWritten(s) ==
  /\ pc[s] = "writing" /\ s \notin cancel
  /\ IF reply[s] # Invalid
     THEN Ends(s, reply[s]) /\ UNCHANGED rows
     ELSE Record(s, attempt[s], reply[s]) /\ Proceed(s, attempt[s] + 1)
  /\ UNCHANGED <<ledger, launches, main, reply, cancel, threads, choice>>
Written(s) ==
  /\ pc[s] = "writing" /\ s \notin cancel
  /\ Record(s, attempt[s], reply[s])
  /\ IF reply[s] # Invalid THEN Ends(s, reply[s]) ELSE Proceed(s, attempt[s] + 1)
  /\ UNCHANGED <<ledger, launches, main, reply, cancel, threads, choice>>

\* A fatal request error, or a write that fails, raises in the task.
Raise(s) ==
  /\ pc[s] \in {"requesting", "writing", "noting"} /\ s \notin cancel
  /\ Moves(s, "failed")
  /\ UNCHANGED <<rows, ledger, launches, main, attempt, reply, result, cancel, threads, choice>>

\* A cancellation is delivered where the task waits.  A row that was waiting
\* for the lock is dropped; one in the hands of its thread is still written.
Deliver(s) ==
  /\ s \in cancel /\ ~Over(s)
  /\ Moves(s, "cancelled")
  /\ cancel' = cancel \ {s}
  /\ threads' = IF pc[s] = "writing" THEN threads \cup {<<s, attempt[s], reply[s]>>} ELSE threads
  /\ UNCHANGED <<rows, ledger, launches, main, attempt, reply, result, choice>>

ThreadWrites ==
  \E w \in threads :
    /\ Record(w[1], w[2], w[3])
    /\ threads' = threads \ {w}
    /\ UNCHANGED <<ledger, launches, main, slotVars, cancel, choice>>

----------------------------------------------------------------------------
(* Judgments and selection *)

Valid(f) == {s \in Slots : s[1] = f /\ result[s] # Invalid}
Total(f) == FoldSet(LAMBDA s, sum : sum + result[s], 0, Valid(f))
Count(f) == Cardinality(Valid(f))

MeanAbove(f, g) == Total(f) * Count(g) > Total(g) * Count(f)

\* finalist_rank_key with judges: a mean before none, then the higher mean, the
\* shorter proof, and checkpoint order.
BugBeats(f, g) ==
  LET graded(x) == Max({1, Count(x)})
      above(x, y) == Total(x) * graded(y) > Total(y) * graded(x)
      tied == ~above(f, g) /\ ~above(g, f) IN
  \/ above(f, g)
  \/ tied /\ ProofLength[f] < ProofLength[g]
  \/ tied /\ ProofLength[f] = ProofLength[g] /\ Place[f] < Place[g]
Beats(f, g) ==
  LET tied == (Count(f) = 0 <=> Count(g) = 0) /\ ~MeanAbove(f, g) /\ ~MeanAbove(g, f) IN
  \/ Count(f) # 0 /\ Count(g) = 0
  \/ Count(f) # 0 /\ Count(g) # 0 /\ MeanAbove(f, g)
  \/ tied /\ ProofLength[f] < ProofLength[g]
  \/ tied /\ ProofLength[f] = ProofLength[g] /\ Place[f] < Place[g]

\* Every slot has ended normally: gather returns and the finalist is selected.
Select ==
  /\ main = "judging" /\ \A s \in Slots : pc[s] = "done"
  /\ main' = "selected"
  /\ choice' = {f \in Finalists : \A g \in Finalists \ {f} : Beats(f, g)}
  /\ UNCHANGED <<rows, ledger, launches, slotVars, cancel, threads>>

\* The first failure, or the cancellation of the problem, cancels every slot.
CancelAll == main' = "stopping" /\ cancel' = {s \in Slots : ~Over(s)}
Stop ==
  /\ main = "judging"
  /\ CancelAll
  /\ UNCHANGED <<rows, ledger, launches, slotVars, threads, choice>>
Fails ==
  /\ main = "judging" /\ \E s \in Slots : pc[s] = "failed"
  /\ CancelAll
  /\ UNCHANGED <<rows, ledger, launches, slotVars, threads, choice>>

\* Every task is over and the process, with its threads, ends.
Stopped ==
  /\ main = "stopping" /\ (\A s \in Slots : Over(s)) /\ threads = {}
  /\ main' = "stopped"
  /\ UNCHANGED <<rows, ledger, launches, slotVars, cancel, threads, choice>>

\* The process is killed: a row being written is on disk or it is not.
Crash ==
  /\ main \in {"judging", "stopping"}
  /\ \/ UNCHANGED rows
     \/ \E s \in Slots : (pc[s] = "writing" /\ Record(s, attempt[s], reply[s]))
  /\ main' = "crashed"
  /\ threads' = {}
  /\ UNCHANGED <<ledger, launches, slotVars, cancel, choice>>

Init ==
  /\ rows = [s \in Slots |-> [a \in Attempts |-> <<>>]]
  /\ ledger = {} /\ launches = 1 /\ main = "judging" /\ choice = {}
  /\ pc = [s \in Slots |-> "created"]
  /\ attempt = [s \in Slots |-> 0]
  /\ reply = [s \in Slots |-> Invalid]
  /\ result = [s \in Slots |-> Invalid]
  /\ cancel = {} /\ threads = {}

\* A later launch comes to the same finalists and scans judge.jsonl.
OnDisk == {w \in Slots \X Attempts : rows[w[1]][w[2]] # <<>>}
Relaunch ==
  /\ main \in {"stopped", "crashed"} /\ launches < MaxLaunches
  /\ launches' = launches + 1 /\ main' = "judging"
  /\ ledger' = OnDisk
  /\ pc' = [s \in Slots |-> "created"]
  /\ attempt' = [s \in Slots |-> 0]
  /\ reply' = [s \in Slots |-> Invalid]
  /\ result' = [s \in Slots |-> Invalid]
  /\ cancel' = {} /\ threads' = {}
  /\ UNCHANGED <<rows, choice>>

Up == main \in {"judging", "stopping"}

Slot(s) ==
  \/ Begin(s) \/ Respond(s) \/ Park(s) \/ Noted(s) \/ Lock(s) \/ Written(s)
  \/ Raise(s) \/ Deliver(s)

Process == (\E s \in Slots : Up /\ Slot(s)) \/ ThreadWrites \/ Select \/ Fails \/ Stopped

Next == Process \/ Stop \/ Crash \/ Relaunch

Spec == Init /\ [][Next]_vars

\* The event loop and its threads run, and every request ends
\* (RequestLayer!EveryRequestEnds).
FairSpec ==
  /\ Spec
  /\ \A s \in Slots : WF_vars(Up /\ Slot(s))
  /\ WF_vars(ThreadWrites) /\ WF_vars(Select) /\ WF_vars(Fails) /\ WF_vars(Stopped)

----------------------------------------------------------------------------
(* Properties *)

\* Every variable keeps its type, and what is being recorded is not on disk yet.
TypeOK ==
  /\ rows \in [Slots -> [Attempts -> Seq(Replies)]]
  /\ ledger \subseteq Slots \X Attempts
  /\ launches \in Nat
  /\ main \in {"judging", "stopping", "selected", "stopped", "crashed"}
  /\ pc \in [Slots -> {"created", "requesting", "locking", "writing", "noting",
                       "done", "failed", "cancelled"}]
  /\ attempt \in [Slots -> Attempts]
  /\ reply \in [Slots -> Replies] /\ result \in [Slots -> Replies]
  /\ cancel \subseteq Slots
  /\ threads \subseteq Slots \X Attempts \X Replies
  /\ choice \subseteq Finalists

\* Across crashes and relaunches an attempt is recorded at most once, in order,
\* and only after invalid ones: no slot is judged again once it has a score.
AttemptsInOrder ==
  \A s \in Slots, a \in Attempts :
    /\ Len(rows[s][a]) <= 1
    /\ rows[s][a] # <<>> => \A b \in 0..(a - 1) : rows[s][b] = <<Invalid>>

\* A slot that has ended counts with the score that is on disk, and without one
\* only when no score of it is on disk.
ResultsFromDisk ==
  \A s \in Slots : pc[s] = "done" =>
    IF result[s] # Invalid
    THEN \E a \in Attempts : rows[s][a] = <<result[s]>>
    ELSE \A a \in Attempts : rows[s][a] \in {<<>>, <<Invalid>>}

\* The selected finalist: none has a higher mean of valid judgments, and one
\* that no judge graded is selected only when no finalist was graded.
SelectionIsBest ==
  main = "selected" =>
    /\ Cardinality(choice) = 1
    /\ \A f \in choice, g \in Finalists :
         /\ Count(f) = 0 => Count(g) = 0
         /\ Total(g) * Count(f) <= Total(f) * Count(g)

\* Judging comes to an end, stopped or not.
JudgingEnds == Up ~> ~Up

=============================================================================
