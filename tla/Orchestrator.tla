---------------------------- MODULE Orchestrator ----------------------------
(***************************************************************************)
(* The search for a proof of one problem, as class ProblemOrchestrator of  *)
(* nemotron_imo_tts/orchestrator.py runs it, with the rows it persists and *)
(* the ledger (resume.py) that a relaunch reads back.                      *)
(*                                                                         *)
(* A round starts one pipeline per sample (prompt or parent, checkpoint,   *)
(* slot).  A pipeline requests a proof, persists the response, merges it   *)
(* with an identical proof or sends it to the verifier panel, persists the *)
(* votes, and concludes.  The first accepted proof of a checkpoint becomes *)
(* its finalist and cancels the checkpoint's other pipelines.              *)
(*                                                                         *)
(* The pipelines are asyncio tasks: an action is what one of them does     *)
(* between two suspension points.  A cancellation is a flag that takes     *)
(* effect when the task is next scheduled, so the call the task waits for  *)
(* may still complete first.  Only rows on disk survive a relaunch.        *)
(*                                                                         *)
(* A definition named Bug... is a mutated form of the one that follows it, *)
(* which a property must tell from the code's (PROJECT.json, mutants).     *)
(***************************************************************************)
EXTENDS Integers, Sequences, FiniteSets

CONSTANTS
  NumCheckpoints,   \* checkpoints, numbered in configuration order
  NumPrompts,       \* generation prompts
  GenSamples,       \* generation samples per prompt, by checkpoint
  RefineSamples,    \* refinement samples per parent, by checkpoint
  ParentsPerRound,  \* proofs a refinement round starts from, at most
  MaxRounds,        \* round budget of the search
  PanelSize,        \* votes on a proof: verifiers times judgments of each
  Replies,          \* responses of a checkpoint
  ProofOf,          \* the proof text of a response; NoText: not a valid proof
  SelfEval,         \* the self-evaluation score of a response
  NoReply, NoText,  \* neither a response nor a text
  Judgments,        \* the judgments a verifier response may parse to
  MaxLaunches       \* bound on launches: the first one and the relaunches

Checkpoints == 1..NumCheckpoints
Panel       == 1..PanelSize
Rounds      == 1..MaxRounds
Groups      == (1..NumPrompts) \cup (1..ParentsPerRound)
Slots       == UNION {1..GenSamples[c] : c \in Checkpoints}
                 \cup UNION {1..RefineSamples[c] : c \in Checkpoints}
Texts       == {ProofOf[r] : r \in Replies} \ {NoText}
Scores      == {"one", "half", "zero"}

(* A sample is <<prompt or trial, checkpoint, slot>>; with its round it is *)
(* the identity of its request.  A vote's identity names round and text.   *)
Samples == Groups \X Checkpoints \X Slots
GenIds  == Rounds \X Samples
VoteIds == Rounds \X Texts \X Panel

ASSUME SizesAssumption ==
  /\ {NumCheckpoints, NumPrompts, ParentsPerRound, MaxRounds,
      PanelSize, MaxLaunches} \subseteq Nat \ {0}
  /\ GenSamples    \in [Checkpoints -> Nat \ {0}]
  /\ RefineSamples \in [Checkpoints -> Nat \ {0}]

ASSUME RepliesAssumption ==
  /\ NoReply \notin Replies
  /\ SelfEval \in [Replies -> Nat]
  /\ ProofOf = [r \in Replies |-> ProofOf[r]]

ASSUME JudgmentsAssumption == Judgments \subseteq Scores \cup {"invalid"}

VARIABLES
  phase,       \* where run() is: "spawning" a round, "searching" (awaiting
               \* it), "draining" its cancelled tasks, "finished", "exited"
  round,       \* the current round
  parents,     \* the texts this round refines, by trial
  launch,      \* how many times the search was started
  ending,      \* why it drains: "none", "fatal" (a task's error), "stopped"
  failed,      \* a task of this launch ended with an exception
  task,        \* the pipeline of each sample
  proofs,      \* the ProofRecord of each text
  nextId,      \* the next proof id
  finalists,   \* the accepted proof of each checkpoint
  stopped,     \* the checkpoints that stopped
  outcome,     \* the SearchResult
  genRows,     \* disk: the rows of each generation or refinement identity
  voteRows,    \* disk: the rows of each vote identity
  ledgerGens,  \* the generation identities the launch found on disk
  ledgerVotes  \* the vote identities the launch found on disk

diskVars   == <<genRows, voteRows>>
ledgerVars == <<ledgerGens, ledgerVotes>>
roundVars  == <<round, parents, launch, outcome>>
proofVars  == <<proofs, nextId, finalists, stopped>>
vars == <<phase, ending, failed, task, roundVars, proofVars, diskVars,
          ledgerVars>>

-----------------------------------------------------------------------------
(* Pipelines.  reply: the response held.  sink: "open" while a row is      *)
(* being written, "flush" once a cancellation waits for that write.        *)
(* cancel: a cancellation not yet delivered.  cut: the panel was           *)
(* interrupted.  unsaved: the received votes not on disk yet.              *)

PipelineStates == {"idle", "created", "requesting", "recording", "parking",
                   "verifying", "noting", "voting", "done"}
VoteStates == Judgments \cup {"none", "open", "parked", "fatal", "cut"}

Idle == [pc |-> "idle", reply |-> NoReply, sink |-> "none", cancel |-> FALSE,
         cut |-> FALSE, votes |-> [p \in Panel |-> "none"], unsaved |-> {}]
Done    == [Idle EXCEPT !.pc = "done"]
Created == [Idle EXCEPT !.pc = "created"]

Absent == [verdict |-> "absent", owner |-> 0, id |-> 0, round |-> 0,
           self |-> 0, panel |-> [p \in Panel |-> "none"], accepted |-> FALSE,
           origins |-> {}, deps |-> {}]

Ckpt(t)    == t[2]
GenId(t)   == <<round, t>>
TextOf(t)  == ProofOf[task[t].reply]
Deps(t)    == IF round = 1 THEN {} ELSE {parents[t[1]]}
Live(t)    == task[t].pc \notin {"idle", "done"}
Running    == phase \in {"searching", "draining"}

(* The samples of a round, and the order its tasks are created in.         *)
Batch(r, ps) ==
  {t \in Samples :
     IF r = 1 THEN t[1] <= NumPrompts /\ t[3] <= GenSamples[t[2]]
              ELSE t[1] <= Len(ps) /\ t[3] <= RefineSamples[t[2]]}

Before(t, u) == \/ t[1] < u[1]
                \/ t[1] = u[1] /\ t[2] < u[2]
                \/ t[1] = u[1] /\ t[2] = u[2] /\ t[3] < u[3]

NewTasks(r, ps) ==
  [t \in Samples |-> IF t \in Batch(r, ps) THEN Created ELSE Idle]

(* Cancelling a task that is done does nothing.                            *)
Cancelled(tasks, S) ==
  [t \in Samples |-> IF t \in S /\ tasks[t].pc \notin {"idle", "done"}
                     THEN [tasks[t] EXCEPT !.cancel = TRUE] ELSE tasks[t]]

Retire(t) == task' = [task EXCEPT ![t] = Done]

(* Frame of the actions that change nothing but tasks.                     *)
TaskOnly == UNCHANGED <<phase, ending, failed, roundVars, proofVars, diskVars,
                        ledgerVars>>

-----------------------------------------------------------------------------
(* Scores, evidence and ranking (scoring.py).  A complete panel has as     *)
(* many votes of each verifier, so its mean score ranks as its sum.        *)

Verdict(votes) == IF \E p \in Panel : votes[p] \notin Scores
                  THEN "incomplete" ELSE "complete"
Passes(votes)  == \A p \in Panel : votes[p] = "one"
Points(votes)  == 2 * Cardinality({p \in Panel : votes[p] = "one"})
                    + Cardinality({p \in Panel : votes[p] = "half"})

Evidence == {x \in Texts : proofs[x].verdict = "complete"}

BugRanksBefore(x, y) ==
  LET a == proofs[x]   b == proofs[y] IN
  \/ a.self > b.self
  \/ /\ a.self = b.self
     /\ \/ Points(a.panel) > Points(b.panel)
        \/ Points(a.panel) = Points(b.panel) /\ a.id < b.id

RanksBefore(x, y) ==
  LET a == proofs[x]   b == proofs[y] IN
  \/ Points(a.panel) > Points(b.panel)
  \/ /\ Points(a.panel) = Points(b.panel)
     /\ \/ a.self > b.self
        \/ a.self = b.self /\ a.round > b.round
        \/ a.self = b.self /\ a.round = b.round /\ a.id < b.id

(* The first k of the ranking, in order: sorted(...)[:k].                  *)
IsTop(ps, k) ==
  LET chosen == {ps[i] : i \in DOMAIN ps} IN
  /\ \A i, j \in DOMAIN ps : i < j => RanksBefore(ps[i], ps[j])
  /\ \A x \in Evidence \ chosen :
       Len(ps) = k /\ \A y \in chosen : RanksBefore(y, x)

SelectParents ==
  {ps \in UNION {[1..k -> Evidence] : k \in 0..ParentsPerRound} :
     IsTop(ps, ParentsPerRound)}

-----------------------------------------------------------------------------
(* A launch scans the directory and starts round 1 with empty memory.      *)
NoProofs    == [x \in Texts |-> Absent]
NoFinalists == [c \in Checkpoints |-> NoText]
NoOutcome   == [status |-> "none", rounds |-> 0, finalists |-> NoFinalists]

Init ==
  /\ phase = "spawning" /\ round = 1 /\ parents = <<>> /\ launch = 1
  /\ ending = "none" /\ failed = FALSE
  /\ task = NewTasks(1, <<>>)
  /\ proofs = NoProofs /\ nextId = 1
  /\ finalists = NoFinalists /\ stopped = {}
  /\ outcome = NoOutcome
  /\ genRows  = [i \in GenIds |-> <<>>]
  /\ voteRows = [i \in VoteIds |-> <<>>]
  /\ ledgerGens = {} /\ ledgerVotes = {}

(* The process dies at any point, or is started again after it exited.     *)
Relaunch ==
  /\ launch < MaxLaunches
  /\ launch' = launch + 1
  /\ phase' = "spawning" /\ round' = 1 /\ parents' = <<>>
  /\ ending' = "none" /\ failed' = FALSE
  /\ task' = NewTasks(1, <<>>)
  /\ proofs' = NoProofs /\ nextId' = 1
  /\ finalists' = NoFinalists /\ stopped' = {}
  /\ outcome' = NoOutcome
  /\ ledgerGens'  = {i \in GenIds : genRows[i] # <<>>}
  /\ ledgerVotes' = {i \in VoteIds : voteRows[i] # <<>>}
  /\ UNCHANGED diskVars

-----------------------------------------------------------------------------
(* What a pipeline does with a recorded response, without suspending.      *)

BugKeepStopped(t, reply) == ProofOf[reply] = NoText

Discarded(t, reply) == Ckpt(t) \in stopped \/ ProofOf[reply] = NoText

Discard(t, reply) ==
  /\ Discarded(t, reply)
  /\ Retire(t)
  /\ UNCHANGED <<proofs, nextId>>

Merge(t, reply) ==
  LET x  == ProofOf[reply]
      pr == proofs[x] IN
  /\ ~Discarded(t, reply)
  /\ pr.verdict # "absent"
  /\ proofs' = [proofs EXCEPT ![x] =
       [pr EXCEPT !.origins = pr.origins \cup {GenId(t)},
                  !.deps = pr.deps \cup Deps(t)]]
  /\ Retire(t)
  /\ UNCHANGED nextId

(* Votes on disk are replayed; the others are requested.                   *)
BugReplayed(x) == [p \in Panel |-> "open"]

Replayed(x) ==
  [p \in Panel |-> IF <<round, x, p>> \in ledgerVotes
                   THEN voteRows[<<round, x, p>>][1] ELSE "open"]

StartPanel(t, reply) ==
  LET x == ProofOf[reply] IN
  /\ ~Discarded(t, reply)
  /\ proofs[x].verdict = "absent"
  /\ proofs' = [proofs EXCEPT ![x] =
       [Absent EXCEPT !.verdict = "open", !.owner = Ckpt(t), !.id = nextId,
                      !.round = round, !.self = SelfEval[reply],
                      !.origins = {GenId(t)}, !.deps = Deps(t)]]
  /\ nextId' = nextId + 1
  /\ task' = [task EXCEPT ![t] = [Idle EXCEPT !.pc = "verifying",
                                              !.reply = reply,
                                              !.votes = Replayed(x)]]

Settle(t, reply) ==
  /\ Discard(t, reply) \/ Merge(t, reply) \/ StartPanel(t, reply)
  /\ UNCHANGED <<finalists, stopped>>

(* Tasks take their first step in the order they were created in, before   *)
(* anything else runs.  A response on disk is replayed, not requested.     *)
Spawn(t) ==
  /\ phase = "spawning"
  /\ task[t].pc = "created"
  /\ \A u \in Samples : Before(u, t) => task[u].pc # "created"
  /\ phase' = IF \E u \in Samples \ {t} : task[u].pc = "created"
              THEN "spawning" ELSE "searching"
  /\ IF GenId(t) \in ledgerGens
     THEN Settle(t, genRows[GenId(t)][1].reply)
     ELSE /\ Ckpt(t) \notin stopped
          /\ task' = [task EXCEPT ![t].pc = "requesting"]
          /\ UNCHANGED proofVars
  /\ UNCHANGED <<roundVars, ending, failed, diskVars, ledgerVars>>

-----------------------------------------------------------------------------
(* The generation request.  A call that finishes in the turn its           *)
(* cancellation arrives in wins over the cancellation (client.py).         *)

Respond(t, reply) ==
  /\ Running /\ task[t].pc = "requesting"
  /\ task' = [task EXCEPT ![t] = [Idle EXCEPT !.pc = "recording",
                                              !.reply = reply,
                                              !.sink = "open"]]
  /\ TaskOnly

ParkRequest(t) ==
  /\ Running /\ task[t].pc = "requesting" /\ ~task[t].cancel
  /\ task' = [task EXCEPT ![t].pc = "parking", ![t].sink = "open"]
  /\ TaskOnly

FatalRequest(t) ==
  /\ Running /\ task[t].pc = "requesting" /\ ~task[t].cancel
  /\ failed' = TRUE
  /\ Retire(t)
  /\ UNCHANGED <<phase, ending, roundVars, proofVars, diskVars, ledgerVars>>

AbandonRequest(t) ==
  /\ Running /\ task[t].pc = "requesting" /\ task[t].cancel
  /\ Retire(t)
  /\ TaskOnly

-----------------------------------------------------------------------------
(* Writing rows.  The write itself is shielded from a cancellation, which  *)
(* waits for it and then ends the pipeline; a second cancellation reaches  *)
(* the write, which may or may not have happened by then.                  *)

Writing(t)  == Running /\ task[t].sink = "open" /\ ~task[t].cancel
Flushing(t) == Running /\ task[t].sink = "flush"

DeliverCancel(t) ==
  /\ Running /\ task[t].sink = "open" /\ task[t].cancel
  /\ task' = [task EXCEPT ![t].sink = "flush", ![t].cancel = FALSE]
  /\ TaskOnly

LoseRow(t) ==
  /\ Flushing(t) /\ task[t].cancel
  /\ Retire(t)
  /\ TaskOnly

FailWrite(t) ==
  /\ Writing(t) \/ Flushing(t)
  /\ failed' = TRUE
  /\ Retire(t)
  /\ UNCHANGED <<phase, ending, roundVars, proofVars, diskVars, ledgerVars>>

WriteGen(t) ==
  genRows' = [genRows EXCEPT ![GenId(t)] =
                Append(@, [reply |-> task[t].reply, parents |-> Deps(t)])]

SaveResponse(t) ==
  /\ task[t].pc = "recording"
  /\ WriteGen(t)
  /\ \/ Writing(t) /\ Settle(t, task[t].reply)
     \/ Flushing(t) /\ Retire(t) /\ UNCHANGED proofVars
  /\ UNCHANGED <<phase, ending, failed, roundVars, voteRows, ledgerVars>>

SaveParked(t) ==
  /\ task[t].pc = "parking"
  /\ Writing(t) \/ Flushing(t)
  /\ Retire(t)
  /\ TaskOnly

-----------------------------------------------------------------------------
(* The verifier panel: one request per vote, all in flight together.  A    *)
(* cancellation of the pipeline cancels them all, and again a call that    *)
(* finishes in that turn still returns its response.                       *)

Answer(t, p, v) ==
  /\ Running /\ task[t].pc = "verifying" /\ task[t].votes[p] = "open"
  /\ task' = [task EXCEPT ![t].votes[p] = v]
  /\ TaskOnly

Judge(t, p)    == \E j \in Judgments : Answer(t, p, j)
ParkVote(t, p) == ~task[t].cancel /\ Answer(t, p, "parked")
FatalVote(t, p) == ~task[t].cancel /\ Answer(t, p, "fatal")
CutVote(t, p)  == task[t].cancel /\ Answer(t, p, "cut")

(* The panel is judged.  An exception of a vote, or an interruption,       *)
(* leaves the proof without a verdict.                                     *)
Raise(t, votes) ==
  /\ \E p \in Panel : votes[p] = "fatal"
  /\ failed' = TRUE
  /\ Retire(t)
  /\ UNCHANGED proofVars

Interrupted(t, votes, cut) ==
  /\ \A p \in Panel : votes[p] # "fatal"
  /\ cut
  /\ Retire(t)
  /\ UNCHANGED <<failed, proofVars>>

Judged(t, votes, cut) ==
  ~cut /\ \A p \in Panel : votes[p] # "fatal"

Reject(t, votes, cut) ==
  /\ Judged(t, votes, cut) /\ ~Passes(votes)
  /\ proofs' = [proofs EXCEPT ![TextOf(t)] =
       [proofs[TextOf(t)] EXCEPT !.verdict = Verdict(votes), !.panel = votes]]
  /\ Retire(t)
  /\ UNCHANGED <<failed, nextId, finalists, stopped>>

BugSiblings(t) == {u \in Samples : Ckpt(u) = Ckpt(t) /\ task[u].pc # "voting"}

Siblings(t) == {u \in Samples : Ckpt(u) = Ckpt(t)}

Accept(t, votes, cut) ==
  LET c == Ckpt(t) IN
  /\ Judged(t, votes, cut) /\ Passes(votes)
  /\ proofs' = [proofs EXCEPT ![TextOf(t)] =
       [proofs[TextOf(t)] EXCEPT !.verdict = "complete", !.panel = votes,
                                 !.accepted = TRUE]]
  /\ finalists' = IF finalists[c] = NoText
                  THEN [finalists EXCEPT ![c] = TextOf(t)] ELSE finalists
  /\ stopped' = stopped \cup {c}
  /\ task' = Cancelled([task EXCEPT ![t] = Done], Siblings(t))
  /\ UNCHANGED <<failed, nextId>>

Conclude(t, votes, cut) ==
  \/ Raise(t, votes)
  \/ Interrupted(t, votes, cut)
  \/ Reject(t, votes, cut)
  \/ Accept(t, votes, cut)

BugUnsavedUnparsed(t) ==
  {p \in Panel : <<round, TextOf(t), p>> \notin ledgerVotes}

BugUnsavedReplayed(t) == {p \in Panel : task[t].votes[p] \in Judgments}

BugUnsavedWholePanel(t) ==
  {p \in Panel : /\ task[t].votes[p] \in Judgments
                 /\ \A q \in Panel : <<round, TextOf(t), q>> \notin ledgerVotes}

Unsaved(t) ==
  {p \in Panel : /\ task[t].votes[p] \in Judgments
                 /\ <<round, TextOf(t), p>> \notin ledgerVotes}

(* All votes are in.  An interrupted panel drops its errors; otherwise the *)
(* parked votes are noted in errors.jsonl before any vote is written.      *)
Collect(t) ==
  LET cut    == task[t].cancel
      raw    == task[t].votes
      votes  == [p \in Panel |-> IF cut /\ raw[p] \in {"parked", "fatal"}
                                 THEN "cut" ELSE raw[p]]
      parked == \E p \in Panel : votes[p] = "parked"
      next   == [task[t] EXCEPT !.cancel = FALSE, !.cut = cut, !.votes = votes,
                                !.unsaved = Unsaved(t), !.sink = "open"] IN
  /\ Running /\ task[t].pc = "verifying"
  /\ \A p \in Panel : raw[p] # "open"
  /\ \/ /\ parked
        /\ task' = [task EXCEPT ![t] = [next EXCEPT !.pc = "noting"]]
        /\ UNCHANGED <<failed, proofVars>>
     \/ /\ ~parked /\ Unsaved(t) # {}
        /\ task' = [task EXCEPT ![t] = [next EXCEPT !.pc = "voting"]]
        /\ UNCHANGED <<failed, proofVars>>
     \/ /\ ~parked /\ Unsaved(t) = {}
        /\ Conclude(t, votes, cut)
  /\ UNCHANGED <<phase, ending, roundVars, diskVars, ledgerVars>>

(* The error rows are written; a cancellation here skips the votes.        *)
NoteErrors(t) ==
  /\ task[t].pc = "noting"
  /\ \/ Flushing(t) /\ Retire(t) /\ UNCHANGED <<failed, proofVars>>
     \/ /\ Writing(t) /\ task[t].unsaved # {}
        /\ task' = [task EXCEPT ![t].pc = "voting"]
        /\ UNCHANGED <<failed, proofVars>>
     \/ /\ Writing(t) /\ task[t].unsaved = {}
        /\ Conclude(t, task[t].votes, task[t].cut)
  /\ UNCHANGED <<phase, ending, roundVars, diskVars, ledgerVars>>

(* The votes are written one at a time, in panel order.                    *)
WriteVote(t, p) ==
  voteRows' = [voteRows EXCEPT
    ![<<proofs[TextOf(t)].round, TextOf(t), p>>] =
      Append(@, task[t].votes[p])]

SaveVote(t, p) ==
  /\ task[t].pc = "voting"
  /\ p \in task[t].unsaved
  /\ \A q \in task[t].unsaved : p <= q
  /\ WriteVote(t, p)
  /\ \/ Flushing(t) /\ Retire(t) /\ UNCHANGED <<failed, proofVars>>
     \/ /\ Writing(t) /\ task[t].unsaved # {p}
        /\ task' = [task EXCEPT ![t].unsaved = @ \ {p}]
        /\ UNCHANGED <<failed, proofVars>>
     \/ /\ Writing(t) /\ task[t].unsaved = {p}
        /\ Conclude(t, task[t].votes, task[t].cut)
  /\ UNCHANGED <<phase, ending, roundVars, genRows, ledgerVars>>

-----------------------------------------------------------------------------
(* Rounds.                                                                 *)

AllDone == \A t \in Samples : ~Live(t)

Accepted == \E c \in Checkpoints : finalists[c] # NoText

RoundOver == phase = "searching" /\ AllDone /\ ~failed

Refine ==
  /\ RoundOver /\ ~Accepted /\ round < MaxRounds
  /\ round' = round + 1
  /\ parents' \in SelectParents
  /\ task' = NewTasks(round', parents')
  /\ phase' = IF parents' = <<>> THEN "searching" ELSE "spawning"
  /\ UNCHANGED <<launch, outcome, ending, failed, proofVars, diskVars,
                 ledgerVars>>

(* The SearchResult lists its finalists in checkpoint order.               *)
Finish(status, list) ==
  /\ RoundOver
  /\ Accepted \/ round = MaxRounds
  /\ phase' = "finished"
  /\ outcome' = [status |-> status, rounds |-> round, finalists |-> list]
  /\ UNCHANGED <<round, parents, launch, ending, failed, task, proofVars,
                 diskVars, ledgerVars>>

FinishAccepted == Accepted /\ Finish("accepted", finalists)

FinishFallback ==
  /\ ~Accepted
  /\ \E best \in Evidence :
       /\ IsTop(<<best>>, 1)
       /\ Finish("fallback", [NoFinalists EXCEPT ![proofs[best].owner] = best])

FinishEmpty == ~Accepted /\ Evidence = {} /\ Finish("no_candidates", NoFinalists)

(* A task's exception cancels the rest of the batch and leaves run() once  *)
(* they are done.                                                          *)
BugBatchFails ==
  /\ phase = "searching" /\ failed /\ ~AllDone
  /\ phase' = "draining" /\ ending' = "fatal"
  /\ task' = Cancelled(task, Samples)
  /\ UNCHANGED <<failed, roundVars, proofVars, diskVars, ledgerVars>>

BatchFails ==
  /\ phase = "searching" /\ failed
  /\ phase' = "draining" /\ ending' = "fatal"
  /\ task' = Cancelled(task, Samples)
  /\ UNCHANGED <<failed, roundVars, proofVars, diskVars, ledgerVars>>

(* The driver cancels run(); while it drains a failed batch, that          *)
(* cancellation replaces the error.                                        *)
Stop ==
  /\ Running /\ ending # "stopped"
  /\ phase' = "draining" /\ ending' = "stopped"
  /\ task' = Cancelled(task, Samples)
  /\ UNCHANGED <<failed, roundVars, proofVars, diskVars, ledgerVars>>

Drained ==
  /\ phase = "draining" /\ AllDone
  /\ phase' = "exited"
  /\ UNCHANGED <<ending, failed, task, roundVars, proofVars, diskVars,
                 ledgerVars>>

Terminated ==
  /\ phase \in {"finished", "exited"}
  /\ UNCHANGED vars

-----------------------------------------------------------------------------
RequestStep(t) ==
  \/ \E reply \in Replies : Respond(t, reply)
  \/ ParkRequest(t) \/ FatalRequest(t) \/ AbandonRequest(t)

WriteStep(t) ==
  \/ DeliverCancel(t) \/ LoseRow(t) \/ FailWrite(t)
  \/ SaveResponse(t) \/ SaveParked(t) \/ NoteErrors(t)
  \/ \E p \in Panel : SaveVote(t, p)

VoteStep(t) ==
  \E p \in Panel : Judge(t, p) \/ ParkVote(t, p) \/ FatalVote(t, p)
                     \/ CutVote(t, p)

TaskStep(t) ==
  Spawn(t) \/ RequestStep(t) \/ WriteStep(t) \/ VoteStep(t) \/ Collect(t)

RoundStep == \/ Refine \/ FinishAccepted \/ FinishFallback \/ FinishEmpty
             \/ BatchFails \/ Drained

(* What the process does by itself; a request ends because the client      *)
(* times it out, and a write ends.                                         *)
Progress == RoundStep \/ \E t \in Samples : TaskStep(t)

Next == Progress \/ Stop \/ Relaunch \/ Terminated

Spec     == Init /\ [][Next]_vars
FairSpec == Spec /\ WF_vars(Progress)
-----------------------------------------------------------------------------
(* Properties.                                                             *)

Pipeline == [pc : PipelineStates, reply : Replies \cup {NoReply},
             sink : {"none", "open", "flush"}, cancel : BOOLEAN, cut : BOOLEAN,
             votes : [Panel -> VoteStates], unsaved : SUBSET Panel]

ProofRecord == [verdict : {"absent", "open", "incomplete", "complete"},
                owner : Checkpoints \cup {0}, id : Nat, round : Nat,
                self : Nat, panel : [Panel -> VoteStates], accepted : BOOLEAN,
                origins : SUBSET GenIds, deps : SUBSET Texts]

GenRow == [reply : Replies, parents : SUBSET Texts]

(* The variables have the types their comments give them.                  *)
TypeOK ==
  /\ phase \in {"spawning", "searching", "draining", "finished", "exited"}
  /\ round \in Rounds /\ parents \in Seq(Texts)
  /\ launch \in 1..MaxLaunches
  /\ ending \in {"none", "fatal", "stopped"} /\ failed \in BOOLEAN
  /\ task \in [Samples -> Pipeline]
  /\ proofs \in [Texts -> ProofRecord] /\ nextId \in Nat
  /\ finalists \in [Checkpoints -> Texts \cup {NoText}]
  /\ stopped \in SUBSET Checkpoints
  /\ outcome \in [status : {"none", "accepted", "fallback", "no_candidates"},
                  rounds : Rounds \cup {0},
                  finalists : [Checkpoints -> Texts \cup {NoText}]]
  /\ genRows \in [GenIds -> Seq(GenRow)]
  /\ voteRows \in [VoteIds -> Seq(Judgments)]
  /\ ledgerGens \in SUBSET GenIds /\ ledgerVotes \in SUBSET VoteIds

(* A proof is accepted only as the finalist of the checkpoint that found   *)
(* it: the completion race _on_accepted guards against (a second accepted  *)
(* proof of a checkpoint, orchestrator.py:185) cannot happen, because the  *)
(* acceptance cancels every sibling before it can conclude.                *)
AcceptedIsFinalist ==
  \A x \in Texts : proofs[x].accepted => finalists[proofs[x].owner] = x

(* The search decides on nothing that a crash could take back: a recorded  *)
(* proof was written by each of its origins, and a complete panel is on    *)
(* disk vote by vote, under the identities a relaunch looks up.            *)
DecidedFromDisk ==
  \A x \in Texts :
    LET pr == proofs[x] IN
    /\ \A i \in pr.origins :
         genRows[i] # <<>> /\ ProofOf[genRows[i][1].reply] = x
    /\ pr.verdict = "complete" =>
         \A p \in Panel : /\ voteRows[<<pr.round, x, p>>] # <<>>
                          /\ voteRows[<<pr.round, x, p>>][1] = pr.panel[p]

(* "This pipeline never writes two rows for one identity" (resume.py:134), *)
(* across duplicate texts, cancellations and relaunches.                   *)
OneRowPerIdentity ==
  /\ \A i \in GenIds : Len(genRows[i]) <= 1
  /\ \A i \in VoteIds : Len(voteRows[i]) <= 1

(* A request whose response is on disk is replayed and never issued again, *)
(* whatever the launches before this one left there (resume.py:19).        *)
NeverReissued ==
  [][\A t \in Samples :
       /\ task[t].pc = "created" /\ task'[t].pc = "requesting"
            => genRows[GenId(t)] = <<>>
       /\ task[t].pc # "verifying" /\ task'[t].pc = "verifying"
            => \A p \in Panel : task'[t].votes[p] = "open"
                 => voteRows[<<round, ProofOf[task'[t].reply], p>>] = <<>>]_vars

(* A search that ends without an accepted proof overlooked none: no proof  *)
(* it found has a panel of ones on disk, and the fallback has the most     *)
(* points of those with a complete panel on disk.                          *)
DiskPanel(x) == [p \in Panel |->
  LET rows == voteRows[<<proofs[x].round, x, p>>] IN
  IF rows = <<>> THEN "none" ELSE rows[1]]

Found == {x \in Texts : proofs[x].verdict # "absent"}

OutcomeFollowsDisk ==
  phase = "finished" /\ outcome.status # "accepted" =>
    LET valid == {x \in Found : \A p \in Panel : DiskPanel(x)[p] \in Scores} IN
    /\ \A x \in Found : ~Passes(DiskPanel(x))
    /\ outcome.status = "no_candidates" <=> valid = {}
    /\ outcome.finalists = NoFinalists <=> valid = {}
    /\ \A best \in {outcome.finalists[c] : c \in Checkpoints} \ {NoText} :
         /\ best \in valid
         /\ \A x \in valid : Points(DiskPanel(x)) <= Points(DiskPanel(best))

(* What the search promises the rest of the program, with the panels that  *)
(* are complete on disk as the grades: see Search.  Once a checkpoint has a *)
(* finalist, for one, nothing of it is judged any more, not even a proof   *)
(* whose response outran its cancellation (orchestrator.py:452).           *)
Graded ==
  {<<i[1], i[2], Points([p \in Panel |-> voteRows[<<i[1], i[2], p>>][1]])>> :
     i \in {j \in Rounds \X Texts :
             \A p \in Panel : LET rows == voteRows[<<j[1], j[2], p>>] IN
               rows # <<>> /\ rows[1] \in Scores}}

Promise == INSTANCE Search WITH
  Full   <- 2 * PanelSize,
  graded <- Graded,
  found  <- [x \in Texts |-> <<proofs[x].owner, proofs[x].round>>],
  winner <- finalists,
  result <- [status |-> outcome.status, finalists |-> outcome.finalists]

ImplementsSearch == Promise!Spec

(* The search ends: every batch is waited for, whichever of its tasks were *)
(* cancelled, parked, failed or interrupted, and a stop drains.            *)
SearchHalts == <>[](phase \in {"finished", "exited"})

-----------------------------------------------------------------------------
(* What the documentation says and the code does not do.                   *)

(* "everything completed so far is persisted" (orchestrator.py:489): a     *)
(* pipeline that ends with no error has written every vote it received.    *)
CompletedResponsesKept ==
  [][\A t \in Samples :
       Live(t) /\ task'[t].pc = "done" /\ ~failed' =>
         \A p \in Panel : task[t].votes[p] \in Judgments =>
           voteRows'[<<round, TextOf(t), p>>] # <<>>]_vars

(* A request's identity is "derived from what it computes" (resume.py:17): *)
(* the parents a proof is recorded with are those its text was made from.  *)
DepsAreGenuine ==
  \A x \in Texts : \A y \in proofs[x].deps :
    \E i \in proofs[x].origins : y \in genRows[i][1].parents

=============================================================================
