------------------------- MODULE OrchestratorProofs -------------------------
(***************************************************************************)
(* Proofs about Orchestrator for every value of its constants: its types,  *)
(* whose proof an accepted one is, what of the search is on disk, and what *)
(* a search ends with.                                                     *)
(***************************************************************************)
EXTENDS Orchestrator, SequenceTheorems, FiniteSetTheorems, TLAPS

PanelPcs == {"verifying", "noting", "voting"}

(* What a pipeline holds where it is.                                      *)
PipelineOK(tk) ==
  /\ tk \in Pipeline
  /\ tk.pc = "recording" => tk.reply \in Replies
  /\ tk.pc \in PanelPcs => tk.reply \in Replies /\ ProofOf[tk.reply] # NoText
  /\ \A p \in tk.unsaved : tk.votes[p] \in Judgments

(* A live pipeline of a refinement round refines one of its parents.       *)
HasParent(t) == round = 1 \/ t[1] \in 1..Len(parents)

TaskInv == \A t \in Samples : /\ PipelineOK(task[t])
                              /\ Live(t) => HasParent(t)

(* The ledger lists rows that are on disk.                                 *)
LedgerInv == /\ \A i \in ledgerGens  : genRows[i] # <<>>
             /\ \A i \in ledgerVotes : voteRows[i] # <<>>

TypeInv == TypeOK /\ TaskInv /\ LedgerInv

-----------------------------------------------------------------------------
(* The pipelines a task may become.                                        *)
LEMMA FreshPipelines ==
  /\ PipelineOK(Idle) /\ PipelineOK(Done) /\ PipelineOK(Created)
  /\ Idle.pc = "idle" /\ Done.pc = "done" /\ Created.pc = "created"
PROOF BY DEF PipelineOK, Pipeline, PipelineStates, VoteStates, Idle, Done,
            Created, PanelPcs

(* Texts are the valid proofs among the responses.                         *)
LEMMA ReplyText ==
  ASSUME NEW r \in Replies
  PROVE  ProofOf[r] \in Texts \cup {NoText}
PROOF BY DEF Texts

(* Cancelling only raises flags.                                           *)
LEMMA CancelledTasks ==
  ASSUME NEW tasks \in [Samples -> Pipeline], NEW S,
         \A t \in Samples : PipelineOK(tasks[t])
  PROVE  /\ Cancelled(tasks, S) \in [Samples -> Pipeline]
         /\ \A t \in Samples : /\ PipelineOK(Cancelled(tasks, S)[t])
                               /\ Cancelled(tasks, S)[t].pc = tasks[t].pc
PROOF BY DEF Cancelled, PipelineOK, Pipeline

(* An action that only changes the pipeline of one live task.              *)
LEMMA TaskOnlyStep ==
  ASSUME TypeInv, TaskOnly, NEW t \in Samples, NEW tk,
         task' = [task EXCEPT ![t] = tk], PipelineOK(tk),
         tk.pc \in {"idle", "done"} \/ Live(t)
  PROVE  TypeInv'
<1>1. TypeOK'
  BY DEF TypeInv, TypeOK, TaskOnly, roundVars, proofVars, diskVars,
         ledgerVars, PipelineOK
<1>2. TaskInv'
  BY DEF TypeInv, TaskInv, TypeOK, TaskOnly, roundVars, PipelineOK, Live,
         HasParent
<1>3. LedgerInv'
  BY DEF TypeInv, LedgerInv, TaskOnly, diskVars, ledgerVars
<1>. QED BY <1>1, <1>2, <1>3 DEF TypeInv
(* Pipelines advance or end; none comes to life within a round.            *)
TasksAdvance ==
  /\ task' \in [Samples -> Pipeline]
  /\ \A u \in Samples : /\ PipelineOK(task'[u])
                        /\ task'[u].pc \notin {"idle", "done"} => Live(u)

(* The memory of the search keeps its type.                                *)
MemoryTyped ==
  /\ proofs' \in [Texts -> ProofRecord] /\ nextId' \in Nat
  /\ finalists' \in [Checkpoints -> Texts \cup {NoText}]
  /\ stopped' \in SUBSET Checkpoints

(* The conditions on pipelines survive every advance of them.              *)
LEMMA AdvanceTaskInv ==
  ASSUME TypeInv, TasksAdvance, UNCHANGED roundVars
  PROVE  TaskInv'
PROOF BY DEF TypeInv, TaskInv, TasksAdvance, roundVars, Live, HasParent,
             PipelineOK

(* Ending a pipeline is an advance of the pipelines.                       *)
LEMMA RetireAdvances ==
  ASSUME TypeInv, NEW t \in Samples, Retire(t)
  PROVE  TasksAdvance
PROOF BY FreshPipelines DEF TypeInv, TypeOK, TaskInv, Retire, TasksAdvance,
                            Live, PipelineOK

(* So is moving one live pipeline to another of its places.                *)
LEMMA OneAdvances ==
  ASSUME TypeInv, NEW t \in Samples, NEW tk, PipelineOK(tk),
         Live(t), task' = [task EXCEPT ![t] = tk]
  PROVE  TasksAdvance
PROOF BY DEF TypeInv, TypeOK, TaskInv, TasksAdvance, Live, PipelineOK

(* The parents of a live pipeline are texts.                               *)
LEMMA DepsAreTexts ==
  ASSUME TypeInv, NEW t \in Samples, Live(t)
  PROVE  Deps(t) \in SUBSET Texts
PROOF BY DEF TypeInv, TypeOK, TaskInv, HasParent, Deps

(* The identity of a pipeline's request is an identity.                    *)
LEMMA GenIdType ==
  ASSUME TypeInv, NEW t \in Samples
  PROVE  GenId(t) \in GenIds
PROOF BY DEF TypeInv, TypeOK, GenId, GenIds

(* A pipeline works for a checkpoint.                                      *)
LEMMA CkptType ==
  ASSUME NEW t \in Samples
  PROVE  Ckpt(t) \in Checkpoints
PROOF BY DEF Samples, Ckpt

(* A panel that is replayed from the ledger is a panel.                    *)
LEMMA ReplayedType ==
  ASSUME TypeInv, NEW x \in Texts
  PROVE  Replayed(x) \in [Panel -> VoteStates]
<1> SUFFICES ASSUME NEW p \in Panel, <<round, x, p>> \in ledgerVotes
             PROVE  voteRows[<<round, x, p>>][1] \in VoteStates
  BY DEF Replayed, VoteStates
<1>1. <<round, x, p>> \in VoteIds
  BY DEF TypeInv, TypeOK
<1>2. /\ voteRows[<<round, x, p>>] \in Seq(Judgments)
      /\ voteRows[<<round, x, p>>] # <<>>
  BY <1>1 DEF TypeInv, TypeOK, LedgerInv
<1>. QED BY <1>2 DEF VoteStates

(* Settling a response.                                                    *)
LEMMA SettleTyped ==
  ASSUME TypeInv, NEW t \in Samples, Live(t), NEW r \in Replies, Settle(t, r)
  PROVE  TasksAdvance /\ MemoryTyped
<1> DEFINE x == ProofOf[r]
<1>0. /\ proofs \in [Texts -> ProofRecord] /\ nextId \in Nat
      /\ finalists \in [Checkpoints -> Texts \cup {NoText}]
      /\ stopped \in SUBSET Checkpoints
      /\ finalists' = finalists /\ stopped' = stopped
  BY DEF TypeInv, TypeOK, Settle
<1>1. CASE Discard(t, r)
  BY <1>0, <1>1, RetireAdvances DEF Discard, MemoryTyped
<1>2. CASE Merge(t, r)
  <2>1. x \in Texts
    BY <1>2, ReplyText DEF Merge, Discarded
  <2>2. proofs' \in [Texts -> ProofRecord]
    <3> DEFINE pr == [proofs[x] EXCEPT
                       !.origins = proofs[x].origins \cup {GenId(t)},
                       !.deps = proofs[x].deps \cup Deps(t)]
    <3>0. proofs[x] \in ProofRecord
      BY <1>0, <2>1
    <3>1. pr \in ProofRecord
      BY <3>0, DepsAreTexts, GenIdType DEF ProofRecord
    <3>2. proofs' = [proofs EXCEPT ![x] = pr]
      BY <1>2 DEF Merge
    <3>. QED BY <1>0, <2>1, <3>1, <3>2
  <2>. QED BY <1>0, <1>2, <2>2, RetireAdvances DEF Merge, MemoryTyped
<1>3. CASE StartPanel(t, r)
  <2>1. x \in Texts
    BY <1>3, ReplyText DEF StartPanel, Discarded
  <2>2. proofs' \in [Texts -> ProofRecord]
    <3>1. SelfEval[r] \in Nat
      BY RepliesAssumption
    <3>2. round \in Nat
      BY DEF TypeInv, TypeOK, Rounds
    <3> DEFINE pr == [Absent EXCEPT !.verdict = "open", !.owner = Ckpt(t),
                        !.id = nextId, !.round = round, !.self = SelfEval[r],
                        !.origins = {GenId(t)}, !.deps = Deps(t)]
    <3>3. Absent.panel \in [Panel -> VoteStates]
      BY DEF Absent, VoteStates
    <3>4. pr \in ProofRecord
      BY <1>0, <3>1, <3>2, <3>3, DepsAreTexts, GenIdType, CkptType
      DEF ProofRecord, Absent
    <3>5. proofs' = [proofs EXCEPT ![x] = pr]
      BY <1>3 DEF StartPanel
    <3>. QED BY <1>0, <2>1, <3>4, <3>5
  <2>3. PipelineOK([Idle EXCEPT !.pc = "verifying", !.reply = r,
                                !.votes = Replayed(x)])
    BY <1>3, <2>1, ReplayedType
    DEF PipelineOK, Pipeline, PipelineStates, Idle, PanelPcs, StartPanel,
        Discarded
  <2>4. TasksAdvance
    BY <1>3, <2>3, OneAdvances DEF StartPanel
  <2>. QED BY <1>0, <1>3, <2>2, <2>4 DEF StartPanel, MemoryTyped
<1>. QED BY <1>1, <1>2, <1>3 DEF Settle

(* Concluding a panel.                                                     *)
LEMMA ConcludeTyped ==
  ASSUME TypeInv, NEW t \in Samples, task[t].pc \in PanelPcs,
         NEW votes \in [Panel -> VoteStates], NEW cut \in BOOLEAN,
         Conclude(t, votes, cut)
  PROVE  TasksAdvance /\ MemoryTyped /\ failed' \in BOOLEAN
<1>0. /\ proofs \in [Texts -> ProofRecord] /\ nextId \in Nat
      /\ finalists \in [Checkpoints -> Texts \cup {NoText}]
      /\ stopped \in SUBSET Checkpoints /\ failed \in BOOLEAN
      /\ task \in [Samples -> Pipeline]
  BY DEF TypeInv, TypeOK
<1>1. TextOf(t) \in Texts
  BY ReplyText DEF TypeInv, TaskInv, PipelineOK, TextOf
<1>2. CASE Raise(t, votes)
  BY <1>0, <1>2, RetireAdvances DEF Raise, MemoryTyped, proofVars
<1>3. CASE Interrupted(t, votes, cut)
  BY <1>0, <1>3, RetireAdvances DEF Interrupted, MemoryTyped, proofVars
<1>4. CASE Reject(t, votes, cut)
  <2>1. proofs' \in [Texts -> ProofRecord]
    <3> DEFINE pr == [proofs[TextOf(t)] EXCEPT !.verdict = Verdict(votes),
                                               !.panel = votes]
    <3>0. proofs[TextOf(t)] \in ProofRecord
      BY <1>0, <1>1
    <3>1. pr \in ProofRecord
      BY <3>0 DEF ProofRecord, Verdict
    <3>2. proofs' = [proofs EXCEPT ![TextOf(t)] = pr]
      BY <1>4 DEF Reject
    <3>. QED BY <1>0, <1>1, <3>1, <3>2
  <2>. QED BY <1>0, <1>4, <2>1, RetireAdvances DEF Reject, MemoryTyped
<1>5. CASE Accept(t, votes, cut)
  <2>1. proofs' \in [Texts -> ProofRecord]
    <3> DEFINE pr == [proofs[TextOf(t)] EXCEPT !.verdict = "complete",
                                    !.panel = votes, !.accepted = TRUE]
    <3>0. proofs[TextOf(t)] \in ProofRecord
      BY <1>0, <1>1
    <3>1. pr \in ProofRecord
      BY <3>0 DEF ProofRecord
    <3>2. proofs' = [proofs EXCEPT ![TextOf(t)] = pr]
      BY <1>5 DEF Accept
    <3>. QED BY <1>0, <1>1, <3>1, <3>2
  <2>2. /\ finalists' \in [Checkpoints -> Texts \cup {NoText}]
        /\ stopped' \in SUBSET Checkpoints
    BY <1>0, <1>1, <1>5, CkptType DEF Accept
  <2> DEFINE ended == [task EXCEPT ![t] = Done]
  <2>3. /\ ended \in [Samples -> Pipeline]
        /\ \A u \in Samples : /\ PipelineOK(ended[u])
                              /\ ended[u].pc \notin {"idle", "done"} => Live(u)
    BY <1>0, FreshPipelines DEF TypeInv, TaskInv, PipelineOK, Live
  <2>4. task' = Cancelled(ended, Siblings(t))
    BY <1>5 DEF Accept
  <2>5. TasksAdvance
    BY <2>3, <2>4, CancelledTasks DEF TasksAdvance
  <2>. QED BY <1>0, <1>5, <2>1, <2>2, <2>5 DEF Accept, MemoryTyped
<1>. QED BY <1>2, <1>3, <1>4, <1>5 DEF Conclude
-----------------------------------------------------------------------------
(* A step of a round: pipelines advance, the memory and the rows keep      *)
(* their types.                                                            *)
RowsTyped ==
  /\ genRows'  \in [GenIds -> Seq(GenRow)]
  /\ voteRows' \in [VoteIds -> Seq(Judgments)]
  /\ LedgerInv'

\* A step within a round keeps the invariant when its three parts are typed.
LEMMA RoundStepTyped ==
  ASSUME TypeInv, TasksAdvance, MemoryTyped, RowsTyped,
         failed' \in BOOLEAN, ending' \in {"none", "fatal", "stopped"},
         phase' \in {"spawning", "searching", "draining", "finished", "exited"},
         UNCHANGED <<roundVars, ledgerVars>>
  PROVE  TypeInv'
<1>1. TypeOK'
  BY DEF TypeInv, TypeOK, TasksAdvance, MemoryTyped, RowsTyped, roundVars,
         ledgerVars
<1>2. TaskInv'
  BY AdvanceTaskInv
<1>. QED BY <1>1, <1>2 DEF TypeInv, RowsTyped

(* Rows that are left alone stay typed.                                    *)
LEMMA DiskUnchanged ==
  ASSUME TypeInv, UNCHANGED <<diskVars, ledgerVars>>
  PROVE  RowsTyped
PROOF BY DEF TypeInv, TypeOK, LedgerInv, RowsTyped, diskVars, ledgerVars

(* Proofs, finalists and flags that are left alone stay typed.             *)
LEMMA MemoryUnchanged ==
  ASSUME TypeInv, UNCHANGED proofVars
  PROVE  MemoryTyped
PROOF BY DEF TypeInv, TypeOK, MemoryTyped, proofVars

(* Appending a row.                                                        *)
LEMMA AppendRow ==
  ASSUME NEW S, NEW rows \in Seq(S), NEW row \in S
  PROVE  /\ Append(rows, row) \in Seq(S) /\ Append(rows, row) # <<>>
         /\ Len(Append(rows, row)) = Len(rows) + 1
         /\ Append(rows, row)[1] = IF rows = <<>> THEN row ELSE rows[1]
<1>1. /\ Append(rows, row) \in Seq(S) /\ Append(rows, row) # <<>>
      /\ Len(Append(rows, row)) = Len(rows) + 1
      /\ \A i \in 1..Len(rows) : Append(rows, row)[i] = rows[i]
      /\ Append(rows, row)[Len(rows) + 1] = row
  BY AppendProperties
<1>2. CASE rows = <<>>
  BY <1>1, <1>2
<1>3. CASE rows # <<>>
  BY <1>1, <1>3
<1>. QED BY <1>1, <1>2, <1>3

(* A generation row is appended to the rows of its identity.               *)
LEMMA WriteGenTyped ==
  ASSUME TypeInv, NEW t \in Samples, task[t].pc = "recording", WriteGen(t),
         UNCHANGED <<voteRows, ledgerVars>>
  PROVE  RowsTyped
<1> DEFINE row == [reply |-> task[t].reply, parents |-> Deps(t)]
           i   == GenId(t)
<1>1. row \in GenRow
  BY DepsAreTexts DEF TypeInv, TaskInv, PipelineOK, GenRow, Live
<1>2. i \in GenIds
  BY GenIdType
<1>3. /\ genRows \in [GenIds -> Seq(GenRow)]
      /\ genRows' = [genRows EXCEPT ![i] = Append(genRows[i], row)]
  BY DEF TypeInv, TypeOK, WriteGen
<1>4. Append(genRows[i], row) \in Seq(GenRow) /\ Append(genRows[i], row) # <<>>
  BY <1>1, <1>2, <1>3
<1>5. genRows' \in [GenIds -> Seq(GenRow)]
  BY <1>2, <1>3, <1>4
<1>6. \A j \in GenIds : genRows[j] # <<>> => genRows'[j] # <<>>
  BY <1>2, <1>3, <1>4
<1>. QED BY <1>5, <1>6 DEF TypeInv, TypeOK, LedgerInv, RowsTyped, ledgerVars

(* A vote row is appended to the rows of its identity.                     *)
LEMMA WriteVoteTyped ==
  ASSUME TypeInv, NEW t \in Samples, NEW p \in Panel, task[t].pc = "voting",
         p \in task[t].unsaved, WriteVote(t, p),
         UNCHANGED <<genRows, ledgerVars>>
  PROVE  RowsTyped
<1> DEFINE v == task[t].votes[p]
           i == <<proofs[TextOf(t)].round, TextOf(t), p>>
<1>1. v \in Judgments
  BY DEF TypeInv, TaskInv, PipelineOK
<1>2. /\ voteRows \in [VoteIds -> Seq(Judgments)]
      /\ voteRows' = [voteRows EXCEPT ![i] = Append(voteRows[i], v)]
  BY DEF TypeInv, TypeOK, WriteVote
<1>3. i \in VoteIds =>
        Append(voteRows[i], v) \in Seq(Judgments) /\ Append(voteRows[i], v) # <<>>
  <2>1. i \in VoteIds => voteRows[i] \in Seq(Judgments)
    BY <1>2
  <2>. QED BY <1>1, <2>1, AppendRow
<1>4. voteRows' \in [VoteIds -> Seq(Judgments)]
  BY <1>2, <1>3
<1>5. \A j \in VoteIds : voteRows[j] # <<>> => voteRows'[j] # <<>>
  BY <1>2, <1>3
<1>. QED BY <1>4, <1>5 DEF TypeInv, TypeOK, LedgerInv, RowsTyped, ledgerVars

(* Each step of a pipeline.                                                *)
LEMMA SpawnTyped ==
  ASSUME TypeInv, NEW t \in Samples, Spawn(t)
  PROVE  TypeInv'
<1>1. Live(t) /\ task[t].pc = "created"
  BY DEF Spawn, Live
<1>2. TasksAdvance /\ MemoryTyped
  <2>1. CASE GenId(t) \in ledgerGens
    <3> DEFINE row == genRows[GenId(t)][1]
    <3>1. genRows[GenId(t)] \in Seq(GenRow) /\ genRows[GenId(t)] # <<>>
      BY <2>1, GenIdType DEF TypeInv, TypeOK, LedgerInv
    <3>2. row \in GenRow
      BY <3>1
    <3>3. row.reply \in Replies
      BY <3>2 DEF GenRow
    <3>4. Settle(t, row.reply)
      BY <2>1 DEF Spawn
    <3>. QED BY <1>1, <3>3, <3>4, SettleTyped
  <2>2. CASE GenId(t) \notin ledgerGens
    <3> DEFINE tk == [task[t] EXCEPT !.pc = "requesting"]
    <3>1. PipelineOK(tk)
      BY <1>1 DEF TypeInv, TaskInv, PipelineOK, Pipeline, PipelineStates,
                  PanelPcs
    <3>2. task' = [task EXCEPT ![t] = tk] /\ UNCHANGED proofVars
      BY <2>2 DEF Spawn
    <3>. QED BY <1>1, <3>1, <3>2, OneAdvances, MemoryUnchanged
  <2>. QED BY <2>1, <2>2
<1>3. /\ failed' \in BOOLEAN /\ ending' \in {"none", "fatal", "stopped"}
      /\ phase' \in {"spawning", "searching"}
      /\ UNCHANGED <<roundVars, diskVars, ledgerVars>>
  BY DEF Spawn, TypeInv, TypeOK
<1>. QED BY <1>2, <1>3, DiskUnchanged, RoundStepTyped

\* The requests, cancellations and waits of a pipeline change that pipeline alone.
LEMMA TaskOnlyActions ==
  ASSUME TypeInv, NEW t \in Samples,
         \/ \E reply \in Replies : Respond(t, reply)
         \/ ParkRequest(t) \/ AbandonRequest(t) \/ DeliverCancel(t)
         \/ LoseRow(t) \/ SaveParked(t)
  PROVE  TypeInv'
<1>0. task[t] \in Pipeline /\ PipelineOK(task[t]) /\ task \in [Samples -> Pipeline]
  BY DEF TypeInv, TypeOK, TaskInv
<1>1. ASSUME NEW r \in Replies, Respond(t, r) PROVE TypeInv'
  <2> DEFINE tk == [Idle EXCEPT !.pc = "recording", !.reply = r, !.sink = "open"]
  <2>1. PipelineOK(tk)
    BY DEF PipelineOK, Pipeline, PipelineStates, VoteStates, Idle, PanelPcs
  <2>. QED BY <1>1, <2>1, TaskOnlyStep DEF Respond, Live
<1>2. CASE ParkRequest(t)
  <2> DEFINE tk == [task[t] EXCEPT !.pc = "parking", !.sink = "open"]
  <2>1. PipelineOK(tk)
    BY <1>0 DEF PipelineOK, Pipeline, PipelineStates, PanelPcs
  <2>2. task' = [task EXCEPT ![t] = tk]
    BY <1>0, <1>2 DEF ParkRequest
  <2>. QED BY <1>2, <2>1, <2>2, TaskOnlyStep DEF ParkRequest, Live
<1>3. CASE DeliverCancel(t)
  <2> DEFINE tk == [task[t] EXCEPT !.sink = "flush", !.cancel = FALSE]
  <2>1. PipelineOK(tk)
    BY <1>0 DEF PipelineOK, Pipeline
  <2>2. task' = [task EXCEPT ![t] = tk]
    BY <1>0, <1>3 DEF DeliverCancel
  <2>3. TaskOnly
    BY <1>3 DEF DeliverCancel
  <2>4. tk.pc \in {"idle", "done"} \/ Live(t)
    BY <1>0 DEF Live, Pipeline
  <2>. QED BY <2>1, <2>2, <2>3, <2>4, TaskOnlyStep
<1>4. CASE AbandonRequest(t) \/ LoseRow(t) \/ SaveParked(t)
  BY <1>4, FreshPipelines, TaskOnlyStep
  DEF AbandonRequest, LoseRow, SaveParked, Retire
<1>. QED BY <1>1, <1>2, <1>3, <1>4
\* A fatal request or a write that raises ends its pipeline and marks the search failed.
LEMMA FailTyped ==
  ASSUME TypeInv, NEW t \in Samples, FatalRequest(t) \/ FailWrite(t)
  PROVE  TypeInv'
<1>1. /\ TasksAdvance /\ failed' \in BOOLEAN
      /\ UNCHANGED <<phase, ending, roundVars, proofVars, diskVars, ledgerVars>>
  BY RetireAdvances DEF FatalRequest, FailWrite
<1>. QED BY <1>1, MemoryUnchanged, DiskUnchanged, RoundStepTyped
         DEF TypeInv, TypeOK

\* A recorded response becomes a proof, is merged into one, or is discarded.
LEMMA SaveResponseTyped ==
  ASSUME TypeInv, NEW t \in Samples, SaveResponse(t)
  PROVE  TypeInv'
<1>1. /\ Live(t) /\ task[t].pc = "recording" /\ task[t].reply \in Replies
      /\ UNCHANGED <<phase, ending, failed, roundVars, voteRows, ledgerVars>>
  BY DEF SaveResponse, Live, TypeInv, TaskInv, PipelineOK
<1>2. RowsTyped
  BY <1>1, WriteGenTyped DEF SaveResponse
<1>3. TasksAdvance /\ MemoryTyped
  BY <1>1, SettleTyped, RetireAdvances, MemoryUnchanged DEF SaveResponse
<1>. QED BY <1>1, <1>2, <1>3, RoundStepTyped DEF TypeInv, TypeOK

(* A vote of a panel is answered.                                          *)
LEMMA AnswerTyped ==
  ASSUME TypeInv, NEW t \in Samples, NEW p \in Panel, NEW v \in VoteStates,
         v # "open", Answer(t, p, v)
  PROVE  TypeInv'
<1> DEFINE tk == [task[t] EXCEPT !.votes = [task[t].votes EXCEPT ![p] = v]]
<1>0. /\ PipelineOK(task[t]) /\ task \in [Samples -> Pipeline]
      /\ task[t] \in Pipeline
  BY DEF TypeInv, TypeOK, TaskInv
<1>1. "open" \notin Judgments
  BY JudgmentsAssumption DEF Scores
<1>2. PipelineOK(tk)
  <2>1. tk \in Pipeline
    BY <1>0 DEF Pipeline
  <2>2. \A q \in tk.unsaved : tk.votes[q] \in Judgments
    BY <1>0, <1>1 DEF PipelineOK, Pipeline, Answer
  <2>. QED BY <1>0, <2>1, <2>2 DEF PipelineOK, Pipeline
<1>3. task' = [task EXCEPT ![t] = tk] /\ Live(t) /\ TaskOnly
  BY <1>0 DEF Answer, Live
<1>. QED BY <1>2, <1>3, TaskOnlyStep

(* Whatever the answer: a judgment, a parked, fatal or cancelled request.  *)
LEMMA VoteStepTyped ==
  ASSUME TypeInv, NEW t \in Samples, VoteStep(t)
  PROVE  TypeInv'
<1>1. PICK p \in Panel : \E v \in VoteStates : v # "open" /\ Answer(t, p, v)
  BY JudgmentsAssumption
  DEF VoteStep, Judge, ParkVote, FatalVote, CutVote, VoteStates, Scores
<1>. QED BY <1>1, AnswerTyped

(* A panel whose votes are all answered goes on to write them.             *)
LEMMA CollectTyped ==
  ASSUME TypeInv, NEW t \in Samples, Collect(t)
  PROVE  TypeInv'
<1> DEFINE cut   == task[t].cancel
           raw   == task[t].votes
           votes == [p \in Panel |-> IF cut /\ raw[p] \in {"parked", "fatal"}
                                     THEN "cut" ELSE raw[p]]
           next  == [task[t] EXCEPT !.cancel = FALSE, !.cut = cut,
                       !.votes = votes, !.unsaved = Unsaved(t), !.sink = "open"]
<1>0. /\ PipelineOK(task[t]) /\ task[t] \in Pipeline /\ Live(t)
      /\ task[t].pc = "verifying"
      /\ UNCHANGED <<phase, ending, roundVars, diskVars, ledgerVars>>
  BY DEF TypeInv, TypeOK, TaskInv, Collect, Live
<1>1. /\ cut \in BOOLEAN /\ votes \in [Panel -> VoteStates]
      /\ Unsaved(t) \in SUBSET Panel
      /\ \A p \in Unsaved(t) : votes[p] \in Judgments
  BY <1>0, JudgmentsAssumption DEF Pipeline, VoteStates, Unsaved, Scores
<1>2. ASSUME NEW pc \in {"noting", "voting"}
      PROVE  PipelineOK([next EXCEPT !.pc = pc])
  <2>1. next \in Pipeline /\ next.reply = task[t].reply
    BY <1>0, <1>1 DEF Pipeline
  <2>2. \A p \in next.unsaved : next.votes[p] \in Judgments
    BY <1>0, <1>1 DEF Pipeline
  <2>. QED BY <1>0, <2>1, <2>2 DEF PipelineOK, Pipeline, PipelineStates, PanelPcs
<1>3. TasksAdvance /\ MemoryTyped /\ failed' \in BOOLEAN
  <2>1. CASE task' = [task EXCEPT ![t] = [next EXCEPT !.pc = "noting"]]
             /\ UNCHANGED <<failed, proofVars>>
    BY <1>0, <1>2, <2>1, OneAdvances, MemoryUnchanged DEF TypeInv, TypeOK
  <2>2. CASE task' = [task EXCEPT ![t] = [next EXCEPT !.pc = "voting"]]
             /\ UNCHANGED <<failed, proofVars>>
    BY <1>0, <1>2, <2>2, OneAdvances, MemoryUnchanged DEF TypeInv, TypeOK
  <2>3. CASE Conclude(t, votes, cut)
    BY <1>0, <1>1, <2>3, ConcludeTyped DEF PanelPcs
  <2>. QED BY <2>1, <2>2, <2>3 DEF Collect
<1>. QED BY <1>0, <1>3, DiskUnchanged, RoundStepTyped DEF TypeInv, TypeOK

(* The error rows of a panel are written and it may conclude.              *)
LEMMA NoteErrorsTyped ==
  ASSUME TypeInv, NEW t \in Samples, NoteErrors(t)
  PROVE  TypeInv'
<1>0. /\ PipelineOK(task[t]) /\ task[t] \in Pipeline /\ Live(t)
      /\ task[t].pc \in PanelPcs /\ task[t].votes \in [Panel -> VoteStates]
      /\ task[t].cut \in BOOLEAN /\ task \in [Samples -> Pipeline]
      /\ UNCHANGED <<phase, ending, roundVars, diskVars, ledgerVars>>
  BY DEF TypeInv, TypeOK, TaskInv, NoteErrors, Live, PanelPcs, Pipeline
<1>1. TasksAdvance /\ MemoryTyped /\ failed' \in BOOLEAN
  <2>1. CASE Retire(t) /\ UNCHANGED <<failed, proofVars>>
    BY <2>1, RetireAdvances, MemoryUnchanged DEF TypeInv, TypeOK
  <2>2. CASE /\ task' = [task EXCEPT ![t].pc = "voting"]
             /\ UNCHANGED <<failed, proofVars>> /\ task[t].pc = "noting"
    <3> DEFINE tk == [task[t] EXCEPT !.pc = "voting"]
    <3>1. PipelineOK(tk)
      BY <1>0, <2>2 DEF PipelineOK, Pipeline, PipelineStates, PanelPcs
    <3>2. task' = [task EXCEPT ![t] = tk]
      BY <1>0, <2>2
    <3>. QED BY <1>0, <2>2, <3>1, <3>2, OneAdvances, MemoryUnchanged
             DEF TypeInv, TypeOK
  <2>3. CASE Conclude(t, task[t].votes, task[t].cut)
    BY <1>0, <2>3, ConcludeTyped
  <2>. QED BY <2>1, <2>2, <2>3 DEF NoteErrors
<1>. QED BY <1>0, <1>1, DiskUnchanged, RoundStepTyped DEF TypeInv, TypeOK

(* A vote is written, and after the last of them the panel concludes.      *)
LEMMA SaveVoteTyped ==
  ASSUME TypeInv, NEW t \in Samples, NEW p \in Panel, SaveVote(t, p)
  PROVE  TypeInv'
<1>0. /\ PipelineOK(task[t]) /\ task[t] \in Pipeline /\ Live(t)
      /\ task[t].pc \in PanelPcs /\ task[t].votes \in [Panel -> VoteStates]
      /\ task[t].cut \in BOOLEAN /\ task \in [Samples -> Pipeline]
      /\ UNCHANGED <<phase, ending, roundVars, genRows, ledgerVars>>
  BY DEF TypeInv, TypeOK, TaskInv, SaveVote, Live, PanelPcs, Pipeline
<1>1. TasksAdvance /\ MemoryTyped /\ failed' \in BOOLEAN
  <2>1. CASE Retire(t) /\ UNCHANGED <<failed, proofVars>>
    BY <2>1, RetireAdvances, MemoryUnchanged DEF TypeInv, TypeOK
  <2>2. CASE /\ task' = [task EXCEPT ![t].unsaved = @ \ {p}]
             /\ UNCHANGED <<failed, proofVars>>
    <3> DEFINE tk == [task[t] EXCEPT !.unsaved = task[t].unsaved \ {p}]
    <3>1. PipelineOK(tk)
      BY <1>0 DEF PipelineOK, Pipeline
    <3>2. task' = [task EXCEPT ![t] = tk]
      BY <1>0, <2>2
    <3>. QED BY <1>0, <2>2, <3>1, <3>2, OneAdvances, MemoryUnchanged
             DEF TypeInv, TypeOK
  <2>3. CASE Conclude(t, task[t].votes, task[t].cut)
    BY <1>0, <2>3, ConcludeTyped
  <2>. QED BY <2>1, <2>2, <2>3 DEF SaveVote
<1>2. RowsTyped
  BY <1>0, WriteVoteTyped DEF SaveVote
<1>. QED BY <1>0, <1>1, <1>2, RoundStepTyped DEF TypeInv, TypeOK
-----------------------------------------------------------------------------
(* The steps of run() and of the process.                                  *)
LEMMA NewTasksTyped ==
  ASSUME NEW r, NEW ps
  PROVE  /\ NewTasks(r, ps) \in [Samples -> Pipeline]
         /\ \A t \in Samples :
              /\ PipelineOK(NewTasks(r, ps)[t])
              /\ NewTasks(r, ps)[t].pc \in {"idle", "created"}
              /\ NewTasks(r, ps)[t].pc = "created" => t \in Batch(r, ps)
PROOF BY FreshPipelines DEF NewTasks, PipelineOK

(* The memory a launch starts with.                                        *)
LEMMA EmptyMemory ==
  /\ NoProofs \in [Texts -> ProofRecord]
  /\ NoFinalists \in [Checkpoints -> Texts \cup {NoText}]
  /\ NoOutcome.status = "none" /\ NoOutcome.rounds = 0
  /\ NoOutcome.finalists = NoFinalists
  /\ NoOutcome \in [status : {"none", "accepted", "fallback", "no_candidates"},
                    rounds : Rounds \cup {0},
                    finalists : [Checkpoints -> Texts \cup {NoText}]]
PROOF BY DEF NoProofs, NoFinalists, NoOutcome, Absent, ProofRecord, VoteStates

(* The round and the launch that come first.                               *)
LEMMA FirstRound ==
  /\ 1 \in Rounds /\ <<>> \in Seq(Texts) /\ 1 \in 1..MaxLaunches
PROOF BY SizesAssumption DEF Rounds

(* The first launch.                                                       *)
LEMMA InitTyped == Init => TypeInv
<1> SUFFICES ASSUME Init PROVE TypeInv
  OBVIOUS
<1>1. TypeOK
  <2>1. /\ genRows \in [GenIds -> Seq(GenRow)]
        /\ voteRows \in [VoteIds -> Seq(Judgments)]
    <3>1. <<>> \in Seq(GenRow) /\ <<>> \in Seq(Judgments)
      OBVIOUS
    <3>. QED BY <3>1 DEF Init
  <2>2. task \in [Samples -> Pipeline]
    BY NewTasksTyped DEF Init
  <2>3. proofs \in [Texts -> ProofRecord] /\ nextId \in Nat
    BY EmptyMemory DEF Init
  <2>4. /\ finalists \in [Checkpoints -> Texts \cup {NoText}]
        /\ stopped \in SUBSET Checkpoints
        /\ outcome \in [status : {"none", "accepted", "fallback", "no_candidates"},
                        rounds : Rounds \cup {0},
                        finalists : [Checkpoints -> Texts \cup {NoText}]]
    BY EmptyMemory DEF Init
  <2>5. round \in Rounds /\ parents \in Seq(Texts) /\ launch \in 1..MaxLaunches
    BY FirstRound DEF Init
  <2>. QED BY <2>1, <2>2, <2>3, <2>4, <2>5 DEF Init, TypeOK
<1>2. TaskInv
  BY NewTasksTyped DEF Init, TaskInv, HasParent
<1>3. LedgerInv
  BY DEF Init, LedgerInv
<1>. QED BY <1>1, <1>2, <1>3 DEF TypeInv

(* A later launch: memory starts afresh and the ledger is what is on disk. *)
LEMMA RelaunchTyped ==
  ASSUME TypeInv, Relaunch
  PROVE  TypeInv'
<1>1. TypeOK'
  <2>1. task' \in [Samples -> Pipeline]
    BY NewTasksTyped DEF Relaunch
  <2>2. proofs' \in [Texts -> ProofRecord] /\ nextId' \in Nat
    BY EmptyMemory DEF Relaunch
  <2>3. /\ finalists' \in [Checkpoints -> Texts \cup {NoText}]
        /\ stopped' \in SUBSET Checkpoints
        /\ outcome' \in [status : {"none", "accepted", "fallback", "no_candidates"},
                         rounds : Rounds \cup {0},
                         finalists : [Checkpoints -> Texts \cup {NoText}]]
    BY EmptyMemory DEF Relaunch
  <2>4. /\ round' \in Rounds /\ parents' \in Seq(Texts)
        /\ launch' \in 1..MaxLaunches
    BY FirstRound, SizesAssumption DEF Relaunch, TypeInv, TypeOK
  <2>5. /\ genRows' \in [GenIds -> Seq(GenRow)]
        /\ voteRows' \in [VoteIds -> Seq(Judgments)]
        /\ ledgerGens' \in SUBSET GenIds /\ ledgerVotes' \in SUBSET VoteIds
    BY DEF Relaunch, TypeInv, TypeOK, diskVars
  <2>. QED BY <2>1, <2>2, <2>3, <2>4, <2>5 DEF Relaunch, TypeOK
<1>2. TaskInv'
  BY NewTasksTyped DEF Relaunch, TaskInv, HasParent
<1>3. LedgerInv'
  BY DEF Relaunch, LedgerInv, diskVars
<1>. QED BY <1>1, <1>2, <1>3 DEF TypeInv

(* The next round begins with parents chosen among the verified proofs.    *)
LEMMA RefineTyped ==
  ASSUME TypeInv, Refine
  PROVE  TypeInv'
<1>1. PICK k \in 0..ParentsPerRound : parents' \in [1..k -> Evidence]
  BY DEF Refine, SelectParents
<1>2. parents' \in Seq(Texts) /\ Len(parents') = k
  BY <1>1, SizesAssumption DEF Evidence
<1>3. round' \in Rounds /\ round' # 1
  BY SizesAssumption DEF Refine, TypeInv, TypeOK, Rounds
<1>4. TypeOK'
  BY <1>2, <1>3, NewTasksTyped
  DEF Refine, TypeInv, TypeOK, proofVars, diskVars, ledgerVars
<1>5. TaskInv'
  <2> SUFFICES ASSUME NEW t \in Samples
               PROVE  PipelineOK(task[t])' /\ (Live(t) => HasParent(t))'
    BY DEF TaskInv
  <2>1. task' = NewTasks(round', parents')
    BY DEF Refine
  <2>2. Live(t)' => t \in Batch(round', parents')
    BY <2>1, NewTasksTyped DEF Live
  <2>3. t[1] \in Nat /\ t[1] >= 1
    BY SizesAssumption DEF Samples, Groups
  <2>. QED BY <1>2, <1>3, <2>1, <2>2, <2>3, NewTasksTyped
           DEF Batch, HasParent
<1>6. LedgerInv'
  BY DEF Refine, TypeInv, LedgerInv, diskVars, ledgerVars
<1>. QED BY <1>4, <1>5, <1>6 DEF TypeInv

(* The search ends with an outcome.                                        *)
LEMMA FinishTyped ==
  ASSUME TypeInv, NEW list \in [Checkpoints -> Texts \cup {NoText}],
         NEW status \in {"accepted", "fallback", "no_candidates"},
         Finish(status, list)
  PROVE  TypeInv'
<1>1. TypeOK'
  BY DEF Finish, TypeInv, TypeOK, proofVars, diskVars, ledgerVars
<1>2. TaskInv'
  BY DEF Finish, TypeInv, TaskInv, Live, HasParent
<1>3. LedgerInv'
  BY DEF Finish, TypeInv, LedgerInv, diskVars, ledgerVars
<1>. QED BY <1>1, <1>2, <1>3 DEF TypeInv

\* The steps of the search itself: it ends, refines, fails, stops or has drained.
LEMMA RoundActionsTyped ==
  ASSUME TypeInv, RoundStep \/ Stop
  PROVE  TypeInv'
<1>0. /\ task \in [Samples -> Pipeline]
      /\ \A t \in Samples : PipelineOK(task[t])
      /\ finalists \in [Checkpoints -> Texts \cup {NoText}]
      /\ proofs \in [Texts -> ProofRecord] /\ failed \in BOOLEAN
  BY DEF TypeInv, TypeOK, TaskInv
<1>1. CASE FinishAccepted
  BY <1>0, <1>1, FinishTyped DEF FinishAccepted
<1>2. CASE FinishFallback
  <2>1. PICK best \in Evidence :
          Finish("fallback", [NoFinalists EXCEPT ![proofs[best].owner] = best])
    BY <1>2 DEF FinishFallback
  <2>2. [NoFinalists EXCEPT ![proofs[best].owner] = best]
          \in [Checkpoints -> Texts \cup {NoText}]
    BY EmptyMemory DEF Evidence
  <2>. QED BY <2>1, <2>2, FinishTyped
<1>3. CASE FinishEmpty
  BY <1>3, EmptyMemory, FinishTyped DEF FinishEmpty
<1>4. CASE BatchFails \/ Stop
  <2>1. task' = Cancelled(task, Samples)
    BY <1>4 DEF BatchFails, Stop
  <2>2. TasksAdvance
    BY <1>0, <2>1, CancelledTasks DEF TasksAdvance, Live
  <2>3. /\ UNCHANGED <<failed, roundVars, proofVars, diskVars, ledgerVars>>
        /\ phase' = "draining" /\ ending' \in {"fatal", "stopped"}
    BY <1>4 DEF BatchFails, Stop
  <2>. QED BY <1>0, <2>2, <2>3, MemoryUnchanged, DiskUnchanged, RoundStepTyped
<1>5. CASE Drained
  <2>1. TasksAdvance
    BY <1>0, <1>5 DEF Drained, TasksAdvance, Live
  <2>2. /\ UNCHANGED <<ending, failed, roundVars, proofVars, diskVars, ledgerVars>>
        /\ phase' = "exited"
    BY <1>5 DEF Drained
  <2>. QED BY <1>0, <2>1, <2>2, MemoryUnchanged, DiskUnchanged, RoundStepTyped
           DEF TypeInv, TypeOK
<1>. QED BY <1>1, <1>2, <1>3, <1>4, <1>5, RefineTyped DEF RoundStep

(* Every step of a pipeline.                                               *)
LEMMA TaskStepTyped ==
  ASSUME TypeInv, NEW t \in Samples, TaskStep(t)
  PROVE  TypeInv'
PROOF BY SpawnTyped, TaskOnlyActions, FailTyped, SaveResponseTyped,
         VoteStepTyped, CollectTyped, NoteErrorsTyped, SaveVoteTyped
      DEF TaskStep, RequestStep, WriteStep

(* A step that changes nothing.                                            *)
LEMMA StutterTyped ==
  ASSUME TypeInv, UNCHANGED vars
  PROVE  TypeInv'
<1>1. TypeOK'
  BY DEF vars, TypeInv, TypeOK, roundVars, proofVars, diskVars, ledgerVars
<1>2. TaskInv' /\ LedgerInv'
  BY DEF vars, TypeInv, TaskInv, LedgerInv, Live, HasParent, roundVars,
         diskVars, ledgerVars
<1>. QED BY <1>1, <1>2 DEF TypeInv

(* The variables keep their types, a pipeline holds what its place in the  *)
(* code requires, and the ledger lists only rows that are on disk.         *)
THEOREM TypeInvariant == Spec => []TypeInv
<1>1. TypeInv /\ [Next]_vars => TypeInv'
  BY TaskStepTyped, RoundActionsTyped, RelaunchTyped, StutterTyped
  DEF Next, Progress, Terminated
<1>. QED BY InitTyped, <1>1, PTL DEF Spec

(* Type correctness, as the runs check it.                                 *)
THEOREM TypeCorrect == Spec => []TypeOK
PROOF BY TypeInvariant, PTL DEF TypeInv

-----------------------------------------------------------------------------
(* Acceptance: an accepted proof is the finalist of the checkpoint that    *)
(* found it.  AcceptedIsFinalist is not inductive: it holds because an     *)
(* acceptance cancels the checkpoint's other pipelines and because a       *)
(* cancelled panel cannot conclude with a verdict, however far its answers *)
(* and its writes have come.  AcceptInv says so.                           *)

(* A pipeline that a cancellation has reached or will reach.               *)
CutOff(tk) == tk.cancel \/ tk.cut \/ tk.sink = "flush"

InPanel(t) == task[t].pc \in PanelPcs

(* A panel judges an open proof of its own checkpoint.                     *)
PanelsOpen ==
  \A t \in Samples : InPanel(t) =>
    /\ proofs[TextOf(t)].verdict = "open"
    /\ proofs[TextOf(t)].owner = Ckpt(t)
    /\ proofs[TextOf(t)].accepted = FALSE
    /\ task[t].pc = "verifying" => task[t].cut = FALSE /\ task[t].sink = "none"

(* No two panels judge the same text.                                      *)
PanelsDistinct ==
  \A t, u \in Samples :
    InPanel(t) /\ InPanel(u) /\ TextOf(t) = TextOf(u) => t = u

(* A checkpoint stops when it has a finalist, and cuts its panels off.     *)
StoppedCutsOff ==
  /\ \A c \in Checkpoints : finalists[c] = NoText <=> c \notin stopped
  /\ \A t \in Samples : InPanel(t) /\ Ckpt(t) \in stopped => CutOff(task[t])

AcceptInv == /\ PanelsOpen /\ PanelsDistinct /\ StoppedCutsOff
             /\ AcceptedIsFinalist

-----------------------------------------------------------------------------
(* The panels of some pipelines go on, and none starts.                    *)
PanelGoesOn(u) ==
  task'[u].pc \in PanelPcs =>
    /\ InPanel(u)
    /\ task'[u].reply = task[u].reply
    /\ CutOff(task[u]) => CutOff(task'[u])
    /\ task'[u].pc = "verifying" => task'[u].cut = FALSE /\ task'[u].sink = "none"

(* When the panels that go on keep their texts, no text gets a second one. *)
LEMMA PanelsGoOn ==
  ASSUME AcceptInv, UNCHANGED proofVars, \A u \in Samples : PanelGoesOn(u)
  PROVE  AcceptInv'
<1>1. PanelsOpen'
  BY DEF AcceptInv, PanelsOpen, PanelGoesOn, InPanel, TextOf, proofVars, Ckpt
<1>2. PanelsDistinct'
  BY DEF AcceptInv, PanelsDistinct, PanelGoesOn, InPanel, TextOf
<1>3. StoppedCutsOff'
  BY DEF AcceptInv, StoppedCutsOff, PanelGoesOn, InPanel, proofVars, Ckpt
<1>4. AcceptedIsFinalist'
  BY DEF AcceptInv, AcceptedIsFinalist, proofVars
<1>. QED BY <1>1, <1>2, <1>3, <1>4 DEF AcceptInv

\* A step that leaves the pipelines alone, or lets them end, keeps what is said of them.
LEMMA UntouchedGoesOn ==
  ASSUME AcceptInv, NEW u \in Samples, task'[u] = task[u]
  PROVE  PanelGoesOn(u)
PROOF BY DEF AcceptInv, PanelsOpen, PanelGoesOn, InPanel

(* A step that changes one pipeline and no memory.                         *)
LEMMA OneGoesOn ==
  ASSUME TypeInv, AcceptInv, UNCHANGED proofVars, NEW t \in Samples, NEW tk,
         task' = [task EXCEPT ![t] = tk], PanelGoesOn(t)
  PROVE  AcceptInv'
<1>1. ASSUME NEW u \in Samples, u # t PROVE PanelGoesOn(u)
  BY <1>1, UntouchedGoesOn DEF TypeInv, TypeOK
<1>. QED BY <1>1, PanelsGoOn

(* A pipeline that ends takes nothing from the others.                     *)
LEMMA RetireGoesOn ==
  ASSUME TypeInv, NEW t \in Samples, Retire(t)
  PROVE  PanelGoesOn(t)
PROOF BY FreshPipelines DEF Retire, PanelGoesOn, PanelPcs, TypeInv, TypeOK

(* Settling a response may open a panel, for a text nobody judges and a    *)
(* checkpoint that has not stopped.                                        *)
LEMMA SettleAccepts ==
  ASSUME TypeInv, AcceptInv, NEW t \in Samples, ~InPanel(t),
         NEW r \in Replies, Settle(t, r)
  PROVE  AcceptInv'
<1> DEFINE x == ProofOf[r]
<1>0. /\ task \in [Samples -> Pipeline] /\ proofs \in [Texts -> ProofRecord]
      /\ finalists' = finalists /\ stopped' = stopped
      /\ \A u \in Samples : InPanel(u) => TextOf(u) \in Texts
  BY ReplyText
  DEF TypeInv, TypeOK, TaskInv, PipelineOK, Settle, InPanel, TextOf
<1>1. CASE Discard(t, r)
  BY <1>0, <1>1, RetireGoesOn, OneGoesOn DEF Discard, Retire, proofVars
<1>2. CASE Merge(t, r)
  <2>1. x \in Texts
    BY <1>2, ReplyText DEF Merge, Discarded
  <2>2. \A y \in Texts : /\ proofs'[y].verdict = proofs[y].verdict
                         /\ proofs'[y].owner = proofs[y].owner
                         /\ proofs'[y].accepted = proofs[y].accepted
    <3> DEFINE pr == [proofs[x] EXCEPT
                        !.origins = proofs[x].origins \cup {GenId(t)},
                        !.deps = proofs[x].deps \cup Deps(t)]
    <3>1. proofs[x] \in ProofRecord
      BY <1>0, <2>1
    <3>2. /\ pr.verdict = proofs[x].verdict /\ pr.owner = proofs[x].owner
          /\ pr.accepted = proofs[x].accepted
      BY <3>1 DEF ProofRecord
    <3>3. proofs' = [proofs EXCEPT ![x] = pr]
      BY <1>2 DEF Merge
    <3>. QED BY <1>0, <2>1, <3>2, <3>3
  <2>3. \A u \in Samples : task'[u].pc \in PanelPcs =>
          InPanel(u) /\ task'[u] = task[u]
    BY <1>0, <1>2, FreshPipelines DEF Merge, Retire, InPanel, PanelPcs
  <2>4. PanelsOpen'
    BY <1>0, <2>2, <2>3 DEF AcceptInv, PanelsOpen, InPanel, TextOf, Ckpt
  <2>5. PanelsDistinct' /\ StoppedCutsOff'
    BY <1>0, <2>3
    DEF AcceptInv, PanelsDistinct, StoppedCutsOff, InPanel, TextOf, Ckpt
  <2>6. AcceptedIsFinalist'
    BY <1>0, <2>2 DEF AcceptInv, AcceptedIsFinalist
  <2>. QED BY <2>4, <2>5, <2>6 DEF AcceptInv
<1>3. CASE StartPanel(t, r)
  <2> DEFINE pr == [Absent EXCEPT !.verdict = "open", !.owner = Ckpt(t),
                      !.id = nextId, !.round = round, !.self = SelfEval[r],
                      !.origins = {GenId(t)}, !.deps = Deps(t)]
             tk == [Idle EXCEPT !.pc = "verifying", !.reply = r,
                                !.votes = Replayed(x)]
  <2>1. x \in Texts /\ Ckpt(t) \notin stopped /\ proofs[x].verdict = "absent"
    BY <1>3, ReplyText DEF StartPanel, Discarded
  <2>2. /\ pr.verdict = "open" /\ pr.owner = Ckpt(t) /\ pr.accepted = FALSE
        /\ tk.pc = "verifying" /\ tk.reply = r /\ tk.cut = FALSE
        /\ tk.sink = "none"
    BY DEF Absent, Idle
  <2>3. /\ proofs' = [proofs EXCEPT ![x] = pr]
        /\ task' = [task EXCEPT ![t] = tk]
    BY <1>3 DEF StartPanel
  <2>4. ASSUME NEW u \in Samples, u # t, InPanel(u)
        PROVE  TextOf(u) # x
    BY <2>1, <2>4 DEF AcceptInv, PanelsOpen
  <2> HIDE DEF pr, tk
  <2>5. \A u \in Samples : u # t => task'[u] = task[u]
    BY <1>0, <2>3
  <2>6. task'[t] = tk /\ proofs'[x] = pr
    BY <1>0, <2>1, <2>3
  <2>7. \A y \in Texts : y # x => proofs'[y] = proofs[y]
    BY <1>0, <2>3
  <2>8. PanelsOpen'
    <3> SUFFICES ASSUME NEW u \in Samples, InPanel(u)'
                 PROVE  /\ proofs'[ProofOf[task'[u].reply]].verdict = "open"
                        /\ proofs'[ProofOf[task'[u].reply]].owner = Ckpt(u)
                        /\ proofs'[ProofOf[task'[u].reply]].accepted = FALSE
                        /\ task'[u].pc = "verifying" =>
                             task'[u].cut = FALSE /\ task'[u].sink = "none"
      BY DEF PanelsOpen, TextOf, InPanel, Ckpt
    <3>1. CASE u = t
      BY <2>2, <2>6, <3>1
    <3>2. CASE u # t
      BY <1>0, <2>4, <2>5, <2>7, <3>2 DEF AcceptInv, PanelsOpen, InPanel, TextOf
    <3>. QED BY <3>1, <3>2
  <2>9. PanelsDistinct'
    BY <2>2, <2>4, <2>5, <2>6 DEF AcceptInv, PanelsDistinct, InPanel, TextOf
  <2>10. StoppedCutsOff'
    BY <1>0, <2>1, <2>5 DEF AcceptInv, StoppedCutsOff, InPanel, Ckpt
  <2>11. AcceptedIsFinalist'
    BY <1>0, <2>2, <2>6, <2>7 DEF AcceptInv, AcceptedIsFinalist
  <2>. QED BY <2>8, <2>9, <2>10, <2>11 DEF AcceptInv
<1>. QED BY <1>1, <1>2, <1>3 DEF Settle

(* Concluding a panel that no cancellation reached accepts for a           *)
(* checkpoint without a finalist.                                          *)
LEMMA ConcludeAccepts ==
  ASSUME TypeInv, AcceptInv, NEW t \in Samples, InPanel(t),
         NEW votes \in [Panel -> VoteStates], NEW cut \in BOOLEAN,
         ~cut => ~CutOff(task[t]), Conclude(t, votes, cut)
  PROVE  AcceptInv'
<1> DEFINE x == TextOf(t)
           c == Ckpt(t)
<1>0. /\ task \in [Samples -> Pipeline] /\ proofs \in [Texts -> ProofRecord]
      /\ x \in Texts /\ c \in Checkpoints /\ NoText \notin Texts
      /\ finalists \in [Checkpoints -> Texts \cup {NoText}]
      /\ \A u \in Samples : InPanel(u) => TextOf(u) \in Texts
  BY ReplyText, CkptType
  DEF TypeInv, TypeOK, TaskInv, PipelineOK, InPanel, TextOf, Texts
<1>1. CASE Raise(t, votes) \/ Interrupted(t, votes, cut)
  BY <1>0, <1>1, RetireGoesOn, OneGoesOn DEF Raise, Interrupted, Retire
<1>2. ASSUME NEW u \in Samples, InPanel(u), u # t
      PROVE  TextOf(u) # x
  BY <1>2 DEF AcceptInv, PanelsDistinct
<1>3. CASE Reject(t, votes, cut)
  <2> DEFINE pr == [proofs[x] EXCEPT !.verdict = Verdict(votes), !.panel = votes]
  <2>1. proofs' = [proofs EXCEPT ![x] = pr]
    BY <1>3 DEF Reject
  <2>2. pr.owner = proofs[x].owner /\ pr.accepted = proofs[x].accepted
    BY <1>0 DEF ProofRecord
  <2> HIDE DEF pr
  <2>3. /\ \A y \in Texts \ {x} : proofs'[y] = proofs[y]
        /\ \A y \in Texts : /\ proofs'[y].owner = proofs[y].owner
                            /\ proofs'[y].accepted = proofs[y].accepted
    BY <1>0, <2>1, <2>2
  <2>4. \A u \in Samples : InPanel(u)' => u # t /\ InPanel(u) /\ task'[u] = task[u]
    BY <1>0, <1>3, FreshPipelines DEF Reject, Retire, InPanel, PanelPcs
  <2>5. PanelsOpen'
    BY <1>0, <1>2, <2>3, <2>4
    DEF AcceptInv, PanelsOpen, InPanel, TextOf, Ckpt
  <2>6. PanelsDistinct'
    BY <2>4 DEF AcceptInv, PanelsDistinct, TextOf
  <2>7. StoppedCutsOff' /\ AcceptedIsFinalist'
    BY <1>3, <2>3, <2>4
    DEF Reject, AcceptInv, StoppedCutsOff, AcceptedIsFinalist, Ckpt
  <2>. QED BY <2>5, <2>6, <2>7 DEF AcceptInv
<1>4. CASE Accept(t, votes, cut)
  <2> DEFINE pr == [proofs[x] EXCEPT !.verdict = "complete", !.panel = votes,
                                     !.accepted = TRUE]
             ended == [task EXCEPT ![t] = Done]
  <2>1. proofs' = [proofs EXCEPT ![x] = pr]
    BY <1>4 DEF Accept
  <2>2. pr.owner = c /\ pr.accepted = TRUE
    BY <1>0 DEF ProofRecord, AcceptInv, PanelsOpen
  <2> HIDE DEF pr
  <2>3. proofs'[x] = pr /\ \A y \in Texts \ {x} : proofs'[y] = proofs[y]
    BY <1>0, <2>1
  <2>4. c \notin stopped /\ finalists[c] = NoText
    BY <1>0, <1>4 DEF Accept, Judged, AcceptInv, StoppedCutsOff
  <2>5. /\ finalists' = [finalists EXCEPT ![c] = x]
        /\ stopped' = stopped \cup {c}
        /\ task' = Cancelled(ended, Siblings(t))
    BY <1>4, <2>4 DEF Accept
  <2>6. ASSUME NEW u \in Samples, InPanel(u)'
        PROVE  /\ u # t /\ InPanel(u) /\ task'[u].reply = task[u].reply
               /\ task'[u].pc = task[u].pc /\ task'[u].cut = task[u].cut
               /\ task'[u].sink = task[u].sink
               /\ CutOff(task[u]) => CutOff(task'[u])
               /\ Ckpt(u) = c => CutOff(task'[u])
    <3>1. task'[t].pc = "done"
      <4>1. ended[t] = Done
        BY <1>0
      <4>2. Cancelled(ended, Siblings(t))[t] = ended[t]
        BY <4>1, FreshPipelines DEF Cancelled
      <4>. QED BY <2>5, <4>1, <4>2, FreshPipelines
    <3>2. u # t
      BY <2>6, <3>1 DEF InPanel, PanelPcs
    <3>3. ended[u] = task[u] /\ task[u] \in Pipeline
      BY <1>0, <3>2
    <3>4. task'[u] = IF Ckpt(u) = c /\ task[u].pc \notin {"idle", "done"}
                     THEN [task[u] EXCEPT !.cancel = TRUE] ELSE task[u]
      <4>1. u \in Siblings(t) <=> Ckpt(u) = c
        BY DEF Siblings
      <4> HIDE DEF ended, c
      <4>2. task'[u] = IF u \in Siblings(t)
                          /\ ended[u].pc \notin {"idle", "done"}
                       THEN [ended[u] EXCEPT !.cancel = TRUE] ELSE ended[u]
        BY <2>5 DEF Cancelled
      <4>. QED BY <3>3, <4>1, <4>2
    <3>5. task'[u].pc = task[u].pc
      BY <3>3, <3>4 DEF Pipeline
    <3>6. InPanel(u) /\ task[u].pc \notin {"idle", "done"}
      BY <2>6, <3>5 DEF InPanel, PanelPcs
    <3>. QED BY <3>2, <3>3, <3>4, <3>5, <3>6 DEF Pipeline, CutOff
  <2>7. PanelsOpen'
    BY <1>0, <1>2, <2>3, <2>6 DEF AcceptInv, PanelsOpen, TextOf, InPanel, Ckpt
  <2>8. PanelsDistinct'
    BY <2>6 DEF AcceptInv, PanelsDistinct, TextOf
  <2>9. StoppedCutsOff'
    BY <1>0, <2>5, <2>6 DEF AcceptInv, StoppedCutsOff, Ckpt
  <2>10. AcceptedIsFinalist'
    BY <1>0, <2>2, <2>3, <2>4, <2>5 DEF AcceptInv, AcceptedIsFinalist
  <2>. QED BY <2>7, <2>8, <2>9, <2>10 DEF AcceptInv
<1>. QED BY <1>1, <1>3, <1>4 DEF Conclude

-----------------------------------------------------------------------------
(* Each step of a pipeline.                                                *)
LEMMA TaskStepAccepts ==
  ASSUME TypeInv, AcceptInv, NEW t \in Samples, TaskStep(t)
  PROVE  AcceptInv'
<1>0. /\ task \in [Samples -> Pipeline] /\ task[t] \in Pipeline
      /\ PipelineOK(task[t])
  BY DEF TypeInv, TypeOK, TaskInv
<1>1. CASE Spawn(t)
  <2>1. ~InPanel(t)
    BY <1>1 DEF Spawn, InPanel, PanelPcs
  <2>2. CASE GenId(t) \in ledgerGens
    <3>1. genRows[GenId(t)] \in Seq(GenRow) /\ genRows[GenId(t)] # <<>>
      BY <2>2, GenIdType DEF TypeInv, TypeOK, LedgerInv
    <3>2. genRows[GenId(t)][1].reply \in Replies
      <4>1. genRows[GenId(t)][1] \in GenRow
        BY <3>1
      <4>. QED BY <4>1 DEF GenRow
    <3>. QED BY <1>1, <2>1, <2>2, <3>2, SettleAccepts DEF Spawn
  <2>3. CASE GenId(t) \notin ledgerGens
    <3>1. /\ UNCHANGED proofVars
          /\ task' = [task EXCEPT ![t] = [task[t] EXCEPT !.pc = "requesting"]]
      BY <1>1, <2>3 DEF Spawn
    <3>2. PanelGoesOn(t)
      BY <1>0, <3>1 DEF PanelGoesOn, PanelPcs, Pipeline
    <3>. QED BY <3>1, <3>2, OneGoesOn
  <2>. QED BY <2>2, <2>3
<1>2. CASE RequestStep(t)
  <2>1. UNCHANGED proofVars /\ task[t].pc = "requesting"
    BY <1>2 DEF RequestStep, Respond, ParkRequest, FatalRequest,
                AbandonRequest, TaskOnly
  <2>2. /\ task'[t].pc \notin PanelPcs
        /\ \A u \in Samples \ {t} : task'[u] = task[u]
    <3>1. ASSUME NEW r \in Replies, Respond(t, r)
          PROVE  task'[t].pc = "recording"
      BY <1>0, <3>1 DEF Respond, Idle
    <3>2. ASSUME ParkRequest(t)
          PROVE  task'[t].pc = "parking"
      BY <1>0, <3>2 DEF ParkRequest, Pipeline
    <3>3. ASSUME FatalRequest(t) \/ AbandonRequest(t)
          PROVE  task'[t].pc = "done"
      BY <1>0, <3>3, FreshPipelines DEF FatalRequest, AbandonRequest, Retire
    <3>4. \A u \in Samples \ {t} : task'[u] = task[u]
      BY <1>0, <1>2 DEF RequestStep, Respond, ParkRequest, FatalRequest,
                        AbandonRequest, Retire
    <3>. QED BY <1>2, <3>1, <3>2, <3>3, <3>4 DEF RequestStep, PanelPcs
  <2>3. \A u \in Samples : PanelGoesOn(u)
    BY <2>2, UntouchedGoesOn DEF PanelGoesOn
  <2>. QED BY <2>1, <2>3, PanelsGoOn
<1>3. CASE DeliverCancel(t)
  <2>1. /\ UNCHANGED proofVars
        /\ task' = [task EXCEPT ![t] =
                      [task[t] EXCEPT !.sink = "flush", !.cancel = FALSE]]
    BY <1>0, <1>3 DEF DeliverCancel, TaskOnly
  <2>2. PanelGoesOn(t)
    BY <1>0, <1>3, <2>1
    DEF DeliverCancel, AcceptInv, PanelsOpen, PanelGoesOn, InPanel, Pipeline,
        CutOff, PanelPcs
  <2>. QED BY <2>1, <2>2, OneGoesOn
<1>4. CASE LoseRow(t) \/ FailWrite(t) \/ SaveParked(t)
  <2>1. UNCHANGED proofVars /\ Retire(t)
    BY <1>4 DEF LoseRow, FailWrite, SaveParked, TaskOnly
  <2>. QED BY <2>1, RetireGoesOn, OneGoesOn DEF Retire
<1>5. CASE SaveResponse(t)
  <2>1. CASE Settle(t, task[t].reply)
    BY <1>0, <1>5, <2>1, SettleAccepts
    DEF SaveResponse, InPanel, PanelPcs, PipelineOK
  <2>2. CASE Retire(t) /\ UNCHANGED proofVars
    BY <2>2, RetireGoesOn, OneGoesOn DEF Retire
  <2>. QED BY <1>5, <2>1, <2>2 DEF SaveResponse
<1>6. CASE VoteStep(t)
  <2>1. PICK p \in Panel : \E v \in VoteStates : Answer(t, p, v)
    BY <1>6 DEF VoteStep, Judge, ParkVote, FatalVote, CutVote, VoteStates
  <2>2. PICK v \in VoteStates : Answer(t, p, v)
    BY <2>1
  <2> DEFINE tk == [task[t] EXCEPT !.votes = [task[t].votes EXCEPT ![p] = v]]
  <2>3. task' = [task EXCEPT ![t] = tk] /\ UNCHANGED proofVars
    BY <1>0, <2>2 DEF Answer, TaskOnly
  <2>4. /\ tk.pc = task[t].pc /\ tk.reply = task[t].reply
        /\ tk.cancel = task[t].cancel /\ tk.cut = task[t].cut
        /\ tk.sink = task[t].sink
    BY <1>0 DEF Pipeline
  <2>5. PanelGoesOn(t)
    BY <1>0, <2>3, <2>4
    DEF AcceptInv, PanelsOpen, PanelGoesOn, InPanel, CutOff
  <2>. QED BY <2>3, <2>5, OneGoesOn
<1>7. CASE Collect(t)
  <2> DEFINE cut   == task[t].cancel
             raw   == task[t].votes
             votes == [p \in Panel |-> IF cut /\ raw[p] \in {"parked", "fatal"}
                                       THEN "cut" ELSE raw[p]]
             next  == [task[t] EXCEPT !.cancel = FALSE, !.cut = cut,
                         !.votes = votes, !.unsaved = Unsaved(t), !.sink = "open"]
  <2>0. task[t].pc = "verifying" /\ InPanel(t)
    BY <1>7 DEF Collect, InPanel, PanelPcs
  <2>1. ASSUME NEW pc \in {"noting", "voting"}, UNCHANGED proofVars,
               task' = [task EXCEPT ![t] = [next EXCEPT !.pc = pc]]
        PROVE  AcceptInv'
    <3> DEFINE tk == [next EXCEPT !.pc = pc]
    <3>1. /\ tk.pc = pc /\ tk.reply = task[t].reply /\ tk.cut = cut
      BY <1>0 DEF Pipeline
    <3>2. PanelGoesOn(t)
      BY <1>0, <2>0, <2>1, <3>1
      DEF AcceptInv, PanelsOpen, PanelGoesOn, InPanel, CutOff
    <3>. QED BY <2>1, <3>2, OneGoesOn
  <2>2. CASE Conclude(t, votes, cut)
    <3>1. /\ cut \in BOOLEAN /\ votes \in [Panel -> VoteStates]
      BY <1>0 DEF Pipeline, VoteStates
    <3>2. ~cut => ~CutOff(task[t])
      BY <2>0 DEF AcceptInv, PanelsOpen, CutOff
    <3>. QED BY <2>0, <2>2, <3>1, <3>2, ConcludeAccepts
  <2>. QED BY <1>7, <2>1, <2>2 DEF Collect
<1>8. ASSUME InPanel(t), Writing(t), Conclude(t, task[t].votes, task[t].cut)
      PROVE  AcceptInv'
  BY <1>0, <1>8, ConcludeAccepts DEF Pipeline, Writing, CutOff
<1>9. CASE NoteErrors(t)
  <2>0. InPanel(t)
    BY <1>9 DEF NoteErrors, InPanel, PanelPcs
  <2>1. CASE Retire(t) /\ UNCHANGED proofVars
    BY <2>1, RetireGoesOn, OneGoesOn DEF Retire
  <2>2. CASE task' = [task EXCEPT ![t].pc = "voting"] /\ UNCHANGED proofVars
    <3>1. PanelGoesOn(t)
      BY <1>0, <2>0, <2>2 DEF PanelGoesOn, Pipeline, CutOff
    <3>. QED BY <2>2, <3>1, OneGoesOn
  <2>. QED BY <1>8, <1>9, <2>0, <2>1, <2>2 DEF NoteErrors
<1>10. ASSUME NEW p \in Panel, SaveVote(t, p)
       PROVE  AcceptInv'
  <2>0. InPanel(t) /\ task[t].pc = "voting"
    BY <1>10 DEF SaveVote, InPanel, PanelPcs
  <2>1. CASE Retire(t) /\ UNCHANGED proofVars
    BY <2>1, RetireGoesOn, OneGoesOn DEF Retire
  <2>2. CASE /\ task' = [task EXCEPT ![t].unsaved = @ \ {p}]
             /\ UNCHANGED proofVars
    <3>1. PanelGoesOn(t)
      BY <1>0, <2>0, <2>2 DEF PanelGoesOn, Pipeline, CutOff
    <3>. QED BY <2>2, <3>1, OneGoesOn
  <2>. QED BY <1>8, <1>10, <2>0, <2>1, <2>2 DEF SaveVote
<1>. QED BY <1>1, <1>2, <1>3, <1>4, <1>5, <1>6, <1>7, <1>9, <1>10
         DEF TaskStep, WriteStep

(* Starting a launch or a round: no pipeline is in a panel.                *)
LEMMA NoPanelAtStart ==
  ASSUME NEW r, NEW ps, NEW t \in Samples
  PROVE  NewTasks(r, ps)[t].pc \notin PanelPcs
PROOF BY NewTasksTyped DEF PanelPcs

(* A launch begins with nothing accepted and nothing verified.             *)
LEMMA LaunchAccepts ==
  /\ Init => AcceptInv
  /\ Relaunch => AcceptInv'
<1>1. ASSUME Init PROVE AcceptInv
  <2>1. \A x \in Texts : proofs[x].accepted = FALSE
    BY <1>1 DEF Init, NoProofs, Absent
  <2>2. /\ \A t \in Samples : ~InPanel(t)
        /\ \A c \in Checkpoints : finalists[c] = NoText /\ c \notin stopped
    BY <1>1, NoPanelAtStart DEF Init, InPanel, NoFinalists
  <2>. QED BY <2>1, <2>2
       DEF AcceptInv, PanelsOpen, PanelsDistinct, StoppedCutsOff,
           AcceptedIsFinalist
<1>2. ASSUME Relaunch PROVE AcceptInv'
  <2>1. \A x \in Texts : proofs'[x].accepted = FALSE
    BY <1>2 DEF Relaunch, NoProofs, Absent
  <2>2. /\ \A t \in Samples : ~InPanel(t)'
        /\ \A c \in Checkpoints : finalists'[c] = NoText /\ c \notin stopped'
    BY <1>2, NoPanelAtStart DEF Relaunch, InPanel, NoFinalists
  <2>. QED BY <2>1, <2>2
       DEF AcceptInv, PanelsOpen, PanelsDistinct, StoppedCutsOff,
           AcceptedIsFinalist
<1>. QED BY <1>1, <1>2

(* A new round keeps what earlier rounds have accepted.                    *)
LEMMA RoundAccepts ==
  ASSUME TypeInv, AcceptInv, RoundStep \/ Stop \/ UNCHANGED vars
  PROVE  AcceptInv'
<1>0. /\ task \in [Samples -> Pipeline]
      /\ \A t \in Samples : PipelineOK(task[t])
  BY DEF TypeInv, TypeOK, TaskInv
<1>1. UNCHANGED proofVars
  BY DEF RoundStep, Refine, FinishAccepted, FinishFallback, FinishEmpty,
         Finish, BatchFails, Drained, Stop, vars
<1>2. CASE Refine
  <2>1. \A u \in Samples : PanelGoesOn(u)
    BY <1>2, NoPanelAtStart DEF Refine, PanelGoesOn
  <2>. QED BY <1>1, <2>1, PanelsGoOn
<1>3. CASE BatchFails \/ Stop
  <2>1. task' = Cancelled(task, Samples)
    BY <1>3 DEF BatchFails, Stop
  <2>2. ASSUME NEW u \in Samples PROVE PanelGoesOn(u)
    BY <1>0, <2>1
    DEF Cancelled, PanelGoesOn, AcceptInv, PanelsOpen, InPanel, CutOff, Pipeline
  <2>. QED BY <1>1, <2>2, PanelsGoOn
<1>4. CASE task' = task
  BY <1>1, <1>4, UntouchedGoesOn, PanelsGoOn
<1>. QED BY <1>2, <1>3, <1>4
     DEF RoundStep, FinishAccepted, FinishFallback, FinishEmpty, Finish,
         Drained, vars

(* Whatever the interleaving of answers, writes, failures, cancellations,  *)
(* stops and relaunches, an accepted proof is its checkpoint's finalist.   *)
THEOREM Acceptance == Spec => []AcceptedIsFinalist
<1>1. TypeInv /\ AcceptInv /\ [Next]_vars => AcceptInv'
  BY TaskStepAccepts, RoundAccepts, LaunchAccepts DEF Next, Progress, Terminated
<1>2. AcceptInv => AcceptedIsFinalist
  BY DEF AcceptInv
<1>. QED BY LaunchAccepts, TypeInvariant, <1>1, <1>2, PTL DEF Spec

-----------------------------------------------------------------------------
(* What is on disk: the search decides from rows only, writes one row per  *)
(* identity, and never issues again what it has a row of.                  *)
(*                                                                         *)
(* None of this is inductive.  What makes it so is what the pipelines and  *)
(* panels that still have rows to write know of the disk: a request that   *)
(* is out has no row; a panel's votes are on disk as the panel holds them, *)
(* but for the unsaved ones, which are not; and nothing of a round that    *)
(* has not begun, or of a text not found yet, is on disk unless the ledger *)
(* lists it.  DiskInv says so.                                             *)

VoteRow(x, p) == voteRows[<<round, x, p>>]
Known(x, p)   == <<round, x, p>> \in ledgerVotes

(* Rows that no pipeline of this launch has written are in the ledger.     *)
FutureListed ==
  /\ \A i \in GenIds : i[1] > round /\ genRows[i] # <<>> => i \in ledgerGens
  /\ \A i \in VoteIds :
       /\ \/ i[1] > round
          \/ i[1] = round /\ proofs[i[2]].verdict = "absent"
       /\ voteRows[i] # <<>>
       => i \in ledgerVotes

(* A response that is awaited or being written has no row yet.             *)
ResponseHolds(t) ==
  /\ task[t].pc = "created" /\ GenId(t) \notin ledgerGens => genRows[GenId(t)] = <<>>
  /\ task[t].pc \in {"requesting", "recording"} => genRows[GenId(t)] = <<>>

(* A panel holds the votes on disk; its unsaved votes are not on disk.     *)
PanelHolds(t) ==
  InPanel(t) =>
    /\ proofs[TextOf(t)].round = round
    /\ task[t].pc = "verifying" =>
         \A p \in Panel :
           IF Known(TextOf(t), p) THEN task[t].votes[p] = VoteRow(TextOf(t), p)[1]
                                  ELSE VoteRow(TextOf(t), p) = <<>>
    /\ task[t].pc # "verifying" =>
         \A p \in Panel :
           /\ p \in task[t].unsaved => VoteRow(TextOf(t), p) = <<>>
           /\ p \notin task[t].unsaved /\ task[t].votes[p] \in Judgments =>
                VoteRow(TextOf(t), p) # <<>> /\ VoteRow(TextOf(t), p)[1] = task[t].votes[p]

Holds(t) == ResponseHolds(t) /\ PanelHolds(t)

(* A text is found in a round.                                             *)
FoundInRound == \A x \in Texts : proofs[x].verdict # "absent" => proofs[x].round \in Rounds

DiskInv == /\ FutureListed /\ FoundInRound
           /\ \A t \in Samples : Holds(t)
           /\ DecidedFromDisk /\ OneRowPerIdentity

-----------------------------------------------------------------------------
(* What is on disk stays, and what a record rests on with it.              *)
RowsKept ==
  /\ \A i \in GenIds : genRows[i] # <<>> =>
       genRows'[i] # <<>> /\ genRows'[i][1] = genRows[i][1]
  /\ \A i \in VoteIds : voteRows[i] # <<>> =>
       voteRows'[i] # <<>> /\ voteRows'[i][1] = voteRows[i][1]

Backed(x) ==
  /\ \A i \in proofs[x].origins : genRows[i] # <<>> /\ ProofOf[genRows[i][1].reply] = x
  /\ proofs[x].verdict = "complete" =>
       \A p \in Panel : /\ voteRows[<<proofs[x].round, x, p>>] # <<>>
                        /\ voteRows[<<proofs[x].round, x, p>>][1] = proofs[x].panel[p]

LEMMA DecidedIsBacked == DecidedFromDisk <=> \A x \in Texts : Backed(x)
PROOF BY DEF DecidedFromDisk, Backed

LEMMA BackedKept ==
  ASSUME TypeInv, FoundInRound, RowsKept, NEW x \in Texts, Backed(x), proofs'[x] = proofs[x]
  PROVE  Backed(x)'
<1>1. proofs[x].origins \subseteq GenIds
  BY DEF TypeInv, TypeOK, ProofRecord
<1>2. proofs[x].verdict = "complete" => \A p \in Panel : <<proofs[x].round, x, p>> \in VoteIds
  BY DEF FoundInRound, VoteIds
<1>. QED BY <1>1, <1>2 DEF Backed, RowsKept

LEMMA RowsUnchanged == UNCHANGED diskVars => RowsKept
PROOF BY DEF diskVars, RowsKept

-----------------------------------------------------------------------------
(* A pipeline that stays where it is, with what it holds.                  *)
Same(u) == /\ task'[u].pc = task[u].pc /\ task'[u].reply = task[u].reply
           /\ task'[u].votes = task[u].votes /\ task'[u].unsaved = task[u].unsaved

LEMMA UntouchedIsSame == \A u \in Samples : task'[u] = task[u] => Same(u)
PROOF BY DEF Same

\* It goes on holding as long as nobody writes the rows it is about.
LEMMA SameHolds ==
  ASSUME NEW u \in Samples, Holds(u), Same(u), UNCHANGED <<round, ledgerVars>>,
         genRows'[GenId(u)] = genRows[GenId(u)],
         InPanel(u) => /\ proofs'[TextOf(u)].round = proofs[TextOf(u)].round
                       /\ \A p \in Panel : voteRows'[<<round, TextOf(u), p>>]
                                             = voteRows[<<round, TextOf(u), p>>]
  PROVE  Holds(u)'
<1>1. /\ round' = round /\ ledgerGens' = ledgerGens /\ ledgerVotes' = ledgerVotes
      /\ GenId(u)' = GenId(u) /\ TextOf(u)' = TextOf(u) /\ InPanel(u)' = InPanel(u)
  BY DEF ledgerVars, Same, GenId, TextOf, InPanel
<1>2. ResponseHolds(u)'
  BY <1>1 DEF Holds, ResponseHolds, Same
<1>3. PanelHolds(u)'
  BY <1>1 DEF Holds, PanelHolds, Same, VoteRow, Known
<1>. QED BY <1>2, <1>3 DEF Holds

\* A pipeline with nothing to write holds whatever is on disk.
LEMMA OverHolds ==
  ASSUME NEW u \in Samples,
         task'[u].pc \notin {"created", "requesting", "recording"} \cup PanelPcs
  PROVE  Holds(u)'
PROOF BY DEF Holds, ResponseHolds, PanelHolds, InPanel

\* A step of one pipeline that writes no row and records nothing.
LEMMA QuietStep ==
  ASSUME TypeInv, DiskInv, UNCHANGED <<round, proofVars, diskVars, ledgerVars>>,
         \A u \in Samples : Same(u) \/ Holds(u)'
  PROVE  DiskInv'
<1>1. UNCHANGED <<proofs, genRows, voteRows>>
  BY DEF proofVars, diskVars
<1>2. \A u \in Samples : Holds(u)'
  BY <1>1, SameHolds DEF DiskInv
<1>3. DecidedFromDisk' /\ OneRowPerIdentity' /\ FutureListed' /\ FoundInRound'
  BY <1>1 DEF DiskInv, DecidedFromDisk, OneRowPerIdentity, FutureListed, FoundInRound, ledgerVars
<1>. QED BY <1>2, <1>3 DEF DiskInv

LEMMA QuietRetire ==
  ASSUME TypeInv, DiskInv, NEW t \in Samples, Retire(t),
         UNCHANGED <<round, proofVars, diskVars, ledgerVars>>
  PROVE  DiskInv'
<1>1. /\ task'[t].pc = "done" /\ \A u \in Samples \ {t} : task'[u] = task[u]
  BY FreshPipelines DEF Retire, TypeInv, TypeOK
<1>2. \A u \in Samples : Same(u) \/ Holds(u)'
  BY <1>1, UntouchedIsSame, OverHolds DEF PanelPcs
<1>. QED BY <1>2, QuietStep

LEMMA QuietOne ==
  ASSUME TypeInv, DiskInv, NEW t \in Samples, NEW tk, task' = [task EXCEPT ![t] = tk],
         UNCHANGED <<round, proofVars, diskVars, ledgerVars>>, Holds(t)'
  PROVE  DiskInv'
<1>1. \A u \in Samples \ {t} : task'[u] = task[u]
  BY DEF TypeInv, TypeOK
<1>. QED BY <1>1, UntouchedIsSame, QuietStep

(* The row of a response is written, or found, and its pipeline ends.      *)
LEMMA RecordedFuture ==
  ASSUME TypeInv, DiskInv, NEW t \in Samples, UNCHANGED <<round, ledgerVars>>,
         \A i \in GenIds \ {GenId(t)} : genRows'[i] = genRows[i]
  PROVE  \A i \in GenIds : i[1] > round' /\ genRows'[i] # <<>> => i \in ledgerGens'
<1>1. GenId(t)[1] = round /\ round \in Int
  BY DEF GenId, Rounds, TypeInv, TypeOK
<1>. QED BY <1>1 DEF DiskInv, FutureListed, ledgerVars

LEMMA RecordedRetire ==
  ASSUME TypeInv, DiskInv, NEW t \in Samples, Retire(t),
         RowsKept, OneRowPerIdentity', UNCHANGED <<round, proofs, voteRows, ledgerVars>>,
         \A i \in GenIds \ {GenId(t)} : genRows'[i] = genRows[i]
  PROVE  DiskInv'
<1>0. /\ task \in [Samples -> Pipeline] /\ task' = [task EXCEPT ![t] = Done]
      /\ \A u \in Samples : u # t => GenId(u) \in GenIds \ {GenId(t)}
  BY GenIdType DEF TypeInv, TypeOK, GenId, Retire
<1>1. FutureListed' /\ FoundInRound'
  BY RecordedFuture DEF DiskInv, FutureListed, FoundInRound, ledgerVars
<1>2. \A u \in Samples : Holds(u)'
  <2>1. Holds(t)'
    BY <1>0, FreshPipelines, OverHolds DEF PanelPcs
  <2>2. ASSUME NEW u \in Samples, u # t PROVE Holds(u)'
    BY <1>0, <2>2, SameHolds, UntouchedIsSame DEF DiskInv
  <2>. QED BY <2>1, <2>2
<1>3. DecidedFromDisk'
  BY BackedKept, DecidedIsBacked DEF DiskInv, DecidedFromDisk, Backed
<1>. QED BY <1>1, <1>2, <1>3 DEF DiskInv

-----------------------------------------------------------------------------
(* A recorded response is merged, or opens the panel of a text that has    *)
(* none; its row is on disk by then.                                       *)
LEMMA SettleDisk ==
  ASSUME TypeInv, AcceptInv, DiskInv, NEW t \in Samples, Live(t), ~InPanel(t),
         NEW r \in Replies, Settle(t, r),
         RowsKept, OneRowPerIdentity', UNCHANGED <<round, voteRows, ledgerVars>>,
         \A i \in GenIds \ {GenId(t)} : genRows'[i] = genRows[i],
         genRows'[GenId(t)] # <<>> /\ genRows'[GenId(t)][1].reply = r
  PROVE  DiskInv'
<1> DEFINE x == ProofOf[r]
<1>0. /\ task \in [Samples -> Pipeline] /\ proofs \in [Texts -> ProofRecord]
      /\ round \in Rounds /\ GenId(t) \in GenIds
      /\ \A u \in Samples : u # t => GenId(u) \in GenIds \ {GenId(t)}
  BY GenIdType DEF TypeInv, TypeOK, GenId
<1>1. \A u \in Samples : Holds(u)
  BY DEF DiskInv
<1>2. \A i \in GenIds : i[1] > round' /\ genRows'[i] # <<>> => i \in ledgerGens'
  BY RecordedFuture
<1>3. CASE Discard(t, r)
  BY <1>3, RecordedRetire DEF Discard
<1>4. CASE Merge(t, r)
  <2> DEFINE pr == [proofs[x] EXCEPT !.origins = proofs[x].origins \cup {GenId(t)},
                                     !.deps = proofs[x].deps \cup Deps(t)]
  <2>1. x \in Texts /\ proofs[x] \in ProofRecord
    BY <1>0, <1>4, ReplyText DEF Merge, Discarded
  <2>2. /\ pr.verdict = proofs[x].verdict /\ pr.round = proofs[x].round
        /\ pr.panel = proofs[x].panel /\ pr.origins = proofs[x].origins \cup {GenId(t)}
    BY <2>1 DEF ProofRecord
  <2>3. proofs' = [proofs EXCEPT ![x] = pr] /\ task' = [task EXCEPT ![t] = Done]
    BY <1>4 DEF Merge, Retire
  <2> HIDE DEF pr
  <2>4. proofs'[x] = pr /\ \A y \in Texts : y # x => proofs'[y] = proofs[y]
    BY <1>0, <2>1, <2>3
  <2>5. \A y \in Texts : proofs'[y].verdict = proofs[y].verdict /\ proofs'[y].round = proofs[y].round
    BY <2>2, <2>4
  <2>6. FutureListed' /\ FoundInRound'
    BY <1>2, <2>5 DEF DiskInv, FutureListed, FoundInRound, ledgerVars, VoteIds
  <2>7. \A u \in Samples : Holds(u)'
    <3>1. Holds(t)'
      BY <1>0, <2>3, FreshPipelines, OverHolds DEF PanelPcs
    <3>2. ASSUME NEW u \in Samples, u # t PROVE Holds(u)'
      <4>1. InPanel(u) => TextOf(u) \in Texts
        BY ReplyText DEF TypeInv, TaskInv, PipelineOK, InPanel, TextOf
      <4>2. Same(u)
        BY <1>0, <2>3, <3>2, UntouchedIsSame
      <4>. QED BY <1>0, <1>1, <2>5, <3>2, <4>1, <4>2, SameHolds
    <3>. QED BY <3>1, <3>2
  <2>8. DecidedFromDisk'
    <3>1. ASSUME NEW y \in Texts, y # x PROVE Backed(y)'
      BY <2>4, <3>1, BackedKept, DecidedIsBacked DEF DiskInv
    <3>2. Backed(x)'
      <4>1. Backed(x) /\ proofs[x].origins \subseteq GenIds
        BY <2>1, DecidedIsBacked DEF DiskInv, ProofRecord
      <4>2. \A i \in pr.origins : genRows'[i] # <<>> /\ ProofOf[genRows'[i][1].reply] = x
        BY <2>2, <4>1 DEF Backed, RowsKept
      <4>. QED BY <2>2, <2>4, <4>1, <4>2 DEF Backed
    <3>. QED BY <3>1, <3>2 DEF DecidedFromDisk, Backed
  <2>. QED BY <2>6, <2>7, <2>8 DEF DiskInv
<1>5. CASE StartPanel(t, r)
  <2> DEFINE pr == [Absent EXCEPT !.verdict = "open", !.owner = Ckpt(t),
                      !.id = nextId, !.round = round, !.self = SelfEval[r],
                      !.origins = {GenId(t)}, !.deps = Deps(t)]
             tk == [Idle EXCEPT !.pc = "verifying", !.reply = r, !.votes = Replayed(x)]
  <2>1. x \in Texts /\ proofs[x].verdict = "absent"
    BY <1>5, ReplyText DEF StartPanel, Discarded
  <2>2. /\ pr.verdict = "open" /\ pr.round = round /\ pr.origins = {GenId(t)}
        /\ tk.pc = "verifying" /\ tk.reply = r /\ tk.votes = Replayed(x)
    BY DEF Absent, Idle
  <2>3. proofs' = [proofs EXCEPT ![x] = pr] /\ task' = [task EXCEPT ![t] = tk]
    BY <1>5 DEF StartPanel
  <2> HIDE DEF pr, tk
  <2>4. /\ proofs'[x] = pr /\ \A y \in Texts : y # x => proofs'[y] = proofs[y]
        /\ task'[t] = tk /\ \A u \in Samples : u # t => task'[u] = task[u]
    BY <1>0, <2>1, <2>3
  <2>5. FutureListed' /\ FoundInRound'
    BY <1>0, <1>2, <2>2, <2>4 DEF DiskInv, FutureListed, FoundInRound, ledgerVars, VoteIds
  <2>6. Holds(t)'
    <3>1. TextOf(t)' = x /\ round' = round /\ ledgerVotes' = ledgerVotes
      BY <2>2, <2>4 DEF TextOf, ledgerVars
    <3>2. ASSUME NEW p \in Panel
          PROVE  IF <<round, x, p>> \in ledgerVotes
                 THEN Replayed(x)[p] = voteRows[<<round, x, p>>][1]
                 ELSE voteRows[<<round, x, p>>] = <<>>
      <4>1. <<round, x, p>> \in VoteIds /\ <<round, x, p>>[1] = round /\ <<round, x, p>>[2] = x
        BY <1>0, <2>1 DEF VoteIds
      <4>2. <<round, x, p>> \notin ledgerVotes => voteRows[<<round, x, p>>] = <<>>
        BY <2>1, <4>1 DEF DiskInv, FutureListed
      <4>. QED BY <4>2 DEF Replayed
    <3>3. PanelHolds(t)'
      BY <2>2, <2>4, <3>1, <3>2 DEF PanelHolds, VoteRow, Known
    <3>4. ResponseHolds(t)'
      BY <2>2, <2>4 DEF ResponseHolds
    <3>. QED BY <3>3, <3>4 DEF Holds
  <2>7. ASSUME NEW u \in Samples, u # t PROVE Holds(u)'
    <3>1. InPanel(u) => TextOf(u) \in Texts /\ TextOf(u) # x
      BY <2>1, ReplyText DEF TypeInv, TaskInv, PipelineOK, InPanel, TextOf, AcceptInv, PanelsOpen
    <3>. QED BY <1>0, <1>1, <2>4, <2>7, <3>1, SameHolds, UntouchedIsSame
  <2>8. DecidedFromDisk'
    <3>1. ASSUME NEW y \in Texts, y # x PROVE Backed(y)'
      BY <2>4, <3>1, BackedKept, DecidedIsBacked DEF DiskInv
    <3>2. Backed(x)'
      BY <2>2, <2>4 DEF Backed
    <3>. QED BY <3>1, <3>2 DEF DecidedFromDisk, Backed
  <2>. QED BY <2>5, <2>6, <2>7, <2>8 DEF DiskInv
<1>. QED BY <1>3, <1>4, <1>5 DEF Settle

-----------------------------------------------------------------------------
(* A panel is judged, with every judgment it holds on disk by then.        *)
VotesOnDisk(x, votes) ==
  \A p \in Panel : votes[p] \in Judgments =>
    voteRows'[<<round, x, p>>] # <<>> /\ voteRows'[<<round, x, p>>][1] = votes[p]

\* Only rows of this round's panel on x are written.
OnlyPanelOf(x) ==
  \A i \in VoteIds : i[1] # round \/ i[2] # x => voteRows'[i] = voteRows[i]

LEMMA CompleteVotes ==
  ASSUME NEW votes \in [Panel -> VoteStates], \A p \in Panel : votes[p] \in Scores
  PROVE  \A p \in Panel : votes[p] \in Judgments
PROOF BY DEF VoteStates, Scores

\* The row of a judgment of a panel in this round is not listed as a future one.
LEMMA PanelFuture ==
  ASSUME TypeInv, AcceptInv, DiskInv, NEW t \in Samples, InPanel(t),
         OnlyPanelOf(TextOf(t)), UNCHANGED <<round, genRows, ledgerVars>>,
         \A y \in Texts : y # TextOf(t) => proofs'[y] = proofs[y],
         proofs'[TextOf(t)].verdict # "absent", proofs'[TextOf(t)].round = proofs[TextOf(t)].round
  PROVE  FutureListed' /\ FoundInRound'
<1>1. round \in Int /\ \A i \in VoteIds : i[1] \in Int /\ i[2] \in Texts
  BY DEF TypeInv, TypeOK, Rounds, VoteIds
<1>2. ASSUME NEW i \in VoteIds, i[1] > round \/ (i[1] = round /\ proofs'[i[2]].verdict = "absent"),
             voteRows'[i] # <<>>
      PROVE  i \in ledgerVotes
  <2>1. voteRows'[i] = voteRows[i]
    BY <1>1, <1>2 DEF OnlyPanelOf
  <2>. QED BY <1>1, <1>2, <2>1 DEF DiskInv, FutureListed
<1>3. FutureListed'
  BY <1>2 DEF FutureListed, DiskInv, ledgerVars
<1>4. FoundInRound'
  <2> SUFFICES ASSUME NEW y \in Texts, proofs'[y].verdict # "absent" PROVE proofs'[y].round \in Rounds
    BY DEF FoundInRound
  <2>1. CASE y # TextOf(t)
    BY <2>1 DEF DiskInv, FoundInRound
  <2>2. CASE y = TextOf(t)
    BY <2>2 DEF DiskInv, FoundInRound, AcceptInv, PanelsOpen
  <2>. QED BY <2>1, <2>2
<1>. QED BY <1>3, <1>4

\* The panels of other pipelines judge other texts.
LEMMA OtherPanelsHold ==
  ASSUME TypeInv, AcceptInv, DiskInv, NEW t \in Samples, InPanel(t),
         OnlyPanelOf(TextOf(t)), UNCHANGED <<round, genRows, ledgerVars>>,
         NEW u \in Samples, u # t, Same(u),
         \A y \in Texts : proofs'[y].round = proofs[y].round
  PROVE  Holds(u)'
<1>1. round \in Rounds
  BY DEF TypeInv, TypeOK
<1>2. InPanel(u) => TextOf(u) \in Texts /\ TextOf(u) # TextOf(t)
  BY ReplyText DEF TypeInv, TaskInv, PipelineOK, InPanel, TextOf, AcceptInv, PanelsDistinct
<1>3. InPanel(u) => \A p \in Panel : voteRows'[<<round, TextOf(u), p>>] = voteRows[<<round, TextOf(u), p>>]
  BY <1>1, <1>2 DEF OnlyPanelOf, VoteIds
<1>. QED BY <1>2, <1>3, SameHolds DEF DiskInv

\* Its proof may get a verdict, which is complete only with every vote.
LEMMA JudgedDisk ==
  ASSUME TypeInv, AcceptInv, DiskInv, NEW t \in Samples, InPanel(t),
         NEW x \in Texts, x = TextOf(t), NEW votes \in [Panel -> VoteStates],
         RowsKept, OneRowPerIdentity', UNCHANGED <<round, genRows, ledgerVars>>,
         OnlyPanelOf(x), VotesOnDisk(x, votes),
         NEW pr, proofs' = [proofs EXCEPT ![x] = pr], pr.verdict # "absent",
         pr.round = proofs[x].round, pr.origins = proofs[x].origins,
         pr.verdict = "complete" => pr.panel = votes /\ \A p \in Panel : votes[p] \in Scores,
         \A u \in Samples : u # t => Same(u), task'[t].pc = "done"
  PROVE  DiskInv'
<1>0. proofs \in [Texts -> ProofRecord] /\ proofs[x] \in ProofRecord /\ proofs[x].round = round
  BY DEF TypeInv, TypeOK, DiskInv, Holds, PanelHolds
<1>1. proofs'[x] = pr /\ \A y \in Texts : y # x => proofs'[y] = proofs[y]
  BY <1>0
<1>2. FutureListed' /\ FoundInRound'
  BY <1>1, PanelFuture
<1>3. \A u \in Samples : Holds(u)'
  <2>1. Holds(t)'
    BY OverHolds DEF PanelPcs
  <2>2. \A y \in Texts : proofs'[y].round = proofs[y].round
    BY <1>1
  <2>3. \A u \in Samples : u # t => Holds(u)'
    BY <2>2, OtherPanelsHold
  <2>. QED BY <2>1, <2>3
<1>4. DecidedFromDisk'
  <2>1. ASSUME NEW y \in Texts, y # x PROVE Backed(y)'
    BY <1>1, <2>1, BackedKept, DecidedIsBacked DEF DiskInv
  <2>2. Backed(x)'
    <3>1. Backed(x) /\ proofs[x].origins \subseteq GenIds
      BY <1>0, DecidedIsBacked DEF DiskInv, ProofRecord
    <3>2. \A i \in pr.origins : genRows'[i] # <<>> /\ ProofOf[genRows'[i][1].reply] = x
      BY <3>1 DEF Backed, RowsKept
    <3>3. pr.verdict = "complete" =>
            \A p \in Panel : /\ voteRows'[<<pr.round, x, p>>] # <<>>
                             /\ voteRows'[<<pr.round, x, p>>][1] = pr.panel[p]
      BY <1>0, CompleteVotes DEF VotesOnDisk
    <3>. QED BY <1>1, <3>2, <3>3 DEF Backed
  <2>. QED BY <2>1, <2>2 DEF DecidedFromDisk, Backed
<1>. QED BY <1>2, <1>3, <1>4 DEF DiskInv

LEMMA ConcludeDisk ==
  ASSUME TypeInv, AcceptInv, DiskInv, NEW t \in Samples, InPanel(t),
         NEW votes \in [Panel -> VoteStates], NEW cut \in BOOLEAN, Conclude(t, votes, cut),
         RowsKept, OneRowPerIdentity', UNCHANGED <<round, genRows, ledgerVars>>,
         OnlyPanelOf(TextOf(t)), VotesOnDisk(TextOf(t), votes)
  PROVE  DiskInv'
<1> DEFINE x == TextOf(t)
<1>0. /\ task \in [Samples -> Pipeline] /\ proofs \in [Texts -> ProofRecord]
      /\ x \in Texts /\ proofs[x] \in ProofRecord /\ proofs[x].verdict = "open"
  BY ReplyText
  DEF TypeInv, TypeOK, TaskInv, PipelineOK, InPanel, TextOf, AcceptInv, PanelsOpen
<1>1. ASSUME NEW pr, proofs' = [proofs EXCEPT ![x] = pr], pr.verdict # "absent",
             pr.round = proofs[x].round, pr.origins = proofs[x].origins,
             pr.verdict = "complete" => pr.panel = votes /\ \A p \in Panel : votes[p] \in Scores,
             \A u \in Samples : u # t => Same(u), task'[t].pc = "done"
      PROVE  DiskInv'
  BY <1>0, <1>1, JudgedDisk
<1>2. ASSUME Retire(t)
      PROVE  task'[t].pc = "done" /\ \A u \in Samples : u # t => Same(u)
  BY <1>0, <1>2, FreshPipelines, UntouchedIsSame DEF Retire
<1>3. CASE Raise(t, votes) \/ Interrupted(t, votes, cut)
  <2>1. proofs' = proofs /\ Retire(t)
    BY <1>3 DEF Raise, Interrupted, proofVars
  <2>2. proofs' = [proofs EXCEPT ![x] = proofs[x]]
    BY <1>0, <2>1
  <2>. QED BY <1>0, <1>1, <1>2, <2>1, <2>2
<1>4. CASE Reject(t, votes, cut)
  <2> DEFINE pr == [proofs[x] EXCEPT !.verdict = Verdict(votes), !.panel = votes]
  <2>1. /\ pr.verdict = Verdict(votes) /\ pr.panel = votes /\ pr.round = proofs[x].round
        /\ pr.origins = proofs[x].origins
    BY <1>0 DEF ProofRecord
  <2>2. proofs' = [proofs EXCEPT ![x] = pr] /\ Retire(t)
    BY <1>4 DEF Reject
  <2> HIDE DEF pr
  <2>3. Verdict(votes) # "absent" /\ (Verdict(votes) = "complete" => \A p \in Panel : votes[p] \in Scores)
    BY DEF Verdict
  <2>. QED BY <1>1, <1>2, <2>1, <2>2, <2>3
<1>5. CASE Accept(t, votes, cut)
  <2> DEFINE pr == [proofs[x] EXCEPT !.verdict = "complete", !.panel = votes, !.accepted = TRUE]
             ended == [task EXCEPT ![t] = Done]
  <2>1. /\ pr.verdict = "complete" /\ pr.panel = votes /\ pr.round = proofs[x].round
        /\ pr.origins = proofs[x].origins
    BY <1>0 DEF ProofRecord
  <2>2. proofs' = [proofs EXCEPT ![x] = pr] /\ task' = Cancelled(ended, Siblings(t))
    BY <1>5 DEF Accept
  <2> HIDE DEF pr
  <2>3. \A p \in Panel : votes[p] \in Scores
    BY <1>5 DEF Accept, Passes, Scores
  <2>4. ended[t] = Done /\ \A u \in Samples : u # t => ended[u] = task[u] /\ task[u] \in Pipeline
    BY <1>0
  <2>5. task'[t].pc = "done" /\ \A u \in Samples : u # t => Same(u)
    BY <2>2, <2>4, FreshPipelines DEF Cancelled, Same, Pipeline
  <2>. QED BY <1>1, <2>1, <2>2, <2>3, <2>5
<1>. QED BY <1>3, <1>4, <1>5 DEF Conclude

-----------------------------------------------------------------------------
(* Writing a row.                                                          *)
LEMMA WriteGenDisk ==
  ASSUME TypeInv, DiskInv, NEW t \in Samples, task[t].pc = "recording", WriteGen(t),
         UNCHANGED voteRows
  PROVE  /\ RowsKept /\ OneRowPerIdentity'
         /\ \A i \in GenIds \ {GenId(t)} : genRows'[i] = genRows[i]
         /\ genRows'[GenId(t)] # <<>> /\ genRows'[GenId(t)][1].reply = task[t].reply
<1> DEFINE row == [reply |-> task[t].reply, parents |-> Deps(t)]
           i   == GenId(t)
<1>1. row \in GenRow
  BY DepsAreTexts DEF TypeInv, TaskInv, PipelineOK, GenRow, Live
<1>2. i \in GenIds /\ genRows[i] = <<>>
  BY GenIdType DEF DiskInv, Holds, ResponseHolds
<1>3. /\ genRows \in [GenIds -> Seq(GenRow)]
      /\ genRows' = [genRows EXCEPT ![i] = Append(genRows[i], row)]
  BY DEF TypeInv, TypeOK, WriteGen
<1>4. /\ Append(genRows[i], row) # <<>> /\ Len(Append(genRows[i], row)) = 1
      /\ Append(genRows[i], row)[1] = row
  BY <1>1, <1>2, AppendRow
<1> HIDE DEF row, i
<1>5. /\ \A j \in GenIds \ {i} : genRows'[j] = genRows[j]
      /\ genRows'[i] # <<>> /\ genRows'[i][1] = row /\ Len(genRows'[i]) = 1
  BY <1>2, <1>3, <1>4
<1>6. RowsKept
  BY <1>2, <1>5 DEF RowsKept
<1>7. OneRowPerIdentity'
  <2>1. ASSUME NEW j \in GenIds PROVE Len(genRows'[j]) <= 1
    <3>1. CASE j = i
      <4>1. Len(genRows'[j]) = 1
        BY <1>5, <3>1
      <4>. QED BY <4>1
    <3>2. CASE j # i
      <4>1. Len(genRows[j]) <= 1 /\ genRows'[j] = genRows[j]
        BY <1>5, <3>2 DEF OneRowPerIdentity, DiskInv
      <4>. QED BY <4>1
    <3>. QED BY <3>1, <3>2
  <2>. QED BY <2>1 DEF OneRowPerIdentity, DiskInv
<1>. QED BY <1>5, <1>6, <1>7 DEF row, i

LEMMA WriteVoteDisk ==
  ASSUME TypeInv, AcceptInv, DiskInv, NEW t \in Samples, NEW p \in Panel, task[t].pc = "voting",
         p \in task[t].unsaved, WriteVote(t, p), UNCHANGED genRows
  PROVE  /\ RowsKept /\ OneRowPerIdentity' /\ OnlyPanelOf(TextOf(t))
         /\ \A q \in Panel \ {p} : voteRows'[<<round, TextOf(t), q>>] = voteRows[<<round, TextOf(t), q>>]
         /\ voteRows'[<<round, TextOf(t), p>>] # <<>>
         /\ voteRows'[<<round, TextOf(t), p>>][1] = task[t].votes[p]
<1> DEFINE v == task[t].votes[p]
           x == TextOf(t)
           i == <<round, x, p>>
<1>1. /\ InPanel(t) /\ v \in Judgments /\ x \in Texts /\ round \in Rounds
      /\ proofs[x].round = round /\ voteRows[i] = <<>>
  BY ReplyText
  DEF TypeInv, TypeOK, TaskInv, PipelineOK, InPanel, PanelPcs, TextOf, DiskInv, Holds, PanelHolds, VoteRow
<1>2. i \in VoteIds /\ \A q \in Panel \ {p} : <<round, x, q>> \in VoteIds \ {i}
  BY <1>1 DEF VoteIds
<1>3. /\ voteRows \in [VoteIds -> Seq(Judgments)]
      /\ voteRows' = [voteRows EXCEPT ![i] = Append(voteRows[i], v)]
  BY <1>1 DEF TypeInv, TypeOK, WriteVote
<1>4. /\ Append(voteRows[i], v) # <<>> /\ Len(Append(voteRows[i], v)) = 1
      /\ Append(voteRows[i], v)[1] = v
  BY <1>1, AppendRow
<1>5. i[1] = round /\ i[2] = x
  OBVIOUS
<1>9. voteRows[i] = <<>>
  BY <1>1
<1> HIDE DEF v, x, i
<1>6. /\ \A j \in VoteIds \ {i} : voteRows'[j] = voteRows[j]
      /\ voteRows'[i] # <<>> /\ voteRows'[i][1] = v /\ Len(voteRows'[i]) = 1
  BY <1>2, <1>3, <1>4
<1>7. RowsKept /\ OneRowPerIdentity'
  <2>1. RowsKept
    BY <1>2, <1>6, <1>9 DEF RowsKept
  <2>2. ASSUME NEW j \in VoteIds PROVE Len(voteRows'[j]) <= 1
    <3>1. CASE j = i
      <4>1. Len(voteRows'[j]) = 1
        BY <1>6, <3>1
      <4>. QED BY <4>1
    <3>2. CASE j # i
      <4>1. Len(voteRows[j]) <= 1 /\ voteRows'[j] = voteRows[j]
        BY <1>6, <3>2 DEF OneRowPerIdentity, DiskInv
      <4>. QED BY <4>1
    <3>. QED BY <3>1, <3>2
  <2>. QED BY <2>1, <2>2 DEF OneRowPerIdentity, DiskInv
<1>8. OnlyPanelOf(x)
  BY <1>5, <1>6 DEF OnlyPanelOf
<1>. QED BY <1>2, <1>6, <1>7, <1>8 DEF v, x, i

-----------------------------------------------------------------------------
(* Each step of a pipeline.                                                *)
LEMMA SpawnDisk ==
  ASSUME TypeInv, AcceptInv, DiskInv, NEW t \in Samples, Spawn(t)
  PROVE  DiskInv'
<1>1. /\ task[t].pc = "created" /\ Live(t) /\ ~InPanel(t)
      /\ UNCHANGED <<round, diskVars, ledgerVars>>
  BY DEF Spawn, Live, InPanel, PanelPcs, roundVars
<1>2. RowsKept /\ OneRowPerIdentity'
  BY <1>1, RowsUnchanged DEF DiskInv, OneRowPerIdentity, diskVars
<1>3. CASE GenId(t) \in ledgerGens
  <2>1. genRows[GenId(t)] \in Seq(GenRow) /\ genRows[GenId(t)] # <<>>
    BY <1>3, GenIdType DEF TypeInv, TypeOK, LedgerInv
  <2>2. genRows[GenId(t)][1] \in GenRow
    BY <2>1
  <2>3. genRows[GenId(t)][1].reply \in Replies /\ Settle(t, genRows[GenId(t)][1].reply)
    BY <1>3, <2>2 DEF GenRow, Spawn
  <2>. QED BY <1>1, <1>2, <2>1, <2>3, SettleDisk DEF diskVars
<1>4. CASE GenId(t) \notin ledgerGens
  <2> DEFINE tk == [task[t] EXCEPT !.pc = "requesting"]
  <2>1. task' = [task EXCEPT ![t] = tk] /\ UNCHANGED proofVars
    BY <1>4 DEF Spawn
  <2>2. task'[t].pc = "requesting"
    BY <2>1 DEF TypeInv, TypeOK, Pipeline
  <2>3. genRows'[GenId(t)'] = <<>>
    BY <1>1, <1>4 DEF DiskInv, Holds, ResponseHolds, GenId, diskVars
  <2>4. Holds(t)'
    BY <2>2, <2>3 DEF Holds, ResponseHolds, PanelHolds, InPanel, PanelPcs
  <2>. QED BY <1>1, <2>1, <2>4, QuietOne
<1>. QED BY <1>3, <1>4

LEMMA RequestDisk ==
  ASSUME TypeInv, DiskInv, NEW t \in Samples, RequestStep(t)
  PROVE  DiskInv'
<1>0. UNCHANGED <<round, proofVars, diskVars, ledgerVars>> /\ task[t].pc = "requesting"
  BY DEF RequestStep, Respond, ParkRequest, FatalRequest, AbandonRequest, TaskOnly, roundVars
<1>1. ASSUME NEW r \in Replies, Respond(t, r) PROVE DiskInv'
  <2> DEFINE tk == [Idle EXCEPT !.pc = "recording", !.reply = r, !.sink = "open"]
  <2>1. task' = [task EXCEPT ![t] = tk] /\ tk.pc = "recording"
    BY <1>1 DEF Respond, Idle
  <2> HIDE DEF tk
  <2>2. task'[t].pc = "recording"
    BY <2>1 DEF TypeInv, TypeOK
  <2>3. genRows'[GenId(t)'] = <<>>
    BY <1>0 DEF DiskInv, Holds, ResponseHolds, GenId, diskVars
  <2>4. Holds(t)'
    BY <2>2, <2>3 DEF Holds, ResponseHolds, PanelHolds, InPanel, PanelPcs
  <2>. QED BY <1>0, <2>1, <2>4, QuietOne
<1>2. CASE ParkRequest(t)
  <2> DEFINE tk == [task[t] EXCEPT !.pc = "parking", !.sink = "open"]
  <2>1. task' = [task EXCEPT ![t] = tk] /\ tk.pc = "parking"
    BY <1>2 DEF ParkRequest, TypeInv, TypeOK, Pipeline
  <2> HIDE DEF tk
  <2>2. task'[t].pc = "parking"
    BY <2>1 DEF TypeInv, TypeOK
  <2>. QED BY <1>0, <2>1, <2>2, OverHolds, QuietOne DEF PanelPcs
<1>3. CASE FatalRequest(t) \/ AbandonRequest(t)
  BY <1>0, <1>3, QuietRetire DEF FatalRequest, AbandonRequest
<1>. QED BY <1>1, <1>2, <1>3 DEF RequestStep

LEMMA DeliverDisk ==
  ASSUME TypeInv, DiskInv, NEW t \in Samples, DeliverCancel(t)
  PROVE  DiskInv'
<1> DEFINE tk == [task[t] EXCEPT !.sink = "flush", !.cancel = FALSE]
<1>1. /\ UNCHANGED <<round, proofVars, diskVars, ledgerVars>>
      /\ task' = [task EXCEPT ![t] = tk]
  BY DEF DeliverCancel, TaskOnly, roundVars, TypeInv, TypeOK
<1>2. tk.pc = task[t].pc /\ tk.reply = task[t].reply /\ tk.votes = task[t].votes /\ tk.unsaved = task[t].unsaved
  BY DEF TypeInv, TypeOK, Pipeline
<1> HIDE DEF tk
<1>3. \A u \in Samples : Same(u)
  BY <1>1, <1>2 DEF TypeInv, TypeOK, Same
<1>. QED BY <1>1, <1>3, QuietStep

LEMMA SaveResponseDisk ==
  ASSUME TypeInv, AcceptInv, DiskInv, NEW t \in Samples, SaveResponse(t)
  PROVE  DiskInv'
<1>1. /\ task[t].pc = "recording" /\ Live(t) /\ ~InPanel(t) /\ task[t].reply \in Replies
      /\ WriteGen(t) /\ UNCHANGED <<round, voteRows, ledgerVars>>
  BY DEF SaveResponse, Live, InPanel, PanelPcs, roundVars, TypeInv, TaskInv, PipelineOK
<1>2. /\ RowsKept /\ OneRowPerIdentity'
      /\ \A i \in GenIds \ {GenId(t)} : genRows'[i] = genRows[i]
      /\ genRows'[GenId(t)] # <<>> /\ genRows'[GenId(t)][1].reply = task[t].reply
  BY <1>1, WriteGenDisk
<1>3. CASE Settle(t, task[t].reply)
  BY <1>1, <1>2, <1>3, SettleDisk
<1>4. CASE Retire(t) /\ UNCHANGED proofVars
  BY <1>1, <1>2, <1>4, RecordedRetire DEF proofVars
<1>. QED BY <1>3, <1>4 DEF SaveResponse

LEMMA VoteDisk ==
  ASSUME TypeInv, DiskInv, NEW t \in Samples, NEW p \in Panel, NEW v, Answer(t, p, v)
  PROVE  DiskInv'
<1> DEFINE tk == [task[t] EXCEPT !.votes = [task[t].votes EXCEPT ![p] = v]]
<1>0. task[t] \in Pipeline /\ task[t].votes \in [Panel -> VoteStates] /\ "open" \notin Judgments
  BY JudgmentsAssumption DEF TypeInv, TypeOK, Pipeline, Scores
<1>1. /\ UNCHANGED <<round, proofVars, diskVars, ledgerVars>> /\ InPanel(t)
      /\ task[t].pc = "verifying" /\ task[t].votes[p] = "open" /\ task' = [task EXCEPT ![t] = tk]
  BY <1>0 DEF Answer, TaskOnly, roundVars, InPanel, PanelPcs
<1>2. /\ tk.pc = "verifying" /\ tk.reply = task[t].reply
      /\ \A q \in Panel : q # p => tk.votes[q] = task[t].votes[q]
  BY <1>0, <1>1 DEF Pipeline
<1> HIDE DEF tk
<1>3. task'[t] = tk
  BY <1>1 DEF TypeInv, TypeOK
<1>4. TextOf(t)' = TextOf(t) /\ TextOf(t) \in Texts /\ round \in Rounds
  BY <1>1, <1>2, <1>3, ReplyText DEF TextOf, InPanel, TypeInv, TypeOK, TaskInv, PipelineOK
<1>5. ASSUME NEW q \in Panel, Known(TextOf(t), q) PROVE q # p
  <2>1. <<round, TextOf(t), q>> \in VoteIds /\ voteRows[<<round, TextOf(t), q>>] # <<>>
    BY <1>4, <1>5 DEF Known, VoteIds, TypeInv, LedgerInv
  <2>2. voteRows[<<round, TextOf(t), q>>] \in Seq(Judgments)
    BY <2>1 DEF TypeInv, TypeOK
  <2>3. VoteRow(TextOf(t), q)[1] \in Judgments
    BY <2>1, <2>2 DEF VoteRow
  <2>. QED BY <1>0, <1>1, <1>5, <2>3 DEF DiskInv, Holds, PanelHolds
<1>6. PanelHolds(t)'
  BY <1>1, <1>2, <1>3, <1>4, <1>5
  DEF DiskInv, Holds, PanelHolds, VoteRow, Known, proofVars, diskVars, ledgerVars
<1>7. ResponseHolds(t)'
  BY <1>2, <1>3 DEF ResponseHolds
<1>. QED BY <1>1, <1>6, <1>7, QuietOne DEF Holds

\* What a panel without unsaved votes holds is on disk.
LEMMA SavedVotes ==
  ASSUME TypeInv, DiskInv, NEW t \in Samples, InPanel(t), task[t].pc # "verifying"
  PROVE  \A p \in Panel : p \notin task[t].unsaved /\ task[t].votes[p] \in Judgments =>
           voteRows[<<round, TextOf(t), p>>] # <<>>
           /\ voteRows[<<round, TextOf(t), p>>][1] = task[t].votes[p]
PROOF BY DEF DiskInv, Holds, PanelHolds, VoteRow

\* Once its votes are in, the same is true of those that are not to be saved.
LEMMA CollectedVotes ==
  ASSUME TypeInv, DiskInv, NEW t \in Samples, task[t].pc = "verifying"
  PROVE  \A p \in Panel :
           /\ p \in Unsaved(t) => voteRows[<<round, TextOf(t), p>>] = <<>>
           /\ p \notin Unsaved(t) /\ task[t].votes[p] \in Judgments =>
                voteRows[<<round, TextOf(t), p>>] # <<>>
                /\ voteRows[<<round, TextOf(t), p>>][1] = task[t].votes[p]
<1>1. InPanel(t)
  BY DEF InPanel, PanelPcs
<1>2. \A p \in Panel : Known(TextOf(t), p) => voteRows[<<round, TextOf(t), p>>] # <<>>
  BY DEF Known, TypeInv, LedgerInv
<1>. QED BY <1>1, <1>2 DEF DiskInv, Holds, PanelHolds, VoteRow, Known, Unsaved

LEMMA CollectDisk ==
  ASSUME TypeInv, AcceptInv, DiskInv, NEW t \in Samples, Collect(t)
  PROVE  DiskInv'
<1> DEFINE cut   == task[t].cancel
           raw   == task[t].votes
           votes == [p \in Panel |-> IF cut /\ raw[p] \in {"parked", "fatal"}
                                     THEN "cut" ELSE raw[p]]
           next  == [task[t] EXCEPT !.cancel = FALSE, !.cut = cut,
                       !.votes = votes, !.unsaved = Unsaved(t), !.sink = "open"]
<1>0. /\ task[t] \in Pipeline /\ task[t].pc = "verifying" /\ InPanel(t)
      /\ UNCHANGED <<round, diskVars, ledgerVars>>
  BY DEF Collect, InPanel, PanelPcs, roundVars, TypeInv, TypeOK
<1>1. /\ cut \in BOOLEAN /\ votes \in [Panel -> VoteStates]
      /\ \A p \in Panel : votes[p] \in Judgments => votes[p] = raw[p]
  BY <1>0, JudgmentsAssumption DEF Pipeline, VoteStates, Scores
<1>2. ASSUME NEW pc \in {"noting", "voting"}, UNCHANGED proofVars,
             task' = [task EXCEPT ![t] = [next EXCEPT !.pc = pc]]
      PROVE  DiskInv'
  <2> DEFINE tk == [next EXCEPT !.pc = pc]
  <2>1. tk.pc = pc /\ tk.reply = task[t].reply /\ tk.votes = votes /\ tk.unsaved = Unsaved(t)
    BY <1>0 DEF Pipeline
  <2>2. task'[t] = tk
    BY <1>2 DEF TypeInv, TypeOK
  <2> HIDE DEF tk
  <2>3. TextOf(t)' = TextOf(t)
    BY <2>1, <2>2 DEF TextOf
  <2>4. ResponseHolds(t)'
    BY <2>1, <2>2 DEF ResponseHolds
  <2>5. ASSUME NEW p \in Panel
        PROVE  /\ p \in task'[t].unsaved => VoteRow(TextOf(t), p)' = <<>>
               /\ p \notin task'[t].unsaved /\ task'[t].votes[p] \in Judgments =>
                    VoteRow(TextOf(t), p)' # <<>> /\ VoteRow(TextOf(t), p)'[1] = task'[t].votes[p]
    <3>1. VoteRow(TextOf(t), p)' = voteRows[<<round, TextOf(t), p>>]
      BY <1>0, <2>3 DEF VoteRow, diskVars
    <3>. QED BY <1>0, <1>1, <2>1, <2>2, <3>1, CollectedVotes
  <2>6. proofs'[TextOf(t)'].round = round'
    BY <1>0, <1>2, <2>3 DEF DiskInv, Holds, PanelHolds, proofVars
  <2>7. PanelHolds(t)'
    BY <2>1, <2>2, <2>5, <2>6 DEF PanelHolds
  <2>. QED BY <1>0, <1>2, <2>4, <2>7, QuietOne DEF Holds
<1>3. CASE Unsaved(t) = {} /\ Conclude(t, votes, cut)
  <2>1. VotesOnDisk(TextOf(t), votes)
    BY <1>0, <1>1, <1>3, CollectedVotes DEF VotesOnDisk, diskVars
  <2>2. RowsKept /\ OneRowPerIdentity' /\ OnlyPanelOf(TextOf(t)) /\ UNCHANGED genRows
    BY <1>0, RowsUnchanged DEF DiskInv, OneRowPerIdentity, OnlyPanelOf, diskVars
  <2>. QED BY <1>0, <1>1, <1>3, <2>1, <2>2, ConcludeDisk
<1>. QED BY <1>2, <1>3 DEF Collect

LEMMA NoteErrorsDisk ==
  ASSUME TypeInv, AcceptInv, DiskInv, NEW t \in Samples, NoteErrors(t)
  PROVE  DiskInv'
<1>0. /\ task[t] \in Pipeline /\ task[t].pc = "noting" /\ InPanel(t)
      /\ UNCHANGED <<round, diskVars, ledgerVars>>
  BY DEF NoteErrors, InPanel, PanelPcs, roundVars, TypeInv, TypeOK
<1>1. CASE Retire(t) /\ UNCHANGED proofVars
  BY <1>0, <1>1, QuietRetire
<1>2. CASE task' = [task EXCEPT ![t].pc = "voting"] /\ UNCHANGED proofVars
  <2> DEFINE tk == [task[t] EXCEPT !.pc = "voting"]
  <2>1. /\ tk.pc = "voting" /\ tk.reply = task[t].reply /\ tk.votes = task[t].votes
        /\ tk.unsaved = task[t].unsaved /\ task' = [task EXCEPT ![t] = tk]
    BY <1>0, <1>2 DEF Pipeline
  <2> HIDE DEF tk
  <2>2. task'[t] = tk
    BY <2>1 DEF TypeInv, TypeOK
  <2>3. TextOf(t)' = TextOf(t)
    BY <2>1, <2>2 DEF TextOf
  <2>4. Holds(t)'
    BY <1>0, <1>2, <2>1, <2>2, <2>3
    DEF DiskInv, Holds, ResponseHolds, PanelHolds, VoteRow, proofVars, diskVars
  <2>. QED BY <1>0, <1>2, <2>1, <2>4, QuietOne
<1>3. CASE task[t].unsaved = {} /\ Conclude(t, task[t].votes, task[t].cut)
  <2>1. VotesOnDisk(TextOf(t), task[t].votes)
    BY <1>0, <1>3, SavedVotes DEF VotesOnDisk, diskVars
  <2>2. RowsKept /\ OneRowPerIdentity' /\ OnlyPanelOf(TextOf(t)) /\ UNCHANGED genRows
    BY <1>0, RowsUnchanged DEF DiskInv, OneRowPerIdentity, OnlyPanelOf, diskVars
  <2>. QED BY <1>0, <1>3, <2>1, <2>2, ConcludeDisk DEF Pipeline
<1>. QED BY <1>1, <1>2, <1>3 DEF NoteErrors

LEMMA SaveVoteDisk ==
  ASSUME TypeInv, AcceptInv, DiskInv, NEW t \in Samples, NEW p \in Panel, SaveVote(t, p)
  PROVE  DiskInv'
<1>0. /\ task[t] \in Pipeline /\ task[t].pc = "voting" /\ InPanel(t) /\ p \in task[t].unsaved
      /\ TextOf(t) \in Texts /\ WriteVote(t, p) /\ UNCHANGED <<round, genRows, ledgerVars>>
      /\ proofs[TextOf(t)].verdict = "open" /\ proofs \in [Texts -> ProofRecord]
  BY ReplyText
  DEF SaveVote, InPanel, PanelPcs, roundVars, TypeInv, TypeOK, TaskInv, PipelineOK, TextOf,
      AcceptInv, PanelsOpen
<1>1. /\ RowsKept /\ OneRowPerIdentity' /\ OnlyPanelOf(TextOf(t))
      /\ \A q \in Panel \ {p} : voteRows'[<<round, TextOf(t), q>>] = voteRows[<<round, TextOf(t), q>>]
      /\ voteRows'[<<round, TextOf(t), p>>] # <<>>
      /\ voteRows'[<<round, TextOf(t), p>>][1] = task[t].votes[p]
  BY <1>0, WriteVoteDisk
<1>2. CASE Retire(t) /\ UNCHANGED proofVars
  <2> DEFINE none == [q \in Panel |-> "none"]
  <2>1. none \in [Panel -> VoteStates] /\ VotesOnDisk(TextOf(t), none)
    BY JudgmentsAssumption DEF VotesOnDisk, VoteStates, Scores
  <2>2. proofs' = [proofs EXCEPT ![TextOf(t)] = proofs[TextOf(t)]]
    BY <1>0, <1>2 DEF proofVars
  <2>3. task'[t].pc = "done" /\ \A u \in Samples : u # t => Same(u)
    BY <1>2, FreshPipelines, UntouchedIsSame DEF Retire, TypeInv, TypeOK
  <2> HIDE DEF none
  <2>. QED BY <1>0, <1>1, <2>1, <2>2, <2>3, JudgedDisk
<1>3. CASE /\ task' = [task EXCEPT ![t].unsaved = @ \ {p}]
           /\ UNCHANGED proofVars
  <2> DEFINE tk == [task[t] EXCEPT !.unsaved = task[t].unsaved \ {p}]
  <2>1. /\ tk.pc = "voting" /\ tk.reply = task[t].reply /\ tk.votes = task[t].votes
        /\ tk.unsaved = task[t].unsaved \ {p} /\ task' = [task EXCEPT ![t] = tk]
    BY <1>0, <1>3 DEF Pipeline
  <2> HIDE DEF tk
  <2>2. task'[t] = tk /\ \A u \in Samples : u # t => task'[u] = task[u]
    BY <2>1 DEF TypeInv, TypeOK
  <2>3. TextOf(t)' = TextOf(t) /\ proofs' = proofs
    BY <1>3, <2>1, <2>2 DEF TextOf, proofVars
  <2>4. Holds(t)'
    <3>1. ResponseHolds(t)'
      BY <2>1, <2>2 DEF ResponseHolds
    <3>2. ASSUME NEW q \in Panel
          PROVE  /\ q \in task'[t].unsaved => VoteRow(TextOf(t), q)' = <<>>
                 /\ q \notin task'[t].unsaved /\ task'[t].votes[q] \in Judgments =>
                      VoteRow(TextOf(t), q)' # <<>> /\ VoteRow(TextOf(t), q)'[1] = task'[t].votes[q]
      <4>1. VoteRow(TextOf(t), q)' = voteRows'[<<round, TextOf(t), q>>]
        BY <1>0, <2>3 DEF VoteRow
      <4>2. q \in task[t].unsaved => voteRows[<<round, TextOf(t), q>>] = <<>>
        BY <1>0 DEF DiskInv, Holds, PanelHolds, VoteRow
      <4>3. CASE q = p
        BY <1>1, <2>1, <2>2, <4>1, <4>3
      <4>4. CASE q # p
        BY <1>0, <1>1, <2>1, <2>2, <4>1, <4>2, <4>4, SavedVotes
      <4>. QED BY <4>3, <4>4
    <3>3. proofs'[TextOf(t)'].round = round'
      BY <1>0, <2>3 DEF DiskInv, Holds, PanelHolds
    <3>4. PanelHolds(t)'
      BY <2>1, <2>2, <3>2, <3>3 DEF PanelHolds
    <3>. QED BY <3>1, <3>4 DEF Holds
  <2>5. \A u \in Samples : u # t => Holds(u)'
    BY <1>0, <1>1, <2>2, <2>3, UntouchedIsSame, OtherPanelsHold
  <2>6. FutureListed' /\ FoundInRound'
    BY <1>0, <1>1, <2>3, PanelFuture
  <2>7. DecidedFromDisk'
    BY <1>1, <2>3, BackedKept, DecidedIsBacked DEF DiskInv, DecidedFromDisk, Backed
  <2>. QED BY <1>1, <2>4, <2>5, <2>6, <2>7 DEF DiskInv
<1>4. CASE task[t].unsaved = {p} /\ Conclude(t, task[t].votes, task[t].cut)
  <2>1. VotesOnDisk(TextOf(t), task[t].votes)
    <3> SUFFICES ASSUME NEW q \in Panel, task[t].votes[q] \in Judgments
                 PROVE  voteRows'[<<round, TextOf(t), q>>] # <<>>
                        /\ voteRows'[<<round, TextOf(t), q>>][1] = task[t].votes[q]
      BY DEF VotesOnDisk
    <3>1. CASE q = p BY <1>1, <3>1
    <3>2. CASE q # p BY <1>0, <1>1, <1>4, <3>2, SavedVotes
    <3>. QED BY <3>1, <3>2
  <2>. QED BY <1>0, <1>1, <1>4, <2>1, ConcludeDisk DEF Pipeline
<1>. QED BY <1>2, <1>3, <1>4 DEF SaveVote

LEMMA TaskStepDisk ==
  ASSUME TypeInv, AcceptInv, DiskInv, NEW t \in Samples, TaskStep(t)
  PROVE  DiskInv'
<1>1. CASE LoseRow(t) \/ FailWrite(t) \/ SaveParked(t)
  <2>1. Retire(t) /\ UNCHANGED <<round, proofVars, diskVars, ledgerVars>>
    BY <1>1 DEF LoseRow, FailWrite, SaveParked, TaskOnly, roundVars
  <2>. QED BY <2>1, QuietRetire
<1>2. CASE VoteStep(t)
  BY <1>2, VoteDisk DEF VoteStep, Judge, ParkVote, FatalVote, CutVote
<1>. QED BY <1>1, <1>2, SpawnDisk, RequestDisk, DeliverDisk, SaveResponseDisk, CollectDisk,
            NoteErrorsDisk, SaveVoteDisk DEF TaskStep, WriteStep

-----------------------------------------------------------------------------
(* A round begins with the responses of its identities in the ledger, or   *)
(* with none of them on disk.                                              *)
LEMMA StartHolds ==
  ASSUME NEW r, NEW ps, NEW t \in Samples, task' = NewTasks(r, ps),
         GenId(t)' \notin ledgerGens' => genRows'[GenId(t)'] = <<>>
  PROVE  Holds(t)'
<1>1. task'[t].pc \in {"idle", "created"}
  BY NewTasksTyped
<1>. QED BY <1>1 DEF Holds, ResponseHolds, PanelHolds, InPanel, PanelPcs

LEMMA RefineDisk ==
  ASSUME TypeInv, DiskInv, Refine
  PROVE  DiskInv'
<1>0. /\ round \in Int /\ round' = round + 1 /\ round' \in Rounds /\ task' = NewTasks(round', parents')
      /\ UNCHANGED <<proofs, genRows, voteRows, ledgerGens, ledgerVotes>>
  BY SizesAssumption DEF Refine, TypeInv, TypeOK, Rounds, proofVars, diskVars, ledgerVars
<1>1. \A i \in GenIds \cup VoteIds : i[1] \in Int /\ (i[1] >= round' => i[1] > round)
  BY <1>0 DEF GenIds, VoteIds, Rounds
<1>2. FutureListed'
  BY <1>0, <1>1 DEF DiskInv, FutureListed
<1>3. ASSUME NEW t \in Samples PROVE Holds(t)'
  <2>1. GenId(t)' \in GenIds /\ GenId(t)'[1] = round'
    BY <1>0 DEF GenId, GenIds
  <2>2. GenId(t)' \notin ledgerGens' => genRows'[GenId(t)'] = <<>>
    BY <1>0, <1>1, <2>1 DEF DiskInv, FutureListed
  <2>. QED BY <1>0, <2>2, StartHolds
<1>4. DecidedFromDisk' /\ OneRowPerIdentity' /\ FoundInRound'
  BY <1>0 DEF DiskInv, DecidedFromDisk, OneRowPerIdentity, FoundInRound
<1>. QED BY <1>2, <1>3, <1>4 DEF DiskInv

(* A launch begins with nothing recorded, and all rows in the ledger.      *)
LEMMA LaunchDisk ==
  /\ Init => DiskInv
  /\ TypeInv /\ DiskInv /\ Relaunch => DiskInv'
<1>1. ASSUME Init PROVE DiskInv
  <2>1. \A x \in Texts : proofs[x].verdict = "absent" /\ proofs[x].origins = {}
    BY <1>1 DEF Init, NoProofs, Absent
  <2>2. /\ \A i \in GenIds : genRows[i] = <<>> /\ Len(genRows[i]) <= 1
        /\ \A i \in VoteIds : voteRows[i] = <<>> /\ Len(voteRows[i]) <= 1
    BY <1>1 DEF Init
  <2>3. ASSUME NEW t \in Samples PROVE Holds(t)
    <3>1. task[t].pc \in {"idle", "created"}
      BY <1>1, NewTasksTyped DEF Init
    <3>2. GenId(t) \in GenIds
      BY <1>1, FirstRound DEF Init, GenId, GenIds
    <3>. QED BY <2>2, <3>1, <3>2 DEF Holds, ResponseHolds, PanelHolds, InPanel, PanelPcs
  <2>. QED BY <2>1, <2>2, <2>3
           DEF DiskInv, FutureListed, FoundInRound, DecidedFromDisk, OneRowPerIdentity
<1>2. ASSUME TypeInv, DiskInv, Relaunch PROVE DiskInv'
  <2>1. \A x \in Texts : proofs'[x].verdict = "absent" /\ proofs'[x].origins = {}
    BY <1>2 DEF Relaunch, NoProofs, Absent
  <2>2. /\ genRows' = genRows /\ voteRows' = voteRows /\ round' = 1
        /\ ledgerGens' = {i \in GenIds : genRows[i] # <<>>}
        /\ ledgerVotes' = {i \in VoteIds : voteRows[i] # <<>>}
    BY <1>2 DEF Relaunch, diskVars
  <2>3. ASSUME NEW t \in Samples PROVE Holds(t)'
    <3>1. GenId(t)' \in GenIds
      BY <2>2, FirstRound DEF GenId, GenIds
    <3>. QED BY <1>2, <2>2, <3>1, StartHolds DEF Relaunch
  <2>4. FutureListed' /\ FoundInRound' /\ DecidedFromDisk' /\ OneRowPerIdentity'
    BY <1>2, <2>1, <2>2 DEF DiskInv, FutureListed, FoundInRound, DecidedFromDisk, OneRowPerIdentity
  <2>. QED BY <2>3, <2>4 DEF DiskInv
<1>. QED BY <1>1, <1>2

LEMMA RoundDisk ==
  ASSUME TypeInv, DiskInv, RoundStep \/ Stop \/ UNCHANGED vars
  PROVE  DiskInv'
<1>1. CASE BatchFails \/ Stop
  <2>1. task' = Cancelled(task, Samples) /\ UNCHANGED <<round, proofVars, diskVars, ledgerVars>>
    BY <1>1 DEF BatchFails, Stop, roundVars
  <2>2. \A u \in Samples : Same(u)
    BY <2>1 DEF Cancelled, Same, TypeInv, TypeOK, Pipeline
  <2>. QED BY <2>1, <2>2, QuietStep
<1>2. CASE task' = task /\ UNCHANGED <<round, proofVars, diskVars, ledgerVars>>
  BY <1>2, UntouchedIsSame, QuietStep
<1>. QED BY <1>1, <1>2, RefineDisk
     DEF RoundStep, FinishAccepted, FinishFallback, FinishEmpty, Finish, Drained, vars, roundVars

LEMMA AcceptInvariant == Spec => []AcceptInv
<1>1. TypeInv /\ AcceptInv /\ [Next]_vars => AcceptInv'
  BY TaskStepAccepts, RoundAccepts, LaunchAccepts DEF Next, Progress, Terminated
<1>. QED BY LaunchAccepts, TypeInvariant, <1>1, PTL DEF Spec

(* The rows on disk are those the pipelines, the records and the ledger    *)
(* speak of, whatever the interleaving, the stops and the relaunches.      *)
THEOREM DiskInvariant == Spec => []DiskInv
<1>1. TypeInv /\ AcceptInv /\ DiskInv /\ [Next]_vars => DiskInv'
  BY TaskStepDisk, RoundDisk, LaunchDisk DEF Next, Progress, Terminated
<1>. QED BY LaunchDisk, TypeInvariant, AcceptInvariant, <1>1, PTL DEF Spec

(* The search decides on nothing that a crash could take back.             *)
THEOREM Decisions == Spec => []DecidedFromDisk
<1>1. DiskInv => DecidedFromDisk
  BY DEF DiskInv
<1>. QED BY DiskInvariant, <1>1, PTL

(* No identity ever has two rows (resume.py:134).                          *)
THEOREM OneRow == Spec => []OneRowPerIdentity
<1>1. DiskInv => OneRowPerIdentity
  BY DEF DiskInv
<1>. QED BY DiskInvariant, <1>1, PTL

(* Rows are only ever added, and identities keep their meaning within a    *)
(* round.                                                                  *)
LEMMA RowsStay ==
  ASSUME TypeInv, [Next]_vars
  PROVE  /\ \A i \in GenIds : genRows[i] # <<>> => genRows'[i] # <<>>
         /\ \A i \in VoteIds : voteRows[i] # <<>> => voteRows'[i] # <<>>
         /\ \/ round' = round
            \/ \A t \in Samples : task'[t].pc \in {"idle", "created"}
<1>1. CASE UNCHANGED <<round, genRows, voteRows>>
  BY <1>1
<1>2. ASSUME NEW t \in Samples, TaskStep(t)
      PROVE  /\ round' = round
             /\ \/ UNCHANGED <<genRows, voteRows>>
                \/ task[t].pc = "recording" /\ WriteGen(t) /\ UNCHANGED voteRows
                \/ \E p \in Panel : /\ task[t].pc = "voting" /\ p \in task[t].unsaved
                                    /\ WriteVote(t, p) /\ UNCHANGED genRows
  <2>1. CASE Spawn(t) \/ RequestStep(t) \/ Collect(t) \/ VoteStep(t)
    BY <2>1 DEF Spawn, RequestStep, Respond, ParkRequest, FatalRequest, AbandonRequest, Collect, VoteStep,
                Judge, ParkVote, FatalVote, CutVote, Answer, TaskOnly, roundVars, diskVars
  <2>2. CASE WriteStep(t)
    BY <2>2 DEF WriteStep, DeliverCancel, LoseRow, FailWrite, SaveResponse, SaveParked, NoteErrors,
                SaveVote, TaskOnly, roundVars, diskVars
  <2>. QED BY <1>2, <2>1, <2>2 DEF TaskStep
<1>3. ASSUME NEW t \in Samples, TaskStep(t)
      PROVE  /\ \A i \in GenIds : genRows[i] # <<>> => genRows'[i] # <<>>
             /\ \A i \in VoteIds : voteRows[i] # <<>> => voteRows'[i] # <<>>
  <2>1. ASSUME task[t].pc = "recording", WriteGen(t), UNCHANGED voteRows
        PROVE  \A i \in GenIds : genRows[i] # <<>> => genRows'[i] # <<>>
    <3> DEFINE row == [reply |-> task[t].reply, parents |-> Deps(t)]
    <3>1. row \in GenRow
      BY <2>1, DepsAreTexts DEF TypeInv, TaskInv, PipelineOK, GenRow, Live
    <3> HIDE DEF row
    <3>2. /\ GenId(t) \in GenIds /\ genRows \in [GenIds -> Seq(GenRow)]
          /\ genRows' = [genRows EXCEPT ![GenId(t)] = Append(genRows[GenId(t)], row)]
      BY <2>1, GenIdType DEF TypeInv, TypeOK, WriteGen, row
    <3>3. Append(genRows[GenId(t)], row) # <<>>
      BY <3>1, <3>2, AppendRow
    <3>. QED BY <3>2, <3>3
  <2>2. ASSUME NEW p \in Panel, task[t].pc = "voting", p \in task[t].unsaved, WriteVote(t, p)
        PROVE  \A i \in VoteIds : voteRows[i] # <<>> => voteRows'[i] # <<>>
    <3> DEFINE v == task[t].votes[p]
               k == <<proofs[TextOf(t)].round, TextOf(t), p>>
    <3>1. v \in Judgments
      BY <2>2 DEF TypeInv, TaskInv, PipelineOK
    <3>2. /\ voteRows \in [VoteIds -> Seq(Judgments)]
          /\ voteRows' = [voteRows EXCEPT ![k] = Append(voteRows[k], v)]
      BY <2>2 DEF TypeInv, TypeOK, WriteVote
    <3> HIDE DEF v, k
    <3>3. k \in VoteIds => Append(voteRows[k], v) # <<>>
      <4>1. k \in VoteIds => voteRows[k] \in Seq(Judgments)
        BY <3>2
      <4>. QED BY <3>1, <4>1, AppendRow
    <3>. QED BY <3>2, <3>3
  <2>. QED BY <1>2, <1>3, <2>1, <2>2
<1>4. CASE Refine \/ Relaunch
  <2>1. genRows' = genRows /\ voteRows' = voteRows
    BY <1>4 DEF Refine, Relaunch, diskVars
  <2>2. \A t \in Samples : task'[t].pc \in {"idle", "created"}
    BY <1>4, NewTasksTyped DEF Refine, Relaunch
  <2>. QED BY <2>1, <2>2
<1>5. CASE RoundStep \/ Stop \/ Terminated \/ UNCHANGED vars
  BY <1>1, <1>4, <1>5
  DEF RoundStep, FinishAccepted, FinishFallback, FinishEmpty, Finish, BatchFails, Drained, Stop,
      Terminated, vars, roundVars, diskVars
<1>. QED BY <1>2, <1>3, <1>4, <1>5 DEF Next, Progress

(* What is on disk is never requested again (resume.py:19): a pipeline that *)
(* requests, or whose panel asks for a vote, has no row of it afterwards,  *)
(* and so it had none before.                                              *)
THEOREM Replays == Spec => NeverReissued
<1>1. ASSUME TypeInv, TypeInv', DiskInv', [Next]_vars, NEW t \in Samples
      PROVE  /\ task[t].pc = "created" /\ task'[t].pc = "requesting"
                  => genRows[GenId(t)] = <<>>
             /\ task[t].pc # "verifying" /\ task'[t].pc = "verifying"
                  => \A p \in Panel : task'[t].votes[p] = "open"
                       => voteRows[<<round, ProofOf[task'[t].reply], p>>] = <<>>
  <2>1. CASE task'[t].pc = "requesting"
    <3>1. genRows'[GenId(t)'] = <<>> /\ round' = round /\ GenId(t) \in GenIds
      BY <1>1, <2>1, RowsStay, GenIdType DEF DiskInv, Holds, ResponseHolds
    <3>. QED BY <1>1, <2>1, <3>1, RowsStay DEF GenId
  <2>2. CASE task'[t].pc = "verifying"
    <3> SUFFICES ASSUME NEW p \in Panel, task'[t].votes[p] = "open"
                 PROVE  voteRows[<<round, ProofOf[task'[t].reply], p>>] = <<>>
      BY <2>2
    <3> DEFINE x == ProofOf[task'[t].reply]
               i == <<round, x, p>>
    <3>1. x \in Texts /\ round' = round /\ round \in Rounds /\ TextOf(t)' = x
      BY <1>1, <2>2, ReplyText, RowsStay DEF TypeInv, TypeOK, TaskInv, PipelineOK, PanelPcs, TextOf
    <3>2. i \in VoteIds
      BY <3>1 DEF VoteIds
    <3>3. IF i \in ledgerVotes' THEN task'[t].votes[p] = voteRows'[i][1] ELSE voteRows'[i] = <<>>
      BY <1>1, <2>2, <3>1 DEF DiskInv, Holds, PanelHolds, InPanel, PanelPcs, VoteRow, Known
    <3>4. i \in ledgerVotes' => voteRows'[i][1] \in Judgments
      <4>1. i \in ledgerVotes' => voteRows'[i] \in Seq(Judgments) /\ voteRows'[i] # <<>>
        BY <1>1, <3>2 DEF TypeInv, TypeOK, LedgerInv
      <4>. QED BY <4>1
    <3>5. "open" \notin Judgments
      BY JudgmentsAssumption DEF Scores
    <3>6. voteRows'[i] = <<>>
      BY <3>3, <3>4, <3>5
    <3>. QED BY <1>1, <3>2, <3>6, RowsStay
  <2>. QED BY <2>1, <2>2
<1> DEFINE Fresh ==
  \A t \in Samples :
    /\ task[t].pc = "created" /\ task'[t].pc = "requesting"
         => genRows[GenId(t)] = <<>>
    /\ task[t].pc # "verifying" /\ task'[t].pc = "verifying"
         => \A p \in Panel : task'[t].votes[p] = "open"
              => voteRows[<<round, ProofOf[task'[t].reply], p>>] = <<>>
<1>2. TypeInv /\ TypeInv' /\ DiskInv' /\ [Next]_vars => [Fresh]_vars
  <2>1. TypeInv /\ TypeInv' /\ DiskInv' /\ [Next]_vars => Fresh
    BY <1>1
  <2>. QED BY <2>1
<1>. QED BY <1>2, TypeInvariant, DiskInvariant, PTL DEF Spec, NeverReissued

-----------------------------------------------------------------------------
(* The end: a search's outcome follows from the rows on disk, and the      *)
(* search implements its promise, Search.                                  *)
(*                                                                         *)
(* OutcomeFollowsDisk is about the last step only, so everything in it     *)
(* has to be carried there by OutcomeInv: a proof without a verdict is     *)
(* still under a panel, unless its checkpoint has stopped or the launch    *)
(* ends without an outcome; a verdict "incomplete" means that a score is   *)
(* missing on disk; and a panel of full marks is accepted at once.  Then a *)
(* search that finishes without an accepted proof has judged every text    *)
(* that is completely scored on disk, and its fallback is the best one.    *)

(* Nothing more is judged for a checkpoint: it stopped, or the launch ends *)
(* without an outcome.                                                     *)
Over(c) == failed \/ phase \in {"draining", "exited"} \/ c \in stopped

Scored(r, x) ==
  \A p \in Panel : voteRows[<<r, x, p>>] # <<>> /\ voteRows[<<r, x, p>>][1] \in Scores

(* Before it finishes, a search has no outcome.                            *)
NoneYet == phase # "finished" => outcome = NoOutcome

RecordsFound ==
  \A x \in Texts :
    IF proofs[x].verdict = "absent" THEN proofs[x].owner = 0 /\ proofs[x].round = 0
                                    ELSE proofs[x].owner \in Checkpoints

(* A proof without a verdict is under a panel or will never have one, and  *)
(* a panel is cut off for that reason only.                                *)
OpenIsJudged ==
  \A x \in Texts : proofs[x].verdict = "open" =>
    Over(proofs[x].owner) \/ \E t \in Samples : InPanel(t) /\ TextOf(t) = x

CutHasCause == \A t \in Samples : InPanel(t) /\ CutOff(task[t]) => Over(Ckpt(t))

(* What a panel received no judgment for is not on disk.                   *)
BlankVotes ==
  \A t \in Samples : InPanel(t) /\ task[t].pc # "verifying" =>
    \A p \in Panel : task[t].votes[p] \notin Judgments => VoteRow(TextOf(t), p) = <<>>

IncompleteOnDisk ==
  \A x \in Texts : proofs[x].verdict = "incomplete" => ~Scored(proofs[x].round, x)

(* A complete panel has a score for every vote; full marks are accepted.   *)
CompleteIsScored ==
  \A x \in Texts : proofs[x].verdict = "complete" =>
    /\ \A p \in Panel : proofs[x].panel[p] \in Scores
    /\ Passes(proofs[x].panel) => proofs[x].accepted

OutcomeInv == /\ NoneYet /\ RecordsFound /\ OpenIsJudged /\ CutHasCause
              /\ BlankVotes /\ IncompleteOnDisk /\ CompleteIsScored

-----------------------------------------------------------------------------
(* What a step of the pipelines leaves of the records and the panels.      *)
RecordKept(x) ==
  /\ proofs'[x].owner = proofs[x].owner /\ proofs'[x].round = proofs[x].round
  /\ proofs'[x].verdict # proofs[x].verdict =>
       proofs[x].verdict = "open" /\ proofs'[x].verdict \in {"incomplete", "complete"}
  /\ proofs'[x].verdict = "incomplete" => ~Scored(proofs[x].round, x)'
  /\ proofs'[x].verdict = "complete" =>
       /\ \A p \in Panel : proofs'[x].panel[p] \in Scores
       /\ Passes(proofs'[x].panel) => proofs'[x].accepted

PanelKept(u) ==
  /\ InPanel(u)' => /\ InPanel(u) /\ task'[u].reply = task[u].reply
                    /\ CutOff(task'[u]) => CutOff(task[u]) \/ Over(Ckpt(u))'
                    /\ task'[u].pc # "verifying" =>
                         \A p \in Panel : task'[u].votes[p] \notin Judgments =>
                           VoteRow(TextOf(u), p)' = <<>>
  /\ InPanel(u) => \/ InPanel(u)'
                   \/ Over(Ckpt(u))'
                   \/ proofs'[TextOf(u)].verdict # "open"

StaysOver == \A c \in Checkpoints : Over(c) => Over(c)'

(* The launch goes on, and what is over stays over.                        *)
Onward ==
  /\ stopped \subseteq stopped'
  /\ failed => failed'
  /\ outcome' = outcome
  /\ phase' = phase \/ (phase = "spawning" /\ phase' = "searching")

LEMMA OnwardStaysOver ==
  ASSUME Onward
  PROVE  StaysOver /\ (NoneYet => NoneYet')
<1>1. ASSUME NEW c \in Checkpoints, Over(c) PROVE Over(c)'
  <2>1. CASE failed
    <3>1. failed'
      BY <2>1 DEF Onward
    <3>. QED BY <3>1 DEF Over
  <2>2. CASE phase \in {"draining", "exited"}
    <3>1. phase' \in {"draining", "exited"}
      BY <2>2 DEF Onward
    <3>. QED BY <3>1 DEF Over
  <2>3. CASE c \in stopped
    <3>1. c \in stopped'
      BY <2>3 DEF Onward
    <3>. QED BY <3>1 DEF Over
  <2>. QED BY <1>1, <2>1, <2>2, <2>3 DEF Over
<1>2. NoneYet => NoneYet'
  BY DEF Onward, NoneYet, NoOutcome, NoFinalists
<1>. QED BY <1>1, <1>2 DEF StaysOver

LEMMA TaskStepOnward ==
  ASSUME NEW t \in Samples, TaskStep(t)
  PROVE  Onward /\ round' = round
<1>1. ASSUME NEW r, Settle(t, r)
      PROVE  finalists' = finalists /\ stopped' = stopped
  BY <1>1 DEF Settle
<1>2. ASSUME NEW votes, NEW cut, Conclude(t, votes, cut)
      PROVE  stopped \subseteq stopped' /\ (failed => failed')
  BY <1>2 DEF Conclude, Raise, Interrupted, Reject, Accept, proofVars
<1>3. CASE Spawn(t)
  <2>1. stopped' = stopped
    BY <1>1, <1>3 DEF Spawn, proofVars
  <2>2. phase = "spawning" /\ phase' \in {"spawning", "searching"}
    BY <1>3 DEF Spawn
  <2>3. failed' = failed /\ outcome' = outcome /\ round' = round
    BY <1>3 DEF Spawn, roundVars
  <2>4. failed => failed'
    BY <2>3
  <2>. QED BY <2>1, <2>2, <2>3, <2>4 DEF Onward
<1>4. CASE RequestStep(t)
  <2>1. CASE FatalRequest(t)
    <3>1. failed' /\ UNCHANGED <<phase, round, outcome, stopped>>
      BY <2>1 DEF FatalRequest, roundVars, proofVars
    <3>. QED BY <3>1 DEF Onward
  <2>2. CASE ~FatalRequest(t)
    <3>1. UNCHANGED <<phase, round, outcome, stopped, failed>>
      BY <1>4, <2>2 DEF RequestStep, Respond, ParkRequest, AbandonRequest, TaskOnly, roundVars, proofVars
    <3>. QED BY <3>1 DEF Onward
  <2>. QED BY <2>1, <2>2
<1>10. CASE VoteStep(t)
  BY <1>10 DEF VoteStep, Judge, ParkVote, FatalVote, CutVote, Answer, TaskOnly, Onward, roundVars, proofVars
<1>5. CASE Collect(t)
  BY <1>2, <1>5 DEF Collect, Onward, roundVars, proofVars
<1>6. CASE DeliverCancel(t) \/ LoseRow(t) \/ FailWrite(t) \/ SaveParked(t)
  BY <1>6 DEF DeliverCancel, LoseRow, FailWrite, SaveParked, TaskOnly, Onward, roundVars, proofVars
<1>7. CASE SaveResponse(t)
  BY <1>1, <1>7 DEF SaveResponse, Onward, roundVars, proofVars
<1>8. CASE NoteErrors(t)
  BY <1>2, <1>8 DEF NoteErrors, Onward, roundVars, proofVars
<1>9. ASSUME NEW p \in Panel, SaveVote(t, p) PROVE Onward /\ round' = round
  BY <1>2, <1>9 DEF SaveVote, Onward, roundVars, proofVars
<1>. QED BY <1>3, <1>4, <1>5, <1>6, <1>7, <1>8, <1>9, <1>10 DEF TaskStep, WriteStep

LEMMA StepKeepsJudging ==
  ASSUME TypeInv, AcceptInv, OutcomeInv, NoneYet', StaysOver,
         \A x \in Texts : RecordKept(x), \A u \in Samples : PanelKept(u)
  PROVE  OutcomeInv'
<1>1. RecordsFound'
  BY DEF OutcomeInv, RecordsFound, RecordKept
<1>2. OpenIsJudged'
  <2> SUFFICES ASSUME NEW x \in Texts, proofs'[x].verdict = "open"
               PROVE  Over(proofs[x].owner)' \/ \E u \in Samples : InPanel(u)' /\ TextOf(u)' = x
    BY DEF OpenIsJudged
  <2>1. proofs[x].verdict = "open" /\ proofs'[x].owner = proofs[x].owner /\ proofs[x].owner \in Checkpoints
    BY DEF RecordKept, OutcomeInv, RecordsFound
  <2>2. CASE Over(proofs[x].owner)
    BY <2>1, <2>2 DEF StaysOver
  <2>3. ASSUME NEW u \in Samples, InPanel(u), TextOf(u) = x
        PROVE  Over(proofs[x].owner)' \/ (InPanel(u)' /\ TextOf(u)' = x)
    <3>1. proofs'[x].owner = Ckpt(u)
      BY <2>1, <2>3 DEF AcceptInv, PanelsOpen
    <3>2. CASE Over(Ckpt(u))'
      BY <3>1, <3>2 DEF Over, Ckpt
    <3>3. CASE InPanel(u)'
      BY <2>3, <3>3 DEF PanelKept, TextOf
    <3>. QED BY <2>3, <3>2, <3>3 DEF PanelKept
  <2>. QED BY <2>1, <2>2, <2>3 DEF OutcomeInv, OpenIsJudged
<1>3. CutHasCause'
  <2> SUFFICES ASSUME NEW u \in Samples, InPanel(u)', CutOff(task'[u])
               PROVE  Over(Ckpt(u))'
    BY DEF CutHasCause, Ckpt
  <2>1. Ckpt(u) \in Checkpoints
    BY CkptType
  <2>. QED BY <2>1 DEF OutcomeInv, CutHasCause, PanelKept, StaysOver
<1>4. BlankVotes'
  BY DEF BlankVotes, PanelKept
<1>5. IncompleteOnDisk' /\ CompleteIsScored'
  BY DEF IncompleteOnDisk, CompleteIsScored, RecordKept
<1>. QED BY <1>1, <1>2, <1>3, <1>4, <1>5 DEF OutcomeInv

\* A record that nobody writes to is kept, when the rows of its panel are.
LEMMA UntouchedRecord ==
  ASSUME TypeInv, OutcomeInv, NEW x \in Texts, proofs'[x] = proofs[x],
         proofs[x].verdict = "incomplete" =>
           \A p \in Panel : voteRows'[<<proofs[x].round, x, p>>] = voteRows[<<proofs[x].round, x, p>>]
  PROVE  RecordKept(x)
<1>1. proofs[x].verdict = "incomplete" => ~Scored(proofs[x].round, x)
  BY DEF OutcomeInv, IncompleteOnDisk
<1>2. proofs[x].verdict = "incomplete" => ~Scored(proofs[x].round, x)'
  BY <1>1 DEF Scored
<1>. QED BY <1>2 DEF RecordKept, OutcomeInv, CompleteIsScored

\* So is a panel that stays as it is, or is cancelled for a cause.
LEMMA SamePanel ==
  ASSUME TypeInv, OutcomeInv, NEW u \in Samples, Same(u), UNCHANGED round,
         CutOff(task'[u]) => CutOff(task[u]) \/ Over(Ckpt(u))',
         InPanel(u) => \A p \in Panel : voteRows'[<<round, TextOf(u), p>>] = voteRows[<<round, TextOf(u), p>>]
  PROVE  PanelKept(u)
<1>1. InPanel(u)' = InPanel(u) /\ TextOf(u)' = TextOf(u)
  BY DEF Same, InPanel, TextOf
<1>2. ASSUME InPanel(u), task'[u].pc # "verifying", NEW p \in Panel, task'[u].votes[p] \notin Judgments
      PROVE  VoteRow(TextOf(u), p)' = <<>>
  <2>1. VoteRow(TextOf(u), p) = <<>>
    BY <1>2 DEF Same, OutcomeInv, BlankVotes
  <2>. QED BY <1>1, <1>2, <2>1 DEF VoteRow
<1>. QED BY <1>1, <1>2 DEF PanelKept, Same

LEMMA NoPanel ==
  ASSUME NEW u \in Samples, ~InPanel(u), task'[u].pc \notin PanelPcs
  PROVE  PanelKept(u)
PROOF BY DEF PanelKept, InPanel

\* A step of one pipeline that writes no vote and judges nothing.
LEMMA QuietJudging ==
  ASSUME TypeInv, AcceptInv, OutcomeInv, Onward, UNCHANGED <<round, proofs, voteRows>>,
         NEW t \in Samples, PanelKept(t), \A u \in Samples : u # t => task'[u] = task[u]
  PROVE  OutcomeInv'
<1>1. \A x \in Texts : RecordKept(x)
  BY UntouchedRecord
<1>2. ASSUME NEW u \in Samples, u # t PROVE PanelKept(u)
  BY <1>2, SamePanel, UntouchedIsSame
<1>. QED BY <1>1, <1>2, OnwardStaysOver, StepKeepsJudging DEF OutcomeInv

\* A pipeline may end outside a panel, with an error, or when it is cut off.
LEMMA RetireKept ==
  ASSUME TypeInv, OutcomeInv, Onward, NEW t \in Samples, Retire(t),
         ~InPanel(t) \/ failed' \/ CutOff(task[t])
  PROVE  PanelKept(t) /\ \A u \in Samples : u # t => task'[u] = task[u]
<1>1. task'[t].pc = "done" /\ \A u \in Samples : u # t => task'[u] = task[u]
  BY FreshPipelines DEF Retire, TypeInv, TypeOK
<1>2. InPanel(t) => Over(Ckpt(t))'
  <2>1. CASE failed' BY <2>1 DEF Over
  <2>2. CASE InPanel(t) /\ CutOff(task[t])
    BY <2>2, CkptType, OnwardStaysOver DEF OutcomeInv, CutHasCause, StaysOver
  <2>. QED BY <2>1, <2>2
<1>. QED BY <1>1, <1>2 DEF PanelKept, InPanel, PanelPcs

-----------------------------------------------------------------------------
(* A recorded response is merged, or opens a panel that nothing has cut    *)
(* off.                                                                    *)
LEMMA SettleJudging ==
  ASSUME TypeInv, AcceptInv, DiskInv, OutcomeInv, Onward, NEW t \in Samples, ~InPanel(t),
         NEW r \in Replies, Settle(t, r), UNCHANGED <<round, voteRows>>
  PROVE  OutcomeInv'
<1> DEFINE x == ProofOf[r]
<1>0. /\ task \in [Samples -> Pipeline] /\ proofs \in [Texts -> ProofRecord] /\ round \in Rounds
      /\ NoneYet' /\ StaysOver
  BY OnwardStaysOver DEF TypeInv, TypeOK, OutcomeInv
<1>1. CASE Discard(t, r)
  BY <1>1, RetireKept, QuietJudging DEF Discard
<1>2. CASE Merge(t, r)
  <2> DEFINE pr == [proofs[x] EXCEPT !.origins = proofs[x].origins \cup {GenId(t)},
                                     !.deps = proofs[x].deps \cup Deps(t)]
  <2>1. x \in Texts /\ proofs[x] \in ProofRecord
    BY <1>0, <1>2, ReplyText DEF Merge, Discarded
  <2>2. /\ pr.verdict = proofs[x].verdict /\ pr.round = proofs[x].round /\ pr.owner = proofs[x].owner
        /\ pr.panel = proofs[x].panel /\ pr.accepted = proofs[x].accepted
    BY <2>1 DEF ProofRecord
  <2>3. proofs' = [proofs EXCEPT ![x] = pr] /\ Retire(t)
    BY <1>2 DEF Merge
  <2> HIDE DEF pr
  <2>4. proofs'[x] = pr /\ \A y \in Texts : y # x => proofs'[y] = proofs[y]
    BY <1>0, <2>1, <2>3
  <2>5. ASSUME NEW y \in Texts PROVE RecordKept(y)
    <3>1. CASE y # x
      BY <2>4, <3>1, UntouchedRecord
    <3>2. CASE y = x
      <4>1. proofs[x].verdict = "incomplete" => ~Scored(proofs[x].round, x)'
        BY <2>1, <2>2, <2>4 DEF OutcomeInv, IncompleteOnDisk, Scored
      <4>. QED BY <2>1, <2>2, <2>4, <3>2, <4>1 DEF RecordKept, OutcomeInv, CompleteIsScored
    <3>. QED BY <3>1, <3>2
  <2>6. ASSUME NEW u \in Samples PROVE PanelKept(u)
    BY <2>3, RetireKept, SamePanel, UntouchedIsSame
  <2>. QED BY <1>0, <2>5, <2>6, StepKeepsJudging
<1>3. CASE StartPanel(t, r)
  <2> DEFINE pr == [Absent EXCEPT !.verdict = "open", !.owner = Ckpt(t),
                      !.id = nextId, !.round = round, !.self = SelfEval[r],
                      !.origins = {GenId(t)}, !.deps = Deps(t)]
             tk == [Idle EXCEPT !.pc = "verifying", !.reply = r, !.votes = Replayed(x)]
  <2>1. x \in Texts /\ proofs[x].verdict = "absent"
    BY <1>3, ReplyText DEF StartPanel, Discarded
  <2>2. /\ pr.verdict = "open" /\ pr.round = round /\ pr.owner = Ckpt(t)
        /\ tk.pc = "verifying" /\ tk.reply = r /\ ~CutOff(tk)
    BY DEF Absent, Idle, CutOff
  <2>3. proofs' = [proofs EXCEPT ![x] = pr] /\ task' = [task EXCEPT ![t] = tk]
    BY <1>3 DEF StartPanel
  <2> HIDE DEF pr, tk
  <2>4. /\ proofs'[x] = pr /\ \A y \in Texts : y # x => proofs'[y] = proofs[y]
        /\ task'[t] = tk /\ \A u \in Samples : u # t => task'[u] = task[u]
    BY <1>0, <2>1, <2>3
  <2>5. RecordsFound'
    BY <2>2, <2>4, CkptType DEF OutcomeInv, RecordsFound
  <2>6. OpenIsJudged'
    <3> SUFFICES ASSUME NEW y \in Texts, proofs'[y].verdict = "open"
                 PROVE  (Over(proofs[y].owner)' /\ y # x) \/ \E u \in Samples : InPanel(u)' /\ TextOf(u)' = y
      BY <2>4 DEF OpenIsJudged, Over
    <3>1. CASE y = x
      BY <2>2, <2>4, <3>1 DEF InPanel, PanelPcs, TextOf
    <3>2. CASE y # x
      <4>1. /\ proofs[y].verdict = "open" /\ proofs[y].owner \in Checkpoints
            /\ proofs'[y].owner = proofs[y].owner
        BY <2>4, <3>2 DEF OutcomeInv, RecordsFound
      <4>2. CASE Over(proofs[y].owner)
        BY <1>0, <3>2, <4>1, <4>2 DEF StaysOver
      <4>3. ASSUME NEW u \in Samples, InPanel(u), TextOf(u) = y
            PROVE  InPanel(u)' /\ TextOf(u)' = y
        BY <2>4, <4>3 DEF InPanel, TextOf
      <4>. QED BY <4>1, <4>2, <4>3 DEF OutcomeInv, OpenIsJudged
    <3>. QED BY <3>1, <3>2
  <2>7. CutHasCause'
    <3> SUFFICES ASSUME NEW u \in Samples, InPanel(u)', CutOff(task'[u])
                 PROVE  Over(Ckpt(u))'
      BY DEF CutHasCause, Ckpt
    <3>. QED BY <1>0, <2>2, <2>4, CkptType DEF OutcomeInv, CutHasCause, InPanel, StaysOver
  <2>8. BlankVotes'
    <3> SUFFICES ASSUME NEW u \in Samples, InPanel(u)', task'[u].pc # "verifying",
                        NEW p \in Panel, task'[u].votes[p] \notin Judgments
                 PROVE  VoteRow(TextOf(u), p)' = <<>>
      BY DEF BlankVotes
    <3>1. u # t
      BY <2>2, <2>4
    <3>2. VoteRow(TextOf(u), p) = <<>> /\ TextOf(u)' = TextOf(u)
      BY <2>4, <3>1 DEF OutcomeInv, BlankVotes, InPanel, TextOf
    <3>. QED BY <3>2 DEF VoteRow
  <2>9. IncompleteOnDisk'
    BY <2>2, <2>4 DEF OutcomeInv, IncompleteOnDisk, Scored
  <2>10. CompleteIsScored'
    BY <2>2, <2>4 DEF OutcomeInv, CompleteIsScored
  <2>. QED BY <1>0, <2>5, <2>6, <2>7, <2>8, <2>9, <2>10 DEF OutcomeInv
<1>. QED BY <1>1, <1>2, <1>3 DEF Settle

(* A panel is judged; its judgments are on disk, and nothing else of it.   *)
LEMMA ConcludeJudging ==
  ASSUME TypeInv, AcceptInv, DiskInv, OutcomeInv, Onward, NEW t \in Samples, InPanel(t),
         NEW x \in Texts, x = TextOf(t), NEW votes \in [Panel -> VoteStates], NEW cut \in BOOLEAN, Conclude(t, votes, cut),
         cut => CutOff(task[t]),
         UNCHANGED round, OnlyPanelOf(x), VotesOnDisk(x, votes),
         \A p \in Panel : votes[p] \notin Judgments => voteRows'[<<round, x, p>>] = <<>>
  PROVE  OutcomeInv'
<1> DEFINE c == Ckpt(t)
<1>0. /\ task \in [Samples -> Pipeline] /\ proofs \in [Texts -> ProofRecord] /\ round \in Rounds
      /\ NoneYet' /\ StaysOver
  BY OnwardStaysOver DEF TypeInv, TypeOK, OutcomeInv
<1>1. /\ x \in Texts /\ proofs[x] \in ProofRecord /\ proofs[x].verdict = "open"
      /\ proofs[x].owner = c /\ c \in Checkpoints /\ proofs[x].round = round
  BY <1>0, CkptType, ReplyText
  DEF TypeInv, TaskInv, PipelineOK, InPanel, TextOf, AcceptInv, PanelsOpen, DiskInv, Holds, PanelHolds
<1>2. ASSUME NEW y \in Texts, y # x, proofs'[y] = proofs[y] PROVE RecordKept(y)
  <2>1. proofs[y].verdict # "absent" => \A p \in Panel : <<proofs[y].round, y, p>> \in VoteIds
    BY DEF DiskInv, FoundInRound, VoteIds
  <2>2. proofs[y].verdict # "absent" =>
          \A p \in Panel : voteRows'[<<proofs[y].round, y, p>>] = voteRows[<<proofs[y].round, y, p>>]
    BY <1>2, <2>1 DEF OnlyPanelOf
  <2>. QED BY <1>2, <2>2, UntouchedRecord
<1>3. ASSUME NEW u \in Samples, u # t, Same(u), CutOff(task'[u]) => CutOff(task[u]) \/ Over(Ckpt(u))'
      PROVE  PanelKept(u)
  <2>1. InPanel(u) => TextOf(u) \in Texts /\ TextOf(u) # x
    BY <1>3, ReplyText DEF TypeInv, TaskInv, PipelineOK, InPanel, TextOf, AcceptInv, PanelsDistinct
  <2>2. InPanel(u) => \A p \in Panel : voteRows'[<<round, TextOf(u), p>>] = voteRows[<<round, TextOf(u), p>>]
    BY <1>0, <2>1 DEF OnlyPanelOf, VoteIds
  <2>. QED BY <1>3, <2>2, SamePanel
<1>4. CASE Raise(t, votes) \/ Interrupted(t, votes, cut)
  <2>1. Retire(t) /\ proofs' = proofs /\ (failed' \/ CutOff(task[t]))
    BY <1>4 DEF Raise, Interrupted, proofVars
  <2>2. PanelKept(t) /\ \A u \in Samples : u # t => task'[u] = task[u]
    BY <2>1, RetireKept
  <2>3. \A u \in Samples : PanelKept(u)
    BY <1>3, <2>2, UntouchedIsSame
  <2>4. \A y \in Texts : RecordKept(y)
    BY <1>1, <1>2, <2>1, UntouchedRecord
  <2>. QED BY <1>0, <2>3, <2>4, StepKeepsJudging
<1>5. CASE Reject(t, votes, cut)
  <2> DEFINE pr == [proofs[x] EXCEPT !.verdict = Verdict(votes), !.panel = votes]
  <2>1. /\ pr.verdict = Verdict(votes) /\ pr.panel = votes /\ pr.round = proofs[x].round
        /\ pr.owner = proofs[x].owner
    BY <1>1 DEF ProofRecord
  <2>2. proofs' = [proofs EXCEPT ![x] = pr] /\ Retire(t) /\ ~Passes(votes)
    BY <1>5 DEF Reject
  <2> HIDE DEF pr
  <2>3. proofs'[x] = pr /\ \A y \in Texts : y # x => proofs'[y] = proofs[y]
    BY <1>0, <1>1, <2>2
  <2>4. RecordKept(x)
    <3>1. ASSUME Verdict(votes) = "incomplete" PROVE ~Scored(round, x)'
      <4>1. PICK p \in Panel : votes[p] \notin Scores
        BY <3>1 DEF Verdict
      <4>2. voteRows'[<<round, x, p>>] = <<>> \/ voteRows'[<<round, x, p>>][1] \notin Scores
        BY <4>1 DEF VotesOnDisk
      <4>. QED BY <4>2 DEF Scored
    <3>2. Verdict(votes) \in {"incomplete", "complete"}
      BY DEF Verdict
    <3>3. Verdict(votes) = "complete" => \A p \in Panel : votes[p] \in Scores
      BY DEF Verdict
    <3>. QED BY <1>1, <2>1, <2>2, <2>3, <3>1, <3>2, <3>3 DEF RecordKept
  <2>5. task'[t].pc = "done" /\ \A u \in Samples : u # t => task'[u] = task[u]
    BY <1>0, <2>2, FreshPipelines DEF Retire
  <2>6. PanelKept(t)
    BY <2>1, <2>3, <2>5 DEF PanelKept, InPanel, PanelPcs, Verdict
  <2>. QED BY <1>0, <1>2, <1>3, <2>3, <2>4, <2>5, <2>6, UntouchedIsSame, StepKeepsJudging
<1>6. CASE Accept(t, votes, cut)
  <2> DEFINE pr == [proofs[x] EXCEPT !.verdict = "complete", !.panel = votes, !.accepted = TRUE]
             ended == [task EXCEPT ![t] = Done]
  <2>1. /\ pr.verdict = "complete" /\ pr.accepted /\ pr.round = proofs[x].round
        /\ pr.owner = proofs[x].owner /\ \A p \in Panel : pr.panel[p] \in Scores
    BY <1>1, <1>6 DEF ProofRecord, Accept, Passes, Scores
  <2>2. /\ proofs' = [proofs EXCEPT ![x] = pr] /\ task' = Cancelled(ended, Siblings(t))
        /\ stopped' = stopped \cup {c}
    BY <1>6 DEF Accept
  <2> HIDE DEF pr
  <2>3. proofs'[x] = pr /\ \A y \in Texts : y # x => proofs'[y] = proofs[y]
    BY <1>0, <1>1, <2>2
  <2>4. RecordKept(x)
    BY <1>1, <2>1, <2>3 DEF RecordKept
  <2>5. ended[t] = Done /\ \A u \in Samples : u # t => ended[u] = task[u] /\ task[u] \in Pipeline
    BY <1>0
  <2>6. task'[t].pc = "done" /\ \A u \in Samples : u # t => Same(u)
    BY <2>2, <2>5, FreshPipelines DEF Cancelled, Same, Pipeline
  <2>7. PanelKept(t)
    BY <2>1, <2>3, <2>6 DEF PanelKept, InPanel, PanelPcs
  <2>8. ASSUME NEW u \in Samples, u # t
        PROVE  CutOff(task'[u]) => CutOff(task[u]) \/ Over(Ckpt(u))'
    <3>1. CASE u \in Siblings(t)
      <4>1. Ckpt(u) = c /\ c \in stopped'
        BY <2>2, <3>1 DEF Siblings
      <4>. QED BY <4>1 DEF Over, Ckpt
    <3>2. CASE u \notin Siblings(t)
      BY <2>2, <2>5, <2>8, <3>2 DEF Cancelled
    <3>. QED BY <3>1, <3>2
  <2>. QED BY <1>0, <1>2, <1>3, <2>3, <2>4, <2>6, <2>7, <2>8, StepKeepsJudging
<1>. QED BY <1>4, <1>5, <1>6 DEF Conclude

-----------------------------------------------------------------------------
(* Each step of a pipeline.                                                *)
LEMMA SpawnJudging ==
  ASSUME TypeInv, AcceptInv, DiskInv, OutcomeInv, Onward, UNCHANGED round, NEW t \in Samples, Spawn(t)
  PROVE  OutcomeInv'
<1>1. ~InPanel(t) /\ UNCHANGED <<round, voteRows>>
  BY DEF Spawn, InPanel, PanelPcs, diskVars
<1>2. CASE GenId(t) \in ledgerGens
  <2>1. genRows[GenId(t)] \in Seq(GenRow) /\ genRows[GenId(t)] # <<>>
    BY <1>2, GenIdType DEF TypeInv, TypeOK, LedgerInv
  <2>2. genRows[GenId(t)][1].reply \in Replies
    <3>1. genRows[GenId(t)][1] \in GenRow
      BY <2>1
    <3>. QED BY <3>1 DEF GenRow
  <2>. QED BY <1>1, <1>2, <2>2, SettleJudging DEF Spawn
<1>3. CASE GenId(t) \notin ledgerGens
  <2> DEFINE tk == [task[t] EXCEPT !.pc = "requesting"]
  <2>1. task' = [task EXCEPT ![t] = tk] /\ tk.pc = "requesting" /\ proofs' = proofs
    BY <1>3 DEF Spawn, proofVars, TypeInv, TypeOK, Pipeline
  <2> HIDE DEF tk
  <2>2. task'[t].pc = "requesting" /\ \A u \in Samples : u # t => task'[u] = task[u]
    BY <2>1 DEF TypeInv, TypeOK
  <2>. QED BY <1>1, <2>1, <2>2, NoPanel, QuietJudging DEF PanelPcs
<1>. QED BY <1>2, <1>3

LEMMA RequestJudging ==
  ASSUME TypeInv, AcceptInv, OutcomeInv, Onward, UNCHANGED round, NEW t \in Samples, RequestStep(t)
  PROVE  OutcomeInv'
<1>1. UNCHANGED <<round, proofs, voteRows>> /\ task[t].pc = "requesting" /\ ~InPanel(t)
  BY DEF RequestStep, Respond, ParkRequest, FatalRequest, AbandonRequest, TaskOnly, proofVars, diskVars,
         InPanel, PanelPcs
<1>2. \A u \in Samples : u # t => task'[u] = task[u]
  BY DEF RequestStep, Respond, ParkRequest, FatalRequest, AbandonRequest, Retire, TypeInv, TypeOK
<1>3. task'[t].pc \notin PanelPcs
  <2>1. ASSUME NEW r \in Replies, Respond(t, r) PROVE task'[t].pc = "recording"
    BY <2>1 DEF Respond, Idle, TypeInv, TypeOK
  <2>2. ParkRequest(t) => task'[t].pc = "parking"
    BY DEF ParkRequest, Pipeline, TypeInv, TypeOK
  <2>3. FatalRequest(t) \/ AbandonRequest(t) => task'[t].pc = "done"
    BY FreshPipelines DEF FatalRequest, AbandonRequest, Retire, TypeInv, TypeOK
  <2>. QED BY <2>1, <2>2, <2>3 DEF RequestStep, PanelPcs
<1>. QED BY <1>1, <1>2, <1>3, NoPanel, QuietJudging

LEMMA VoteJudging ==
  ASSUME TypeInv, AcceptInv, OutcomeInv, Onward, NEW t \in Samples, NEW p \in Panel, NEW v, Answer(t, p, v)
  PROVE  OutcomeInv'
<1> DEFINE tk == [task[t] EXCEPT !.votes = [task[t].votes EXCEPT ![p] = v]]
<1>1. UNCHANGED <<round, proofs, voteRows>> /\ task[t].pc = "verifying" /\ task' = [task EXCEPT ![t] = tk]
  BY DEF Answer, TaskOnly, roundVars, proofVars, diskVars, TypeInv, TypeOK
<1>2. /\ tk.pc = "verifying" /\ tk.reply = task[t].reply
      /\ tk.cancel = task[t].cancel /\ tk.cut = task[t].cut /\ tk.sink = task[t].sink
  BY <1>1 DEF TypeInv, TypeOK, Pipeline
<1> HIDE DEF tk
<1>3. task'[t] = tk /\ \A u \in Samples : u # t => task'[u] = task[u]
  BY <1>1 DEF TypeInv, TypeOK
<1>4. PanelKept(t)
  BY <1>1, <1>2, <1>3 DEF PanelKept, InPanel, PanelPcs, CutOff
<1>. QED BY <1>1, <1>3, <1>4, QuietJudging

LEMMA DeliverJudging ==
  ASSUME TypeInv, AcceptInv, OutcomeInv, Onward, NEW t \in Samples, DeliverCancel(t)
  PROVE  OutcomeInv'
<1> DEFINE tk == [task[t] EXCEPT !.sink = "flush", !.cancel = FALSE]
<1>1. /\ UNCHANGED <<round, proofs, voteRows>> /\ task[t].cancel = TRUE
      /\ task' = [task EXCEPT ![t] = tk]
  BY DEF DeliverCancel, TaskOnly, roundVars, proofVars, diskVars, TypeInv, TypeOK, Pipeline
<1>2. tk.pc = task[t].pc /\ tk.reply = task[t].reply /\ tk.votes = task[t].votes /\ tk.unsaved = task[t].unsaved
  BY DEF TypeInv, TypeOK, Pipeline
<1> HIDE DEF tk
<1>3. task'[t] = tk /\ \A u \in Samples : u # t => task'[u] = task[u]
  BY <1>1 DEF TypeInv, TypeOK
<1>4. Same(t) /\ CutOff(task[t])
  BY <1>1, <1>2, <1>3 DEF Same, CutOff
<1>5. PanelKept(t)
  BY <1>1, <1>4, SamePanel
<1>. QED BY <1>1, <1>3, <1>5, QuietJudging

LEMMA SaveResponseJudging ==
  ASSUME TypeInv, AcceptInv, DiskInv, OutcomeInv, Onward, UNCHANGED round, NEW t \in Samples, SaveResponse(t)
  PROVE  OutcomeInv'
<1>1. ~InPanel(t) /\ voteRows' = voteRows /\ task[t].reply \in Replies
  BY DEF SaveResponse, InPanel, PanelPcs, TypeInv, TaskInv, PipelineOK
<1>2. CASE Settle(t, task[t].reply)
  BY <1>1, <1>2, SettleJudging
<1>3. CASE Retire(t) /\ UNCHANGED proofVars
  BY <1>1, <1>3, RetireKept, QuietJudging DEF proofVars
<1>. QED BY <1>2, <1>3 DEF SaveResponse

\* A pipeline whose write fails, is abandoned or concerned no panel is over.
LEMMA EndJudging ==
  ASSUME TypeInv, AcceptInv, OutcomeInv, Onward, UNCHANGED round, NEW t \in Samples,
         LoseRow(t) \/ FailWrite(t) \/ SaveParked(t)
  PROVE  OutcomeInv'
<1>1. Retire(t) /\ UNCHANGED <<proofs, voteRows>>
  BY DEF LoseRow, FailWrite, SaveParked, TaskOnly, proofVars, diskVars
<1>2. ~InPanel(t) \/ failed' \/ CutOff(task[t])
  BY DEF LoseRow, FailWrite, SaveParked, Flushing, CutOff, InPanel, PanelPcs
<1>. QED BY <1>1, <1>2, RetireKept, QuietJudging

LEMMA CollectJudging ==
  ASSUME TypeInv, AcceptInv, DiskInv, OutcomeInv, Onward, NEW t \in Samples, Collect(t)
  PROVE  OutcomeInv'
<1> DEFINE cut   == task[t].cancel
           raw   == task[t].votes
           votes == [p \in Panel |-> IF cut /\ raw[p] \in {"parked", "fatal"}
                                     THEN "cut" ELSE raw[p]]
           next  == [task[t] EXCEPT !.cancel = FALSE, !.cut = cut,
                       !.votes = votes, !.unsaved = Unsaved(t), !.sink = "open"]
<1>0. /\ task[t] \in Pipeline /\ task[t].pc = "verifying" /\ InPanel(t)
      /\ UNCHANGED <<round, diskVars, ledgerVars>>
  BY DEF Collect, InPanel, PanelPcs, roundVars, TypeInv, TypeOK
<1>1. /\ cut \in BOOLEAN /\ votes \in [Panel -> VoteStates]
      /\ \A p \in Panel : votes[p] \in Judgments => votes[p] = raw[p]
      /\ \A p \in Panel : votes[p] \notin Judgments => raw[p] \notin Judgments
  BY <1>0, JudgmentsAssumption DEF Pipeline, VoteStates, Scores
<1>2. ASSUME NEW p \in Panel, raw[p] \notin Judgments
      PROVE  voteRows[<<round, TextOf(t), p>>] = <<>>
  <2> DEFINE i == <<round, TextOf(t), p>>
  <2>1. IF i \in ledgerVotes THEN raw[p] = voteRows[i][1] ELSE voteRows[i] = <<>>
    BY <1>0 DEF DiskInv, Holds, PanelHolds, VoteRow, Known
  <2>2. i \in ledgerVotes => voteRows[i][1] \in Judgments
    <3>1. i \in ledgerVotes => voteRows[i] \in Seq(Judgments) /\ voteRows[i] # <<>>
      BY DEF TypeInv, TypeOK, LedgerInv
    <3>. QED BY <3>1
  <2>. QED BY <1>2, <2>1, <2>2
<1>3. ASSUME NEW pc \in {"noting", "voting"}, UNCHANGED proofVars,
             task' = [task EXCEPT ![t] = [next EXCEPT !.pc = pc]]
      PROVE  OutcomeInv'
  <2> DEFINE tk == [next EXCEPT !.pc = pc]
  <2>1. /\ tk.pc = pc /\ tk.reply = task[t].reply /\ tk.votes = votes
        /\ tk.cut = cut /\ tk.cancel = FALSE /\ tk.sink = "open"
    BY <1>0 DEF Pipeline
  <2> HIDE DEF tk
  <2>2. task'[t] = tk /\ \A u \in Samples : u # t => task'[u] = task[u]
    BY <1>3 DEF TypeInv, TypeOK, tk
  <2>3. InPanel(t)' /\ TextOf(t)' = TextOf(t)
    BY <2>1, <2>2 DEF InPanel, PanelPcs, TextOf
  <2>4. CutOff(task'[t]) => CutOff(task[t])
    BY <2>1, <2>2 DEF CutOff
  <2>5. ASSUME NEW p \in Panel, task'[t].votes[p] \notin Judgments
        PROVE  VoteRow(TextOf(t), p)' = <<>>
    <3>1. voteRows[<<round, TextOf(t), p>>] = <<>>
      BY <1>1, <1>2, <2>1, <2>2, <2>5
    <3>2. round' = round /\ voteRows' = voteRows
      BY <1>0 DEF diskVars
    <3>. QED BY <2>3, <3>1, <3>2 DEF VoteRow
  <2>6. PanelKept(t)
    BY <1>0, <2>1, <2>2, <2>3, <2>4, <2>5 DEF PanelKept
  <2>7. UNCHANGED <<round, proofs, voteRows>>
    BY <1>0, <1>3 DEF proofVars, diskVars
  <2>. QED BY <2>2, <2>6, <2>7, QuietJudging
<1>4. CASE Unsaved(t) = {} /\ Conclude(t, votes, cut)
  <2>1. VotesOnDisk(TextOf(t), votes)
    BY <1>0, <1>1, <1>4, CollectedVotes DEF VotesOnDisk, diskVars
  <2>2. /\ OnlyPanelOf(TextOf(t)) /\ round' = round
        /\ \A p \in Panel : votes[p] \notin Judgments => voteRows'[<<round, TextOf(t), p>>] = <<>>
    BY <1>0, <1>1, <1>2 DEF OnlyPanelOf, diskVars
  <2>3. TextOf(t) \in Texts /\ (cut => CutOff(task[t]))
    BY <1>0, ReplyText DEF TypeInv, TaskInv, PipelineOK, PanelPcs, TextOf, CutOff
  <2>. QED BY <1>0, <1>1, <1>4, <2>1, <2>2, <2>3, ConcludeJudging
<1>. QED BY <1>3, <1>4 DEF Collect

LEMMA NoteErrorsJudging ==
  ASSUME TypeInv, AcceptInv, DiskInv, OutcomeInv, Onward, NEW t \in Samples, NoteErrors(t)
  PROVE  OutcomeInv'
<1>0. /\ task[t] \in Pipeline /\ task[t].pc = "noting" /\ InPanel(t) /\ TextOf(t) \in Texts
      /\ UNCHANGED <<round, diskVars>>
  BY ReplyText
  DEF NoteErrors, InPanel, PanelPcs, roundVars, TypeInv, TypeOK, TaskInv, PipelineOK, TextOf
<1>1. CASE Flushing(t) /\ Retire(t) /\ UNCHANGED proofVars
  BY <1>0, <1>1, RetireKept, QuietJudging DEF Flushing, CutOff, proofVars, diskVars
<1>2. CASE task' = [task EXCEPT ![t].pc = "voting"] /\ UNCHANGED proofVars
  <2> DEFINE tk == [task[t] EXCEPT !.pc = "voting"]
  <2>1. /\ tk.pc = "voting" /\ tk.reply = task[t].reply /\ tk.votes = task[t].votes
        /\ tk.cancel = task[t].cancel /\ tk.cut = task[t].cut /\ tk.sink = task[t].sink
        /\ task' = [task EXCEPT ![t] = tk]
    BY <1>0, <1>2 DEF Pipeline
  <2> HIDE DEF tk
  <2>2. task'[t] = tk /\ \A u \in Samples : u # t => task'[u] = task[u]
    BY <2>1 DEF TypeInv, TypeOK
  <2>3. TextOf(t)' = TextOf(t) /\ UNCHANGED <<round, proofs, voteRows>>
    BY <1>0, <1>2, <2>1, <2>2 DEF TextOf, proofVars, diskVars
  <2>4. \A p \in Panel : task'[t].votes[p] \notin Judgments => VoteRow(TextOf(t), p)' = <<>>
    BY <1>0, <2>1, <2>2, <2>3 DEF OutcomeInv, BlankVotes, VoteRow
  <2>5. PanelKept(t)
    BY <1>0, <2>1, <2>2, <2>4 DEF PanelKept, CutOff, InPanel, PanelPcs
  <2>. QED BY <2>2, <2>3, <2>5, QuietJudging
<1>3. CASE task[t].unsaved = {} /\ Conclude(t, task[t].votes, task[t].cut)
  <2>1. VotesOnDisk(TextOf(t), task[t].votes)
    BY <1>0, <1>3, SavedVotes DEF VotesOnDisk, diskVars
  <2>2. /\ OnlyPanelOf(TextOf(t)) /\ round' = round
        /\ \A p \in Panel : task[t].votes[p] \notin Judgments => voteRows'[<<round, TextOf(t), p>>] = <<>>
    BY <1>0 DEF OnlyPanelOf, diskVars, OutcomeInv, BlankVotes, VoteRow
  <2>. QED BY <1>0, <1>3, <2>1, <2>2, ConcludeJudging DEF Pipeline, CutOff
<1>. QED BY <1>1, <1>2, <1>3 DEF NoteErrors

LEMMA SaveVoteJudging ==
  ASSUME TypeInv, AcceptInv, DiskInv, OutcomeInv, Onward, NEW t \in Samples, NEW p \in Panel, SaveVote(t, p)
  PROVE  OutcomeInv'
<1>0. /\ task[t] \in Pipeline /\ task[t].pc = "voting" /\ InPanel(t) /\ p \in task[t].unsaved
      /\ TextOf(t) \in Texts /\ WriteVote(t, p) /\ UNCHANGED <<round, genRows>>
      /\ proofs[TextOf(t)].verdict = "open" /\ task[t].votes[p] \in Judgments
      /\ NoneYet' /\ StaysOver
  BY ReplyText, OnwardStaysOver
  DEF SaveVote, InPanel, PanelPcs, roundVars, TypeInv, TypeOK, TaskInv, PipelineOK, TextOf,
      AcceptInv, PanelsOpen, OutcomeInv
<1>1. /\ OnlyPanelOf(TextOf(t))
      /\ \A q \in Panel \ {p} : voteRows'[<<round, TextOf(t), q>>] = voteRows[<<round, TextOf(t), q>>]
      /\ voteRows'[<<round, TextOf(t), p>>] # <<>>
      /\ voteRows'[<<round, TextOf(t), p>>][1] = task[t].votes[p]
  BY <1>0, WriteVoteDisk
<1>2. ASSUME NEW q \in Panel, task[t].votes[q] \notin Judgments
      PROVE  voteRows'[<<round, TextOf(t), q>>] = <<>>
  BY <1>0, <1>1, <1>2 DEF OutcomeInv, BlankVotes, VoteRow
<1>3. ASSUME proofs' = proofs, PanelKept(t), \A u \in Samples : u # t => task'[u] = task[u]
      PROVE  OutcomeInv'
  <2>1. ASSUME NEW y \in Texts PROVE RecordKept(y)
    <3>1. proofs[y].verdict = "incomplete" =>
            \A q \in Panel : <<proofs[y].round, y, q>> \in VoteIds /\ y # TextOf(t)
      BY <1>0 DEF DiskInv, FoundInRound, VoteIds
    <3>2. proofs[y].verdict = "incomplete" =>
            \A q \in Panel : voteRows'[<<proofs[y].round, y, q>>] = voteRows[<<proofs[y].round, y, q>>]
      BY <1>1, <3>1 DEF OnlyPanelOf
    <3>. QED BY <1>3, <3>2, UntouchedRecord
  <2>2. ASSUME NEW u \in Samples, u # t PROVE PanelKept(u)
    <3>1. InPanel(u) => TextOf(u) \in Texts /\ TextOf(u) # TextOf(t)
      BY <1>0, <2>2, ReplyText
      DEF TypeInv, TaskInv, PipelineOK, InPanel, TextOf, AcceptInv, PanelsDistinct
    <3>2. InPanel(u) => \A q \in Panel : voteRows'[<<round, TextOf(u), q>>] = voteRows[<<round, TextOf(u), q>>]
      BY <1>1, <3>1 DEF OnlyPanelOf, VoteIds, TypeInv, TypeOK
    <3>. QED BY <1>0, <1>3, <2>2, <3>2, SamePanel, UntouchedIsSame
  <2>. QED BY <1>0, <1>3, <2>1, <2>2, StepKeepsJudging
<1>4. CASE Flushing(t) /\ Retire(t) /\ UNCHANGED proofVars
  BY <1>3, <1>4, RetireKept DEF Flushing, CutOff, proofVars
<1>5. CASE task' = [task EXCEPT ![t].unsaved = @ \ {p}] /\ UNCHANGED proofVars
  <2> DEFINE tk == [task[t] EXCEPT !.unsaved = task[t].unsaved \ {p}]
  <2>1. /\ tk.pc = "voting" /\ tk.reply = task[t].reply /\ tk.votes = task[t].votes
        /\ tk.cancel = task[t].cancel /\ tk.cut = task[t].cut /\ tk.sink = task[t].sink
        /\ task' = [task EXCEPT ![t] = tk]
    BY <1>0, <1>5 DEF Pipeline
  <2> HIDE DEF tk
  <2>2. task'[t] = tk /\ \A u \in Samples : u # t => task'[u] = task[u]
    BY <2>1 DEF TypeInv, TypeOK
  <2>3. TextOf(t)' = TextOf(t) /\ round' = round
    BY <1>0, <2>1, <2>2 DEF TextOf
  <2>4. \A q \in Panel : task'[t].votes[q] \notin Judgments => VoteRow(TextOf(t), q)' = <<>>
    BY <1>2, <2>1, <2>2, <2>3 DEF VoteRow
  <2>5. PanelKept(t)
    BY <1>0, <2>1, <2>2, <2>4 DEF PanelKept, CutOff, InPanel, PanelPcs
  <2>. QED BY <1>3, <1>5, <2>2, <2>5 DEF proofVars
<1>6. CASE task[t].unsaved = {p} /\ Conclude(t, task[t].votes, task[t].cut)
  <2>1. VotesOnDisk(TextOf(t), task[t].votes)
    <3> SUFFICES ASSUME NEW q \in Panel, task[t].votes[q] \in Judgments
                 PROVE  voteRows'[<<round, TextOf(t), q>>] # <<>>
                        /\ voteRows'[<<round, TextOf(t), q>>][1] = task[t].votes[q]
      BY DEF VotesOnDisk
    <3>1. CASE q = p BY <1>1, <3>1
    <3>2. CASE q # p BY <1>0, <1>1, <1>6, <3>2, SavedVotes
    <3>. QED BY <3>1, <3>2
  <2>. QED BY <1>0, <1>1, <1>2, <1>6, <2>1, ConcludeJudging DEF Pipeline, CutOff
<1>. QED BY <1>4, <1>5, <1>6 DEF SaveVote

LEMMA TaskStepJudging ==
  ASSUME TypeInv, AcceptInv, DiskInv, OutcomeInv, NEW t \in Samples, TaskStep(t)
  PROVE  OutcomeInv'
<1>1. Onward /\ round' = round
  BY TaskStepOnward
<1>2. CASE VoteStep(t)
  BY <1>1, <1>2, VoteJudging DEF VoteStep, Judge, ParkVote, FatalVote, CutVote
<1>3. CASE RequestStep(t) \/ Spawn(t) \/ Collect(t)
  BY <1>1, <1>3, RequestJudging, SpawnJudging, CollectJudging
<1>4. CASE WriteStep(t)
  BY <1>1, <1>4, DeliverJudging, EndJudging, SaveResponseJudging, NoteErrorsJudging, SaveVoteJudging
  DEF WriteStep
<1>. QED BY <1>2, <1>3, <1>4 DEF TaskStep

-----------------------------------------------------------------------------
(* When a round is over, no proof is under a panel.                        *)
LEMMA RoundOverSettled ==
  ASSUME TypeInv, OutcomeInv, RoundOver
  PROVE  /\ \A u \in Samples : ~InPanel(u)
         /\ \A x \in Texts : proofs[x].verdict = "open" => proofs[x].owner \in stopped
<1>1. \A u \in Samples : ~InPanel(u)
  BY DEF RoundOver, AllDone, Live, InPanel, PanelPcs
<1>2. \A c \in Checkpoints : Over(c) => c \in stopped
  BY DEF RoundOver, Over
<1>. QED BY <1>1, <1>2 DEF OutcomeInv, OpenIsJudged, RecordsFound

LEMMA NoPanelKept ==
  ASSUME TypeInv, OutcomeInv, NoneYet', UNCHANGED <<proofs, stopped, voteRows>>,
         \A u \in Samples : ~InPanel(u)',
         \A x \in Texts : proofs[x].verdict = "open" => proofs[x].owner \in stopped
  PROVE  OutcomeInv'
<1>1. OpenIsJudged'
  BY DEF OpenIsJudged, Over
<1>2. CutHasCause' /\ BlankVotes'
  BY DEF CutHasCause, BlankVotes
<1>3. RecordsFound' /\ IncompleteOnDisk' /\ CompleteIsScored'
  BY DEF OutcomeInv, RecordsFound, IncompleteOnDisk, CompleteIsScored, Scored
<1>. QED BY <1>1, <1>2, <1>3 DEF OutcomeInv

LEMMA RoundJudging ==
  ASSUME TypeInv, AcceptInv, OutcomeInv, RoundStep \/ Stop \/ UNCHANGED vars
  PROVE  OutcomeInv'
<1>1. CASE Refine
  <2>1. \A u \in Samples : ~InPanel(u)'
    BY <1>1, NewTasksTyped DEF Refine, InPanel, PanelPcs
  <2>2. NoneYet'
    BY <1>1 DEF Refine, RoundOver, OutcomeInv, NoneYet, NoOutcome, NoFinalists
  <2>3. RoundOver /\ UNCHANGED <<proofs, stopped, voteRows>>
    BY <1>1 DEF Refine, proofVars, diskVars
  <2>. QED BY <2>1, <2>2, <2>3, RoundOverSettled, NoPanelKept
<1>2. CASE FinishAccepted \/ FinishFallback \/ FinishEmpty
  <2>1. RoundOver /\ UNCHANGED <<proofs, stopped, voteRows, task>> /\ phase' = "finished"
    BY <1>2 DEF FinishAccepted, FinishFallback, FinishEmpty, Finish, proofVars, diskVars
  <2>2. \A u \in Samples : ~InPanel(u)'
    BY <2>1, RoundOverSettled DEF InPanel
  <2>. QED BY <2>1, <2>2, RoundOverSettled, NoPanelKept DEF NoneYet
<1>3. CASE BatchFails \/ Stop \/ Drained
  <2>1. /\ UNCHANGED <<round, outcome, proofs, stopped, voteRows>>
        /\ phase # "finished" /\ phase' \in {"draining", "exited"}
    BY <1>3 DEF BatchFails, Stop, Running, Drained, roundVars, proofVars, diskVars
  <2>2. \A c : Over(c)'
    BY <2>1 DEF Over
  <2>3. NoneYet'
    BY <2>1 DEF OutcomeInv, NoneYet, NoOutcome, NoFinalists
  <2>4. \A u \in Samples : Same(u)
    <3>1. CASE BatchFails \/ Stop
      <4>1. task' = Cancelled(task, Samples)
        BY <3>1 DEF BatchFails, Stop
      <4>. QED BY <4>1 DEF Cancelled, Same, TypeInv, TypeOK, Pipeline
    <3>2. CASE Drained
      BY <3>2, UntouchedIsSame DEF Drained
    <3>. QED BY <1>3, <3>1, <3>2
  <2>5. \A u \in Samples : PanelKept(u)
    <3>1. ASSUME NEW u \in Samples PROVE Over(Ckpt(u))'
      BY <2>1 DEF Over
    <3>. QED BY <2>1, <2>4, <3>1, SamePanel
  <2>. QED BY <2>1, <2>2, <2>3, <2>5, UntouchedRecord, StepKeepsJudging DEF StaysOver
<1>4. CASE UNCHANGED vars
  BY <1>4
  DEF vars, roundVars, proofVars, diskVars, OutcomeInv, NoneYet, RecordsFound, OpenIsJudged, CutHasCause,
      BlankVotes, IncompleteOnDisk, CompleteIsScored, Over, Scored, InPanel, TextOf, VoteRow, Ckpt, CutOff,
      NoOutcome, NoFinalists
<1>. QED BY <1>1, <1>2, <1>3, <1>4 DEF RoundStep

LEMMA LaunchJudging ==
  /\ Init => OutcomeInv
  /\ Relaunch => OutcomeInv'
<1>0. \A x \in Texts : /\ NoProofs[x].verdict = "absent" /\ NoProofs[x].owner = 0
                       /\ NoProofs[x].round = 0
  BY DEF NoProofs, Absent
<1>1. ASSUME Init PROVE OutcomeInv
  <2>1. \A u \in Samples : ~InPanel(u)
    BY <1>1, NewTasksTyped DEF Init, InPanel, PanelPcs
  <2>. QED BY <1>0, <1>1, <2>1
       DEF Init, OutcomeInv, NoneYet, RecordsFound, OpenIsJudged, CutHasCause, BlankVotes,
           IncompleteOnDisk, CompleteIsScored
<1>2. ASSUME Relaunch PROVE OutcomeInv'
  <2>1. \A u \in Samples : ~InPanel(u)'
    BY <1>2, NewTasksTyped DEF Relaunch, InPanel, PanelPcs
  <2>2. NoneYet'
    BY <1>2 DEF Relaunch, NoneYet, NoOutcome, NoFinalists
  <2>3. proofs' = NoProofs
    BY <1>2 DEF Relaunch
  <2>. QED BY <1>0, <2>1, <2>2, <2>3
       DEF OutcomeInv, RecordsFound, OpenIsJudged, CutHasCause, BlankVotes,
           IncompleteOnDisk, CompleteIsScored
<1>. QED BY <1>1, <1>2

(* What a search that goes on knows of what it found: nothing is left      *)
(* without a verdict but what it will not decide on.                       *)
THEOREM OutcomeInvariant == Spec => []OutcomeInv
<1>1. TypeInv /\ AcceptInv /\ DiskInv /\ OutcomeInv /\ [Next]_vars => OutcomeInv'
  BY TaskStepJudging, RoundJudging, LaunchJudging DEF Next, Progress, Terminated
<1>. QED BY LaunchJudging, TypeInvariant, AcceptInvariant, DiskInvariant, <1>1, PTL DEF Spec

-----------------------------------------------------------------------------
(* Points.                                                                 *)
LEMMA PanelFinite ==
  /\ IsFiniteSet(Panel) /\ Cardinality(Panel) = PanelSize /\ PanelSize \in Nat \ {0}
<1>1. PanelSize \in Nat \ {0}
  BY SizesAssumption
<1>. QED BY <1>1, FS_Interval DEF Panel

\* Points are at most two for each vote, and all of them only with all ones.
LEMMA FullPoints ==
  ASSUME NEW votes
  PROVE  /\ Points(votes) \in 0..2 * PanelSize
         /\ Points(votes) = 2 * PanelSize <=> Passes(votes)
<1> DEFINE ones   == {p \in Panel : votes[p] = "one"}
           halves == {p \in Panel : votes[p] = "half"}
<1>1. /\ IsFiniteSet(ones) /\ IsFiniteSet(halves) /\ IsFiniteSet(Panel)
      /\ Cardinality(ones) \in Nat /\ Cardinality(halves) \in Nat
  <2>1. ones \subseteq Panel /\ halves \subseteq Panel
    OBVIOUS
  <2> HIDE DEF ones, halves
  <2>. QED BY <2>1, PanelFinite, FS_Subset, FS_CardinalityType
<1>2. Cardinality(ones) + Cardinality(halves) <= PanelSize
  <2>1. ones \cap halves = {} /\ ones \cup halves \subseteq Panel
    OBVIOUS
  <2> HIDE DEF ones, halves
  <2>2. Cardinality(ones \cup halves) = Cardinality(ones) + Cardinality(halves) - Cardinality(ones \cap halves)
    BY <1>1, FS_Union
  <2>3. Cardinality(ones \cap halves) = 0
    BY <2>1, FS_EmptySet
  <2>4. Cardinality(ones \cup halves) <= Cardinality(Panel)
    BY <1>1, <2>1, FS_Subset
  <2>. QED BY <1>1, <2>2, <2>3, <2>4, PanelFinite
<1>3. Passes(votes) => Cardinality(ones) = PanelSize
  <2>1. Passes(votes) => ones = Panel
    BY DEF Passes
  <2>. QED BY <2>1, PanelFinite
<1>4. Cardinality(ones) = PanelSize => Passes(votes)
  <2>1. ones \subseteq Panel
    OBVIOUS
  <2> HIDE DEF ones
  <2>2. Cardinality(ones) = PanelSize => ones = Panel
    BY <1>1, <2>1, PanelFinite, FS_Subset
  <2>. QED BY <2>2 DEF Passes, ones
<1>5. Points(votes) = 2 * Cardinality(ones) + Cardinality(halves)
  BY DEF Points
<1> HIDE DEF ones, halves
<1>. QED BY <1>1, <1>2, <1>3, <1>4, <1>5, PanelFinite

(* At the end of a round without an accepted proof, the evidence is what   *)
(* is complete on disk.                                                    *)
LEMMA EvidenceIsDisk ==
  ASSUME TypeInv, AcceptInv, DiskInv, OutcomeInv, RoundOver, ~Accepted, NEW x \in Texts
  PROVE  /\ x \in Evidence <=> proofs[x].verdict # "absent" /\ Scored(proofs[x].round, x)
         /\ x \in Evidence => DiskPanel(x) = proofs[x].panel /\ ~Passes(proofs[x].panel)
<1>0. /\ proofs[x] \in ProofRecord /\ finalists \in [Checkpoints -> Texts \cup {NoText}]
  BY DEF TypeInv, TypeOK
<1>1. proofs[x].verdict # "absent" => proofs[x].owner \in Checkpoints \ stopped
  BY DEF OutcomeInv, RecordsFound, Accepted, AcceptInv, StoppedCutsOff
<1>2. proofs[x].verdict # "open"
  BY <1>1, RoundOverSettled
<1>3. proofs[x].verdict = "incomplete" => ~Scored(proofs[x].round, x)
  BY DEF OutcomeInv, IncompleteOnDisk
<1>4. ASSUME proofs[x].verdict = "complete"
      PROVE  /\ Scored(proofs[x].round, x) /\ DiskPanel(x) = proofs[x].panel
             /\ ~Passes(proofs[x].panel)
  <2>1. \A p \in Panel : /\ voteRows[<<proofs[x].round, x, p>>] # <<>>
                         /\ voteRows[<<proofs[x].round, x, p>>][1] = proofs[x].panel[p]
    BY <1>4 DEF DiskInv, DecidedFromDisk
  <2>2. DiskPanel(x) = proofs[x].panel
    BY <1>0, <2>1 DEF DiskPanel, ProofRecord
  <2>3. ~Passes(proofs[x].panel)
    BY <1>1, <1>4 DEF OutcomeInv, CompleteIsScored, AcceptInv, AcceptedIsFinalist, Accepted, Texts
  <2>4. Scored(proofs[x].round, x)
    BY <1>4, <2>1 DEF OutcomeInv, CompleteIsScored, Scored
  <2>. QED BY <2>2, <2>3, <2>4
<1>. QED BY <1>0, <1>2, <1>3, <1>4 DEF Evidence, ProofRecord

(* The outcome of a search that accepts nothing.                           *)
LEMMA FinishFollowsDisk ==
  ASSUME TypeInv, AcceptInv, DiskInv, OutcomeInv, FinishFallback \/ FinishEmpty
  PROVE  OutcomeFollowsDisk'
<1>0. /\ RoundOver /\ ~Accepted /\ UNCHANGED <<proofs, voteRows>>
      /\ NoText \notin Texts /\ proofs \in [Texts -> ProofRecord]
  BY DEF FinishFallback, FinishEmpty, Finish, proofVars, diskVars, Texts, TypeInv, TypeOK
<1>1. Found' = Found /\ \A x \in Texts : DiskPanel(x)' = DiskPanel(x)
  BY <1>0 DEF Found, DiskPanel
<1> DEFINE valid == {x \in Found : \A p \in Panel : DiskPanel(x)[p] \in Scores}
<1>2. \A x \in Found : Scored(proofs[x].round, x) <=> \A p \in Panel : DiskPanel(x)[p] \in Scores
  BY DEF Scored, DiskPanel, Scores
<1>3. valid = Evidence
  BY <1>0, <1>2, EvidenceIsDisk DEF Found, Evidence
<1>4. \A x \in Found : ~Passes(DiskPanel(x))
  <2>1. ASSUME NEW x \in Found, Passes(DiskPanel(x)) PROVE x \in Evidence
    BY <1>3, <2>1 DEF Passes, Scores
  <2>. QED BY <1>0, <2>1, EvidenceIsDisk DEF Found
<1>5. CASE FinishEmpty
  <2>1. Evidence = {} /\ outcome'.status = "no_candidates" /\ outcome'.finalists = NoFinalists
    BY <1>5 DEF FinishEmpty, Finish
  <2>2. \A c \in Checkpoints : outcome'.finalists[c] = NoText
    BY <2>1 DEF NoFinalists
  <2>. QED BY <1>1, <1>3, <1>4, <2>1, <2>2 DEF OutcomeFollowsDisk, NoFinalists, Found
<1>6. CASE FinishFallback
  <2>1. PICK best \in Evidence :
          IsTop(<<best>>, 1) /\ Finish("fallback", [NoFinalists EXCEPT ![proofs[best].owner] = best])
    BY <1>6 DEF FinishFallback
  <2>2. best \in Texts /\ proofs[best].owner \in Checkpoints
    BY <2>1 DEF Evidence, OutcomeInv, RecordsFound
  <2>3. /\ outcome'.status = "fallback"
        /\ outcome'.finalists = [NoFinalists EXCEPT ![proofs[best].owner] = best]
    BY <2>1 DEF Finish
  <2>4. /\ outcome'.finalists[proofs[best].owner] = best
        /\ \A c \in Checkpoints : outcome'.finalists[c] \in {best, NoText}
    BY <2>2, <2>3 DEF NoFinalists
  <2>5. outcome'.finalists # NoFinalists
    BY <1>0, <2>2, <2>4 DEF NoFinalists
  <2>6. ASSUME NEW x \in Evidence
        PROVE  Points(DiskPanel(x)) <= Points(DiskPanel(best))
    <3>1. DiskPanel(x) = proofs[x].panel /\ DiskPanel(best) = proofs[best].panel
      BY <1>0, <2>1, EvidenceIsDisk DEF Evidence
    <3>2. x = best \/ RanksBefore(best, x)
      BY <2>1 DEF IsTop
    <3>3. Points(proofs[x].panel) \in Int /\ Points(proofs[best].panel) \in Int
      BY FullPoints, PanelFinite
    <3>. QED BY <3>1, <3>2, <3>3 DEF RanksBefore
  <2>7. valid # {} /\ best \in valid
    BY <1>3, <2>1
  <2>8. \A x \in valid : Points(DiskPanel(x)) <= Points(DiskPanel(best))
    BY <1>3, <2>6
  <2>9. {x \in Found' : \A p \in Panel : DiskPanel(x)'[p] \in Scores} = valid
    BY <1>1 DEF Found
  <2>10. \A x \in Found' : ~Passes(DiskPanel(x)')
    BY <1>1, <1>4 DEF Found
  <2>11. \A x \in valid : Points(DiskPanel(x)') <= Points(DiskPanel(best)')
    BY <1>1, <2>2, <2>8 DEF Found
  <2> HIDE DEF valid
  <2>12. \A b \in {outcome'.finalists[c] : c \in Checkpoints} \ {NoText} : b = best
    BY <2>4
  <2>. QED BY <2>3, <2>5, <2>7, <2>9, <2>10, <2>11, <2>12 DEF OutcomeFollowsDisk, NoFinalists
<1>. QED BY <1>5, <1>6

\* Nothing happens to a search that has finished but a relaunch.
LEMMA FinishedStays ==
  ASSUME [Next]_vars, phase' = "finished"
  PROVE  UNCHANGED vars \/ FinishAccepted \/ FinishFallback \/ FinishEmpty
<1>1. ASSUME NEW t \in Samples, TaskStep(t) PROVE FALSE
  <2>1. phase \in {"spawning", "searching", "draining"}
    BY <1>1
    DEF TaskStep, Spawn, RequestStep, Respond, ParkRequest, FatalRequest, AbandonRequest, WriteStep,
        DeliverCancel, LoseRow, FailWrite, SaveResponse, SaveParked, NoteErrors, SaveVote, Writing, Flushing,
        VoteStep, Judge, ParkVote, FatalVote, CutVote, Answer, Collect, Running
  <2>. QED BY <1>1, <2>1, TaskStepOnward DEF Onward
<1>. QED BY <1>1 DEF Next, Progress, RoundStep, Refine, BatchFails, Drained, Stop, Relaunch, Terminated

(* A search that ends without an accepted proof overlooked none, and falls *)
(* back on the best of what is complete on disk.                           *)
THEOREM Outcomes == Spec => []OutcomeFollowsDisk
<1>1. Init => OutcomeFollowsDisk
  BY DEF Init, OutcomeFollowsDisk
<1>2. ASSUME TypeInv, AcceptInv, DiskInv, OutcomeInv, OutcomeFollowsDisk, [Next]_vars
      PROVE  OutcomeFollowsDisk'
  <2>1. CASE phase' # "finished"
    BY <2>1 DEF OutcomeFollowsDisk
  <2>2. CASE UNCHANGED vars
    BY <1>2, <2>2
    DEF vars, roundVars, proofVars, diskVars, OutcomeFollowsDisk, Found, DiskPanel
  <2>3. CASE FinishAccepted
    <3>1. outcome'.status = "accepted"
      BY <2>3 DEF FinishAccepted, Finish
    <3>. QED BY <3>1 DEF OutcomeFollowsDisk
  <2>. QED BY <1>2, <2>1, <2>2, <2>3, FinishedStays, FinishFollowsDisk
<1>. QED BY <1>1, <1>2, TypeInvariant, AcceptInvariant, DiskInvariant, OutcomeInvariant, PTL DEF Spec

-----------------------------------------------------------------------------
(* The refinement.  What Search calls graded and found.                    *)
GradeOf(r, x) == Points([p \in Panel |-> voteRows[<<r, x, p>>][1]])
FoundBy       == [x \in Texts |-> <<proofs[x].owner, proofs[x].round>>]
ResultOf      == [status |-> outcome.status, finalists |-> outcome.finalists]

(* A grade is that of a panel that is complete on disk, before and after a *)
(* step.                                                                   *)
LEMMA GradedRows ==
  ASSUME NEW g
  PROVE  /\ g \in Graded  <=> \E r \in Rounds, x \in Texts : Scored(r, x) /\ g = <<r, x, GradeOf(r, x)>>
         /\ g \in Graded' <=> \E r \in Rounds, x \in Texts : Scored(r, x)' /\ g = <<r, x, GradeOf(r, x)'>>
<1>1. \A r \in Rounds, x \in Texts : <<r, x>> \in Rounds \X Texts /\ <<r, x>>[1] = r /\ <<r, x>>[2] = x
  OBVIOUS
<1>2. ASSUME NEW r \in Rounds, NEW x \in Texts
      PROVE  Scored(r, x) /\ g = <<r, x, GradeOf(r, x)>> => g \in Graded
  <2> DEFINE row(j, p) == voteRows[<<j[1], j[2], p>>]
             full == {j \in Rounds \X Texts : \A p \in Panel : row(j, p) # <<>> /\ row(j, p)[1] \in Scores}
             at(j) == <<j[1], j[2], Points([p \in Panel |-> row(j, p)[1]])>>
  <2>1. Scored(r, x) => <<r, x>> \in full
    BY <1>1 DEF Scored
  <2>2. at(<<r, x>>) = <<r, x, GradeOf(r, x)>>
    BY <1>1 DEF GradeOf
  <2>3. Graded = {at(i) : i \in full}
    BY DEF Graded
  <2> HIDE DEF full, at
  <2>. QED BY <2>1, <2>2, <2>3
<1>5. ASSUME NEW r \in Rounds, NEW x \in Texts
      PROVE  Scored(r, x)' /\ g = <<r, x, GradeOf(r, x)'>> => g \in Graded'
  <2> DEFINE row(j, p) == voteRows'[<<j[1], j[2], p>>]
             full == {j \in Rounds \X Texts : \A p \in Panel : row(j, p) # <<>> /\ row(j, p)[1] \in Scores}
             at(j) == <<j[1], j[2], Points([p \in Panel |-> row(j, p)[1]])>>
  <2>1. Scored(r, x)' => <<r, x>> \in full
    BY <1>1 DEF Scored
  <2>2. at(<<r, x>>) = <<r, x, GradeOf(r, x)'>>
    BY <1>1 DEF GradeOf
  <2>3. Graded' = {at(i) : i \in full}
    BY DEF Graded
  <2> HIDE DEF full, at
  <2>. QED BY <2>1, <2>2, <2>3
<1>3. g \in Graded  => \E r \in Rounds, x \in Texts : Scored(r, x) /\ g = <<r, x, GradeOf(r, x)>>
  BY DEF Graded, Scored, GradeOf
<1>4. g \in Graded' => \E r \in Rounds, x \in Texts : Scored(r, x)' /\ g = <<r, x, GradeOf(r, x)'>>
  BY DEF Graded, Scored, GradeOf
<1>. QED BY <1>2, <1>3, <1>4, <1>5

LEMMA GradedSame ==
  ASSUME voteRows' = voteRows
  PROVE  Graded' = Graded
PROOF BY DEF Graded

LEMMA FoundSame ==
  ASSUME \A x \in Texts : proofs'[x].owner = proofs[x].owner /\ proofs'[x].round = proofs[x].round
  PROVE  FoundBy' = FoundBy
PROOF BY DEF FoundBy

\* The steps of Search, in these terms.
LEMMA SearchStutters ==
  ASSUME Graded' = Graded, FoundBy' = FoundBy, finalists' = finalists, ResultOf' = ResultOf
  PROVE  [Promise!Next]_(Promise!vars)
PROOF BY DEF Promise!vars, FoundBy, ResultOf

LEMMA SearchFinds ==
  ASSUME NEW x \in Texts, NEW c \in Checkpoints, NEW r \in Rounds, FoundBy[x] = <<0, 0>>,
         finalists[c] = NoText, FoundBy' = [FoundBy EXCEPT ![x] = <<c, r>>],
         Graded' = Graded, finalists' = finalists, ResultOf' = ResultOf
  PROVE  Promise!Next
<1>1. Promise!Find(x, c, r)
  BY DEF Promise!Find, Promise!Unfound, FoundBy, ResultOf
<1>. QED BY <1>1 DEF Promise!Next

LEMMA SearchGrades ==
  ASSUME NEW x \in Texts, NEW n \in 0..2 * PanelSize, NEW r, FoundBy[x] # <<0, 0>>, FoundBy[x][2] = r,
         \A g \in Graded : ~(g[1] = r /\ g[2] = x), Graded' = Graded \cup {<<r, x, n>>}
  PROVE  /\ Promise!Grade(x, n)
         /\ FoundBy' = FoundBy /\ finalists' = finalists /\ ResultOf' = ResultOf => Promise!Next
<1>1. Promise!Grade(x, n)
  BY DEF Promise!Grade, Promise!Unfound, FoundBy
<1>2. FoundBy' = FoundBy /\ finalists' = finalists /\ ResultOf' = ResultOf => Promise!Next
  BY <1>1 DEF Promise!Next, FoundBy, ResultOf
<1>. QED BY <1>1, <1>2

LEMMA SearchWins ==
  ASSUME NEW x \in Texts, NEW c \in Checkpoints, NEW r, FoundBy[x] = <<c, r>>, c # 0,
         finalists[c] = NoText, <<r, x, 2 * PanelSize>> \in Graded',
         Graded' = Graded \/ Promise!Grade(x, 2 * PanelSize),
         finalists' = [finalists EXCEPT ![c] = x], FoundBy' = FoundBy, ResultOf' = ResultOf
  PROVE  Promise!Next
<1>1. FoundBy[x][1] = c /\ FoundBy[x][2] = r /\ FoundBy[x] # <<0, 0>>
  OBVIOUS
<1>2. Promise!Win(x)
  BY <1>1 DEF Promise!Win, Promise!Unfound, FoundBy, ResultOf
<1>. QED BY <1>2 DEF Promise!Next

\* Writing a vote grades its text when its panel is complete then.
LEMMA VoteGrades ==
  ASSUME TypeInv, AcceptInv, DiskInv, NEW t \in Samples, NEW p \in Panel, task[t].pc = "voting",
         p \in task[t].unsaved, WriteVote(t, p), UNCHANGED genRows,
         NEW x \in Texts, x = TextOf(t), NEW r \in Rounds, r = round
  PROVE  /\ \A g \in Graded : ~(g[1] = r /\ g[2] = x)
         /\ Graded' = IF Scored(r, x)' THEN Graded \cup {<<r, x, GradeOf(r, x)'>>} ELSE Graded
<1>1. OnlyPanelOf(x) /\ voteRows[<<r, x, p>>] = <<>>
  BY WriteVoteDisk DEF DiskInv, Holds, PanelHolds, InPanel, PanelPcs, VoteRow
<1>2. ~Scored(r, x)
  BY <1>1 DEF Scored
<1>3. ASSUME NEW s \in Rounds, NEW y \in Texts, s # r \/ y # x
      PROVE  Scored(s, y)' = Scored(s, y) /\ GradeOf(s, y)' = GradeOf(s, y)
  <2>1. \A q \in Panel : voteRows'[<<s, y, q>>] = voteRows[<<s, y, q>>]
    BY <1>1, <1>3 DEF OnlyPanelOf, VoteIds
  <2>2. [q \in Panel |-> voteRows'[<<s, y, q>>][1]] = [q \in Panel |-> voteRows[<<s, y, q>>][1]]
    BY <2>1
  <2>. QED BY <2>1, <2>2 DEF Scored, GradeOf
<1>4. \A g \in Graded : ~(g[1] = r /\ g[2] = x)
  BY <1>2, GradedRows
<1>5. ASSUME NEW g
      PROVE  g \in Graded' <=> g \in Graded \/ (Scored(r, x)' /\ g = <<r, x, GradeOf(r, x)'>>)
  <2>1. ASSUME g \in Graded'
        PROVE  g \in Graded \/ (Scored(r, x)' /\ g = <<r, x, GradeOf(r, x)'>>)
    <3>1. PICK s \in Rounds, y \in Texts : Scored(s, y)' /\ g = <<s, y, GradeOf(s, y)'>>
      BY <2>1, GradedRows
    <3>2. CASE s = r /\ y = x
      BY <3>1, <3>2
    <3>3. CASE s # r \/ y # x
      <4>1. Scored(s, y) /\ g = <<s, y, GradeOf(s, y)>>
        BY <1>3, <3>1, <3>3
      <4>. QED BY <4>1, GradedRows
    <3>. QED BY <3>2, <3>3
  <2>2. ASSUME g \in Graded PROVE g \in Graded'
    <3>1. PICK s \in Rounds, y \in Texts : Scored(s, y) /\ g = <<s, y, GradeOf(s, y)>>
      BY <2>2, GradedRows
    <3>2. s # r \/ y # x
      BY <1>2, <3>1
    <3>3. Scored(s, y)' /\ g = <<s, y, GradeOf(s, y)'>>
      BY <1>3, <3>1, <3>2
    <3>. QED BY <3>3, GradedRows
  <2>3. Scored(r, x)' /\ g = <<r, x, GradeOf(r, x)'>> => g \in Graded'
    BY GradedRows
  <2>. QED BY <2>1, <2>2, <2>3
<1>6. CASE Scored(r, x)'
  BY <1>4, <1>5, <1>6
<1>7. CASE ~Scored(r, x)'
  BY <1>4, <1>5, <1>7
<1>. QED BY <1>6, <1>7

\* A text that a panel judges has been found, in this round.
LEMMA PanelFound ==
  ASSUME TypeInv, AcceptInv, DiskInv, NEW t \in Samples, InPanel(t)
  PROVE  /\ TextOf(t) \in Texts /\ round \in Rounds /\ Ckpt(t) \in Checkpoints /\ Ckpt(t) # 0
         /\ FoundBy[TextOf(t)] = <<Ckpt(t), round>>
BY ReplyText, CkptType
DEF TypeInv, TypeOK, TaskInv, PipelineOK, InPanel, TextOf, AcceptInv, PanelsOpen, DiskInv, Holds,
    PanelHolds, FoundBy, Checkpoints

LEMMA ConcludeFound ==
  ASSUME TypeInv, NEW t \in Samples, TextOf(t) \in Texts, NEW votes, NEW cut, Conclude(t, votes, cut)
  PROVE  /\ FoundBy' = FoundBy
         /\ finalists' = finalists \/ Accept(t, votes, cut)
<1> DEFINE x == TextOf(t)
<1>1. proofs \in [Texts -> ProofRecord] /\ proofs[x] \in ProofRecord
  BY DEF TypeInv, TypeOK
<1>2. CASE Raise(t, votes) \/ Interrupted(t, votes, cut)
  BY <1>2 DEF Raise, Interrupted, proofVars, FoundBy
<1>3. ASSUME NEW pr, proofs' = [proofs EXCEPT ![x] = pr], pr.owner = proofs[x].owner,
             pr.round = proofs[x].round
      PROVE  FoundBy' = FoundBy
  BY <1>1, <1>3, FoundSame
<1>4. CASE Reject(t, votes, cut)
  <2> DEFINE pr == [proofs[x] EXCEPT !.verdict = Verdict(votes), !.panel = votes]
  <2>1. proofs' = [proofs EXCEPT ![x] = pr] /\ finalists' = finalists
    BY <1>4 DEF Reject
  <2>2. pr.owner = proofs[x].owner /\ pr.round = proofs[x].round
    BY <1>1 DEF ProofRecord
  <2> HIDE DEF pr
  <2>. QED BY <1>3, <2>1, <2>2
<1>5. CASE Accept(t, votes, cut)
  <2> DEFINE pr == [proofs[x] EXCEPT !.verdict = "complete", !.panel = votes, !.accepted = TRUE]
  <2>1. proofs' = [proofs EXCEPT ![x] = pr]
    BY <1>5 DEF Accept
  <2>2. pr.owner = proofs[x].owner /\ pr.round = proofs[x].round
    BY <1>1 DEF ProofRecord
  <2> HIDE DEF pr
  <2>. QED BY <1>3, <1>5, <2>1, <2>2
<1>. QED BY <1>2, <1>4, <1>5 DEF Conclude

\* A panel that accepts wins its checkpoint.
LEMMA AcceptWins ==
  ASSUME TypeInv, AcceptInv, DiskInv, NEW t \in Samples, InPanel(t),
         NEW x \in Texts, x = TextOf(t), NEW votes, NEW cut, Accept(t, votes, cut),
         ~cut => ~CutOff(task[t]), VotesOnDisk(x, votes), \A p \in Panel : votes[p] = "one" => votes[p] \in Judgments,
         Graded' = Graded \/ Promise!Grade(x, 2 * PanelSize), FoundBy' = FoundBy, UNCHANGED outcome
  PROVE  Promise!Next
<1>1. /\ FoundBy[x] = <<Ckpt(t), round>> /\ round \in Rounds /\ Ckpt(t) \in Checkpoints /\ Ckpt(t) # 0
  BY PanelFound
<1>2. Ckpt(t) \notin stopped /\ finalists[Ckpt(t)] = NoText /\ Passes(votes)
  BY <1>1 DEF Accept, Judged, AcceptInv, StoppedCutsOff
<1>3. finalists' = [finalists EXCEPT ![Ckpt(t)] = x] /\ ResultOf' = ResultOf
  BY <1>2 DEF Accept, ResultOf
<1>4. ASSUME NEW r \in Rounds, r = round
      PROVE  <<r, x, 2 * PanelSize>> \in Graded'
  <2>1. \A p \in Panel : voteRows'[<<r, x, p>>] # <<>> /\ voteRows'[<<r, x, p>>][1] = "one"
    BY <1>2, <1>4 DEF VotesOnDisk, Passes
  <2>2. Scored(r, x)'
    BY <2>1 DEF Scored, Scores
  <2>3. Passes([p \in Panel |-> voteRows'[<<r, x, p>>][1]])
    BY <2>1 DEF Passes
  <2>4. GradeOf(r, x)' = 2 * PanelSize
    BY <2>3, FullPoints DEF GradeOf
  <2>. QED BY <2>2, <2>4, GradedRows
<1>. QED BY <1>1, <1>2, <1>3, <1>4, SearchWins

\* A concluded panel that writes no more votes wins, or changes nothing.
LEMMA ConcludeSearch ==
  ASSUME TypeInv, AcceptInv, DiskInv, NEW t \in Samples, InPanel(t),
         NEW votes \in [Panel -> VoteStates], NEW cut, Conclude(t, votes, cut),
         ~cut => ~CutOff(task[t]), VotesOnDisk(TextOf(t), votes), UNCHANGED <<voteRows, outcome>>
  PROVE  [Promise!Next]_(Promise!vars)
<1>1. TextOf(t) \in Texts /\ Graded' = Graded /\ ResultOf' = ResultOf
  BY PanelFound, GradedSame DEF ResultOf
<1>2. FoundBy' = FoundBy /\ (finalists' = finalists \/ Accept(t, votes, cut))
  BY <1>1, ConcludeFound
<1>3. \A p \in Panel : votes[p] = "one" => votes[p] \in Judgments
  BY DEF VoteStates
<1>4. CASE finalists' = finalists
  BY <1>1, <1>2, <1>4, SearchStutters
<1>5. CASE Accept(t, votes, cut)
  BY <1>1, <1>2, <1>3, <1>5, AcceptWins
<1>. QED BY <1>2, <1>4, <1>5

\* A recorded response finds a text, or tells nothing new.
LEMMA SettleSearch ==
  ASSUME TypeInv, AcceptInv, OutcomeInv, NEW t \in Samples, NEW r \in Replies, Settle(t, r),
         UNCHANGED <<voteRows, outcome>>
  PROVE  [Promise!Next]_(Promise!vars)
<1> DEFINE x == ProofOf[r]
<1>0. /\ Graded' = Graded /\ ResultOf' = ResultOf /\ finalists' = finalists
      /\ proofs \in [Texts -> ProofRecord] /\ round \in Rounds /\ Ckpt(t) \in Checkpoints
  BY GradedSame, CkptType DEF ResultOf, Settle, TypeInv, TypeOK
<1>1. CASE Discard(t, r)
  <2>1. FoundBy' = FoundBy
    BY <1>1 DEF Discard, FoundBy
  <2>. QED BY <1>0, <2>1, SearchStutters
<1>2. CASE Merge(t, r)
  <2> DEFINE pr == [proofs[x] EXCEPT !.origins = proofs[x].origins \cup {GenId(t)},
                                     !.deps = proofs[x].deps \cup Deps(t)]
  <2>1. x \in Texts /\ proofs[x] \in ProofRecord
    BY <1>0, <1>2, ReplyText DEF Merge, Discarded
  <2>2. pr.round = proofs[x].round /\ pr.owner = proofs[x].owner
    BY <2>1 DEF ProofRecord
  <2>3. proofs' = [proofs EXCEPT ![x] = pr]
    BY <1>2 DEF Merge
  <2> HIDE DEF pr
  <2>4. FoundBy' = FoundBy
    BY <1>0, <2>1, <2>2, <2>3, FoundSame
  <2>. QED BY <1>0, <2>4, SearchStutters
<1>3. CASE StartPanel(t, r)
  <2> DEFINE pr == [Absent EXCEPT !.verdict = "open", !.owner = Ckpt(t),
                      !.id = nextId, !.round = round, !.self = SelfEval[r],
                      !.origins = {GenId(t)}, !.deps = Deps(t)]
  <2>1. x \in Texts /\ proofs[x].verdict = "absent" /\ Ckpt(t) \notin stopped
    BY <1>3, ReplyText DEF StartPanel, Discarded
  <2>2. proofs' = [proofs EXCEPT ![x] = pr] /\ pr.round = round /\ pr.owner = Ckpt(t)
    BY <1>3 DEF StartPanel, Absent
  <2> HIDE DEF pr
  <2>3. FoundBy[x] = <<0, 0>> /\ finalists[Ckpt(t)] = NoText
    BY <1>0, <2>1 DEF OutcomeInv, RecordsFound, FoundBy, AcceptInv, StoppedCutsOff
  <2>4. FoundBy' = [FoundBy EXCEPT ![x] = <<Ckpt(t), round>>]
    BY <1>0, <2>1, <2>2 DEF FoundBy
  <2>. QED BY <1>0, <2>1, <2>3, <2>4, SearchFinds
<1>. QED BY <1>1, <1>2, <1>3 DEF Settle

LEMMA QuietSearch ==
  ASSUME UNCHANGED <<proofs, finalists, voteRows, outcome>>
  PROVE  [Promise!Next]_(Promise!vars)
<1>1. Graded' = Graded /\ FoundBy' = FoundBy /\ ResultOf' = ResultOf
  BY GradedSame DEF FoundBy, ResultOf
<1>. QED BY <1>1, SearchStutters

\* The last vote grades its text; if that accepts it, its checkpoint wins.
LEMMA SaveVoteSearch ==
  ASSUME TypeInv, AcceptInv, DiskInv, NEW t \in Samples, NEW p \in Panel, SaveVote(t, p)
  PROVE  [Promise!Next]_(Promise!vars)
<1>0. /\ task[t] \in Pipeline /\ task[t].pc = "voting" /\ InPanel(t) /\ p \in task[t].unsaved
      /\ WriteVote(t, p) /\ UNCHANGED <<round, genRows, outcome>>
  BY DEF SaveVote, InPanel, PanelPcs, roundVars, TypeInv, TypeOK
<1>1. PICK x \in Texts : x = TextOf(t)
  BY <1>0, PanelFound
<1>2. PICK r \in Rounds : r = round
  BY <1>0, PanelFound
<1>3. FoundBy[x] = <<Ckpt(t), r>> /\ FoundBy[x] # <<0, 0>> /\ FoundBy[x][2] = r /\ ResultOf' = ResultOf
  BY <1>0, <1>1, <1>2, PanelFound DEF ResultOf
<1>4. /\ \A g \in Graded : ~(g[1] = r /\ g[2] = x)
      /\ Graded' = IF Scored(r, x)' THEN Graded \cup {<<r, x, GradeOf(r, x)'>>} ELSE Graded
  BY <1>0, <1>1, <1>2, VoteGrades
<1>5. GradeOf(r, x)' \in 0..2 * PanelSize
  BY FullPoints DEF GradeOf
<1>6. CASE FoundBy' = FoundBy /\ finalists' = finalists
  <2>1. CASE Scored(r, x)'
    BY <1>3, <1>4, <1>5, <1>6, <2>1, SearchGrades
  <2>2. CASE ~Scored(r, x)'
    BY <1>3, <1>4, <1>6, <2>2, SearchStutters
  <2>. QED BY <2>1, <2>2
<1>7. CASE UNCHANGED proofVars
  BY <1>6, <1>7 DEF proofVars, FoundBy
<1>8. CASE Writing(t) /\ task[t].unsaved = {p} /\ Conclude(t, task[t].votes, task[t].cut)
  <2> DEFINE votes == task[t].votes
             cut   == task[t].cut
  <2>1. VotesOnDisk(x, votes)
    <3> SUFFICES ASSUME NEW q \in Panel, votes[q] \in Judgments
                 PROVE  voteRows'[<<round, x, q>>] # <<>> /\ voteRows'[<<round, x, q>>][1] = votes[q]
      BY DEF VotesOnDisk
    <3>1. /\ voteRows'[<<round, x, p>>] # <<>> /\ voteRows'[<<round, x, p>>][1] = votes[p]
          /\ q # p => voteRows'[<<round, x, q>>] = voteRows[<<round, x, q>>]
      BY <1>0, <1>1, WriteVoteDisk
    <3>2. q # p => voteRows[<<round, x, q>>] # <<>> /\ voteRows[<<round, x, q>>][1] = votes[q]
      BY <1>0, <1>1, <1>8, SavedVotes
    <3>. QED BY <3>1, <3>2
  <2>2. ~cut => ~CutOff(task[t])
    BY <1>0, <1>8 DEF Writing, CutOff
  <2>3. FoundBy' = FoundBy /\ (finalists' = finalists \/ Accept(t, votes, cut))
    BY <1>0, <1>1, <1>8, ConcludeFound
  <2>4. \A q \in Panel : votes[q] = "one" => votes[q] \in Judgments
    BY <1>0 DEF Pipeline, VoteStates
  <2>5. ASSUME Accept(t, votes, cut)
        PROVE  Graded' = Graded \/ Promise!Grade(x, 2 * PanelSize)
    <3>1. \A q \in Panel : voteRows'[<<round, x, q>>][1] = "one"
      BY <2>1, <2>4, <2>5 DEF VotesOnDisk, Accept, Passes
    <3>2. Passes([q \in Panel |-> voteRows'[<<r, x, q>>][1]])
      BY <1>2, <3>1 DEF Passes
    <3>3. GradeOf(r, x)' = 2 * PanelSize
      BY <3>2, FullPoints DEF GradeOf
    <3>4. CASE Scored(r, x)'
      <4>1. 2 * PanelSize \in 0..2 * PanelSize
        BY PanelFinite
      <4>. QED BY <1>3, <1>4, <3>3, <3>4, <4>1, SearchGrades
    <3>5. CASE ~Scored(r, x)'
      BY <1>4, <3>5
    <3>. QED BY <3>4, <3>5
  <2>6. CASE Accept(t, votes, cut)
    BY <1>0, <1>1, <2>1, <2>2, <2>3, <2>4, <2>5, <2>6, AcceptWins
  <2>. QED BY <1>6, <2>3, <2>6
<1>. QED BY <1>7, <1>8 DEF SaveVote

LEMMA TaskStepSearch ==
  ASSUME TypeInv, AcceptInv, DiskInv, OutcomeInv, NEW t \in Samples, TaskStep(t)
  PROVE  [Promise!Next]_(Promise!vars)
<1>0. outcome' = outcome
  BY TaskStepOnward DEF Onward
<1>1. CASE Spawn(t)
  <2>1. voteRows' = voteRows
    BY <1>1 DEF Spawn, diskVars
  <2>2. CASE GenId(t) \in ledgerGens
    <3>1. genRows[GenId(t)] \in Seq(GenRow) /\ genRows[GenId(t)] # <<>>
      BY <2>2, GenIdType DEF TypeInv, TypeOK, LedgerInv
    <3>2. genRows[GenId(t)][1].reply \in Replies
      <4>1. genRows[GenId(t)][1] \in GenRow
        BY <3>1
      <4>. QED BY <4>1 DEF GenRow
    <3>. QED BY <1>0, <1>1, <2>1, <2>2, <3>2, SettleSearch DEF Spawn
  <2>3. CASE GenId(t) \notin ledgerGens
    BY <1>0, <1>1, <2>1, <2>3, QuietSearch DEF Spawn, proofVars
  <2>. QED BY <2>2, <2>3
<1>2. CASE RequestStep(t) \/ VoteStep(t)
  <2>1. UNCHANGED <<proofVars, diskVars>>
    BY <1>2 DEF RequestStep, Respond, ParkRequest, FatalRequest, AbandonRequest, VoteStep, Judge,
                ParkVote, FatalVote, CutVote, Answer, TaskOnly
  <2>. QED BY <1>0, <2>1, QuietSearch DEF proofVars, diskVars
<1>3. CASE DeliverCancel(t) \/ LoseRow(t) \/ FailWrite(t) \/ SaveParked(t)
  <2>1. UNCHANGED <<proofVars, diskVars>>
    BY <1>3 DEF DeliverCancel, LoseRow, FailWrite, SaveParked, TaskOnly
  <2>. QED BY <1>0, <2>1, QuietSearch DEF proofVars, diskVars
<1>4. CASE SaveResponse(t)
  <2>1. voteRows' = voteRows /\ task[t].reply \in Replies
    BY <1>4 DEF SaveResponse, TypeInv, TaskInv, PipelineOK
  <2>. QED BY <1>0, <1>4, <2>1, QuietSearch, SettleSearch DEF SaveResponse, proofVars
<1>5. CASE Collect(t)
  <2> DEFINE cut   == task[t].cancel
             raw   == task[t].votes
             votes == [p \in Panel |-> IF cut /\ raw[p] \in {"parked", "fatal"}
                                       THEN "cut" ELSE raw[p]]
  <2>1. /\ task[t] \in Pipeline /\ task[t].pc = "verifying" /\ InPanel(t) /\ voteRows' = voteRows
    BY <1>5 DEF Collect, InPanel, PanelPcs, diskVars, TypeInv, TypeOK
  <2>2. /\ votes \in [Panel -> VoteStates]
        /\ \A p \in Panel : votes[p] \in Judgments => votes[p] = raw[p]
    BY <2>1, JudgmentsAssumption DEF Pipeline, VoteStates, Scores
  <2>3. CASE UNCHANGED proofVars
    BY <1>0, <2>1, <2>3, QuietSearch DEF proofVars
  <2>4. CASE Unsaved(t) = {} /\ Conclude(t, votes, cut)
    <3>1. VotesOnDisk(TextOf(t), votes)
      BY <2>1, <2>2, <2>4, CollectedVotes DEF VotesOnDisk
    <3>2. ~cut => ~CutOff(task[t])
      BY <2>1 DEF AcceptInv, PanelsOpen, CutOff
    <3>. QED BY <1>0, <2>1, <2>2, <2>4, <3>1, <3>2, ConcludeSearch
  <2>. QED BY <1>5, <2>3, <2>4 DEF Collect
<1>6. CASE NoteErrors(t)
  <2>1. task[t] \in Pipeline /\ task[t].pc = "noting" /\ InPanel(t) /\ voteRows' = voteRows
    BY <1>6 DEF NoteErrors, InPanel, PanelPcs, diskVars, TypeInv, TypeOK
  <2>2. CASE UNCHANGED proofVars
    BY <1>0, <2>1, <2>2, QuietSearch DEF proofVars
  <2>3. CASE Writing(t) /\ task[t].unsaved = {} /\ Conclude(t, task[t].votes, task[t].cut)
    <3>1. VotesOnDisk(TextOf(t), task[t].votes)
      BY <2>1, <2>3, SavedVotes DEF VotesOnDisk
    <3>2. ~task[t].cut => ~CutOff(task[t])
      BY <2>3 DEF Writing, CutOff
    <3>. QED BY <1>0, <2>1, <2>3, <3>1, <3>2, ConcludeSearch DEF Pipeline
  <2>. QED BY <1>6, <2>2, <2>3 DEF NoteErrors
<1>. QED BY <1>1, <1>2, <1>3, <1>4, <1>5, <1>6, SaveVoteSearch DEF TaskStep, WriteStep

(* At the end of a round without an accepted proof, the candidates are the *)
(* evidence.                                                               *)
LEMMA CandidatesAreEvidence ==
  ASSUME TypeInv, AcceptInv, DiskInv, OutcomeInv, RoundOver, ~Accepted
  PROVE  \A z : z \in Promise!Candidates <=> \E x \in Evidence : z = <<x, Points(proofs[x].panel)>>
<1>1. \A x \in Texts : /\ FoundBy[x] = <<proofs[x].owner, proofs[x].round>>
                       /\ FoundBy[x][2] = proofs[x].round
  BY DEF FoundBy
<1>2. \A z : z \in Promise!Candidates <=>
        \E g \in Graded : g[1] = FoundBy[g[2]][2] /\ z = <<g[2], g[3]>>
  BY DEF Promise!Candidates, FoundBy
<1>3. ASSUME NEW x \in Texts, Scored(proofs[x].round, x)
      PROVE  GradeOf(proofs[x].round, x) = Points(DiskPanel(x))
  <2>1. DiskPanel(x) = [p \in Panel |-> voteRows[<<proofs[x].round, x, p>>][1]]
    BY <1>3 DEF DiskPanel, Scored
  <2>. QED BY <2>1 DEF GradeOf
<1>4. ASSUME NEW z, z \in Promise!Candidates
      PROVE  \E x \in Evidence : z = <<x, Points(proofs[x].panel)>>
  <2>1. PICK g \in Graded : g[1] = FoundBy[g[2]][2] /\ z = <<g[2], g[3]>>
    BY <1>2, <1>4
  <2>2. PICK r \in Rounds, x \in Texts : Scored(r, x) /\ g = <<r, x, GradeOf(r, x)>>
    BY <2>1, GradedRows
  <2>3. r = proofs[x].round /\ z = <<x, GradeOf(r, x)>>
    BY <1>1, <2>1, <2>2
  <2>4. proofs[x].verdict # "absent"
    BY <2>3 DEF OutcomeInv, RecordsFound, Rounds
  <2>5. x \in Evidence /\ DiskPanel(x) = proofs[x].panel
    BY <2>2, <2>3, <2>4, EvidenceIsDisk
  <2>. QED BY <1>3, <2>2, <2>3, <2>5
<1>5. ASSUME NEW x \in Evidence
      PROVE  <<x, Points(proofs[x].panel)>> \in Promise!Candidates
  <2>1. x \in Texts /\ proofs[x].verdict # "absent"
    BY DEF Evidence
  <2>2. proofs[x].round \in Rounds
    BY <2>1 DEF DiskInv, FoundInRound
  <2>3. Scored(proofs[x].round, x) /\ DiskPanel(x) = proofs[x].panel
    BY <2>1, EvidenceIsDisk
  <2>4. GradeOf(proofs[x].round, x) = Points(proofs[x].panel)
    BY <1>3, <2>1, <2>3
  <2> DEFINE g == <<proofs[x].round, x, Points(proofs[x].panel)>>
  <2>5. g \in Graded
    BY <2>1, <2>2, <2>3, <2>4, GradedRows
  <2>6. g[1] = FoundBy[g[2]][2] /\ <<x, Points(proofs[x].panel)>> = <<g[2], g[3]>>
    BY <1>1, <2>1
  <2>. QED BY <1>2, <2>5, <2>6
<1>. QED BY <1>4, <1>5

\* An end of the search is an end of Search.
LEMMA FinishSearch ==
  ASSUME TypeInv, AcceptInv, DiskInv, OutcomeInv, FinishAccepted \/ FinishFallback \/ FinishEmpty
  PROVE  Promise!Next
<1>0. /\ RoundOver /\ UNCHANGED <<voteRows, proofs, finalists>> /\ outcome = NoOutcome
      /\ NoText \notin Texts /\ finalists \in [Checkpoints -> Texts \cup {NoText}]
  BY DEF FinishAccepted, FinishFallback, FinishEmpty, Finish, RoundOver, OutcomeInv, NoneYet,
         proofVars, diskVars, Texts, TypeInv, TypeOK
<1>1. Graded' = Graded /\ FoundBy' = FoundBy
  BY <1>0, GradedSame DEF FoundBy
<1>2. ASSUME NEW status, NEW list, Finish(status, list)
      PROVE  Promise!Ends(status, list)
  <2>1. ResultOf = [status |-> "none", finalists |-> [c \in Checkpoints |-> NoText]]
    BY <1>0 DEF ResultOf, NoOutcome, NoFinalists
  <2>2. ResultOf' = [status |-> status, finalists |-> list]
    BY <1>2 DEF ResultOf, Finish
  <2>. QED BY <1>0, <1>1, <2>1, <2>2
           DEF Promise!Ends, Promise!Pending, Promise!Nobody, FoundBy, ResultOf
<1>3. Promise!Nobody = NoFinalists /\ (finalists = NoFinalists <=> ~Accepted)
  BY <1>0 DEF Promise!Nobody, NoFinalists, Accepted
<1>4. CASE FinishAccepted
  <2>1. Promise!EndAccepted
    BY <1>2, <1>3, <1>4 DEF FinishAccepted, Promise!EndAccepted
  <2>. QED BY <2>1 DEF Promise!Next
<1>5. CASE FinishEmpty
  <2>1. ~Accepted /\ Evidence = {} /\ Finish("no_candidates", NoFinalists)
    BY <1>5 DEF FinishEmpty
  <2>2. Promise!Candidates = {}
    BY <1>0, <2>1, CandidatesAreEvidence
  <2>3. Promise!EndEmpty
    BY <1>2, <1>3, <2>1, <2>2 DEF Promise!EndEmpty
  <2>. QED BY <2>3 DEF Promise!Next
<1>6. CASE FinishFallback
  <2>1. PICK b \in Evidence :
          IsTop(<<b>>, 1) /\ Finish("fallback", [NoFinalists EXCEPT ![proofs[b].owner] = b])
    BY <1>6 DEF FinishFallback
  <2>2. ~Accepted
    BY <1>6 DEF FinishFallback
  <2> DEFINE best == <<b, Points(proofs[b].panel)>>
  <2>3. best \in Promise!Candidates /\ best[1] = b /\ best[2] = Points(proofs[b].panel)
    BY <1>0, <2>2, CandidatesAreEvidence
  <2>4. ASSUME NEW other \in Promise!Candidates
        PROVE  other[2] <= best[2] /\ other[2] # 2 * PanelSize
    <3>1. PICK x \in Evidence : other = <<x, Points(proofs[x].panel)>>
      BY <1>0, <2>2, CandidatesAreEvidence
    <3>2. x = b \/ RanksBefore(b, x)
      BY <2>1 DEF IsTop
    <3>3. Points(proofs[x].panel) \in Int /\ Points(proofs[b].panel) \in Int
      BY FullPoints, PanelFinite
    <3>4. Points(proofs[x].panel) <= Points(proofs[b].panel)
      BY <3>2, <3>3 DEF RanksBefore
    <3>5. ~Passes(proofs[x].panel)
      BY <1>0, <2>2, EvidenceIsDisk DEF Evidence
    <3>. QED BY <2>3, <3>1, <3>4, <3>5, FullPoints
  <2>5. FoundBy[b][1] = proofs[b].owner
    BY DEF FoundBy, Evidence
  <2>6. Promise!Ends("fallback", [Promise!Nobody EXCEPT ![FoundBy[best[1]][1]] = best[1]])
    BY <1>2, <1>3, <2>1, <2>3, <2>5
  <2> HIDE DEF best
  <2>7. Promise!EndFallback
    BY <1>3, <2>2, <2>3, <2>4, <2>6 DEF Promise!EndFallback, FoundBy
  <2>. QED BY <2>7 DEF Promise!Next
<1>. QED BY <1>4, <1>5, <1>6

LEMMA LaunchSearch ==
  /\ Init => Promise!Init
  /\ Relaunch => Promise!Next
<1>0. /\ \A x \in Texts : NoProofs[x].owner = 0 /\ NoProofs[x].round = 0
      /\ Promise!Nobody = NoFinalists
  BY DEF NoProofs, Absent, Promise!Nobody, NoFinalists
<1>1. ASSUME Init PROVE Promise!Init
  <2>1. Graded = {}
    <3>1. ASSUME NEW r \in Rounds, NEW x \in Texts PROVE ~Scored(r, x)
      <4>1. 1 \in Panel
        BY PanelFinite DEF Panel
      <4>2. voteRows[<<r, x, 1>>] = <<>>
        BY <1>1, <4>1 DEF Init, VoteIds
      <4>. QED BY <4>1, <4>2 DEF Scored
    <3>. QED BY <3>1, GradedRows
  <2>2. FoundBy = [x \in Texts |-> <<0, 0>>]
    BY <1>0, <1>1 DEF Init, FoundBy
  <2>3. ResultOf = [status |-> "none", finalists |-> NoFinalists] /\ finalists = NoFinalists
    BY <1>1 DEF Init, ResultOf, NoOutcome
  <2>. QED BY <1>0, <2>1, <2>2, <2>3
           DEF Promise!Init, Promise!Unfound, Promise!Pending, FoundBy, ResultOf
<1>2. ASSUME Relaunch PROVE Promise!Next
  <2>1. Graded' = Graded
    BY <1>2, GradedSame DEF Relaunch, diskVars
  <2>2. FoundBy' = [x \in Texts |-> <<0, 0>>]
    BY <1>0, <1>2 DEF Relaunch, FoundBy
  <2>3. ResultOf' = [status |-> "none", finalists |-> NoFinalists] /\ finalists' = NoFinalists
    BY <1>2 DEF Relaunch, ResultOf, NoOutcome, NoFinalists
  <2>4. Promise!Restart
    BY <1>0, <2>1, <2>2, <2>3
    DEF Promise!Restart, Promise!Unfound, Promise!Pending, FoundBy, ResultOf
  <2>. QED BY <2>4 DEF Promise!Next
<1>. QED BY <1>1, <1>2

(* The search implements what Search promises: grades are only added, a    *)
(* checkpoint wins once and with full marks that can be read back, finds   *)
(* nothing afterwards, and the outcome is a function of the grades.        *)
THEOREM SearchRefined == Spec => ImplementsSearch
<1>1. Init => Promise!Init
  BY LaunchSearch
<1>2. ASSUME TypeInv, AcceptInv, DiskInv, OutcomeInv, [Next]_vars
      PROVE  [Promise!Next]_(Promise!vars)
  <2>1. ASSUME NEW t \in Samples, TaskStep(t) PROVE [Promise!Next]_(Promise!vars)
    BY <1>2, <2>1, TaskStepSearch
  <2>2. CASE Refine \/ BatchFails \/ Drained \/ Stop \/ Terminated \/ UNCHANGED vars
    <3>1. UNCHANGED <<proofs, finalists, voteRows, outcome>>
      BY <2>2 DEF Refine, BatchFails, Drained, Stop, Terminated, vars, roundVars, proofVars, diskVars
    <3>. QED BY <3>1, QuietSearch
  <2>. QED BY <1>2, <2>1, <2>2, FinishSearch, LaunchSearch DEF Next, Progress, RoundStep
<1>. QED BY <1>1, <1>2, TypeInvariant, AcceptInvariant, DiskInvariant, OutcomeInvariant, PTL
         DEF Spec, ImplementsSearch, Promise!Spec
==============================================================================
