# The proof-search recipe and its sandbox, in TLA+

The repository is a skill and recipe collection around NeMo-Skills. Most of it is data, prompts, configuration and
documentation. Three programs in it keep state, run concurrently and survive failures, and this project is about them:

- **the nemotron-imo-tts recipe** (`src/recipes/nemotron-imo-tts/`): an asyncio program that searches for proofs of
  competition problems with generators, verifier panels and judges behind HTTP endpoints, persists every response as a
  JSON line, and can be stopped, killed and launched again in the same run directory;
- **the sandbox startup script** (`src/dockerfiles/sandbox/start-with-nginx.sh`): bash on every node of a Slurm job,
  which spawns uWSGI workers, resolves port conflicts, exchanges ports over a shared directory, starts nginx and then
  restarts what dies;
- **the Ray cluster job script** (`src/nemo_skills/pipeline/nemo_rl/ray_templates/`): the template of a Slurm batch
  script that starts a Ray head, a sandbox and workers as background steps, waits until the cluster is whole, runs the
  driver, and brings everything down over marker files on a shared directory.

Below, `N/` stands for `src/recipes/nemotron-imo-tts/nemotron_imo_tts/`.

## 1. Inventory

| part | source | state it keeps | operations | hard because |
|---|---|---|---|---|
| search orchestrator | `N/orchestrator.py` | tasks of a round, `ProofRecord`s, finalists, stopped checkpoints; rows in `rounds/R*/` | spawn a round, request a proof, merge duplicates, run a verifier panel, accept, refine, finish, stop | pipelines interleave at every await; an acceptance cancels siblings that may have an answer or a half-written panel; only rows on disk survive |
| resume ledger | `N/resume.py` | identities found on disk at launch | scan, supersede a truncated row, look up | a row looked up under the wrong identity is lost or doubled; launches of two versions wrote the rows; lines may be torn |
| request layer | `N/client.py` | lanes (semaphores), the call on the wire, the retry window | take a lane, call, classify, back off, park, fail, abort | a call and its cancellation may end in the same turn; a lane must stay held until the call is over |
| scoring | `N/scoring.py` | none | verdict of a panel, ranking of proofs and finalists, retained critiques | ranking decides parents, fallback and selection; critiques are taken in batches that may be cut short |
| final selection | `N/selection.py` | judging slots, `judge.jsonl` | replay, judge, resample, select | an attempt must be sampled once across launches |
| driver | `N/driver.py` | problem tasks, stop event, `results.jsonl`, `submissions.jsonl` | admit, write, fail, STOP and signals, drain, exit | failure, fatal error, stop and completion at one wake-up; a crash between two appends |
| files and parsers | `N/text.py` | files | append a line, load, write in place or atomically | a line may be cut anywhere |
| preflight | `N/manifest.py`, `run.py` | frozen input, prompt manifest, run manifest | freeze, pin, verify, refuse | a crash between the files; edits between and during launches |
| configuration | `N/config.py` | none | validate, derive counts, split the settings into pinned and free ones | a setting that changes what is computed must be pinned; ids make up identities |
| prompting | `N/prompting.py` | none | format prompts | |
| sandbox startup | `src/dockerfiles/sandbox/start-with-nginx.sh` | ports, worker processes, port files, nginx, traps | spawn, resolve conflicts, health checks, report, collect, monitor, clean up | processes die at any time; the shared directory outlives a requeue; bash runs traps inside traps |
| Ray cluster job | `src/nemo_skills/pipeline/nemo_rl/ray_templates/` | marker files, the info file, background `srun`s, Ray's list of nodes | start head, sandbox and workers, wait, run, clean up | any step may end at any time, retry or be forgotten late; a requeued job finds the files of its last run |

How they interact: `run.py` runs the preflight and then `driver.run_driver`; the driver runs one task per unfinished
problem, which awaits the orchestrator's `run()` and then the selection's `judge_finalists`; both await
`layer.request(...)` of the one request layer the process has, and append rows through sinks; `resume.py` reads those
rows at the next launch. A cancellation goes the other way: from a signal or STOP through the driver to the problem's
task, from there to every pipeline or slot, and from those to the requests. The Ray job starts a sandbox beside its head
and waits for nothing of it; neither shares state with the recipe.

What makes each correct: the *search* grades no proof twice and decides what its rows decide, also after a relaunch; the
*ledger* and *scoring* lead every launch to the same prompts; the *request layer* keeps lanes, retries and cancellation
to its contract; the *driver* never loses or doubles a problem and tells the truth with its exit code; the *selection*
samples every attempt once and takes the best; the *preflight* and the *configuration* let one directory hold one
experiment; the *sandbox* balances over the workers it started; the *Ray job* starts the driver on a whole cluster, and
ends when one of its parts has.

`PROJECT.json` has the full list of components, the ones without a model included, and the hazards, each with its line.

## 2. Modules

| module | models | state and actions |
|---|---|---|
| `Search` | what a problem's search promises | the samples found, those graded, a winner for each checkpoint, the result; abstract actions find, grade, win, end and restart |
| `Orchestrator` | one problem's search and its relaunches | `task` is the pipeline of each sample (where it is, response, votes, a cancellation not delivered yet); `genRows`/`voteRows` are the disk; `ledgerGens`/`ledgerVotes` what the launch found there. One action per stretch between two awaits. `Promise == INSTANCE Search`; `ImplementsSearch` is the refinement |
| `RequestContract` | what `layer.request` promises its callers | an outcome per request, and the set of cancelled callers |
| `RequestLayer` | `client.py` | `pc`, the queue of each lane, the call of each request. `Contract == INSTANCE RequestContract`; `ImplementsContract` is the refinement |
| `Journal` | the JSON-lines files of `text.py`, as values | operators: append, cut append, load |
| `Ledger` | the rows of one problem over launches, and `resume.py`'s scan of them | files, `rowOf` (by identity), `listed` (by file and by slot); a branch of `_add` is an action |
| `Critiques` | `retain_critiques` | queues of scores per verifier, batches; an action is one verifier's turn |
| `Records` | one proof's panel over launches: EXTENDS `Ledger` and `Critiques` | votes looked up or requested, critiques retained, and the prompt the first refinement has sent |
| `Driver` | `run_driver` over launches | a file each for submissions and results, task states, stop event, exit code. A problem's search is one step |
| `Selection` | `judge_finalists` over launches | rows per slot and attempt, ledger, slot tasks, writer threads that outlive their task |
| `Config` | `config.py` and the identities of `resume.py`, as operators on documents | `Accepts` (parse_config), `ExperimentKeys`, `DerivedCounts`, and `Work`: all requests an experiment makes |
| `Preflight` | `run.py` `main` and `manifest.py` over launches, with `Config` | the document, the three pinning files, what a launch holds in memory, the operator's edits |
| `Sandbox` | `start-with-nginx.sh` on all nodes | scripts, worker processes, ports, port files, nginx; environment actions for deaths and terminations |
| `RayCluster` | the Ray job's batch script, its steps and containers over runs of the job | `job` (the script), `step` of each srun, `members` (Ray's list of raylets, stale ones included), markers `started`/`ended`, `info`; kills and requeues |
| `OrchestratorProofs`, `RequestLayerProofs`, `DriverProofs`, `SelectionProofs`, `PreflightProofs`, `RecordsProofs`, `RayClusterProofs`, `SandboxProofs` | theorems and proofs | |
| `MC...` | constants for TLC | |

`Selection` and `Orchestrator` assume of a request what `RequestContract` states, and `RequestLayer` is shown to
implement it: a call that completes in the turn its cancellation arrives wins (`Respond` with the flag set), and no
failure is reported to a cancelled caller (`ParkRequest`, `FatalRequest`, `Park` need the flag clear). `Driver` takes
from `Orchestrator` and `Selection` that a problem's task ends (`SearchHalts`, `JudgingEnds`) and that it ends quietly,
with an error or with a fatal error.

Conventions. A definition keeps the source's name where it can (`Classify` is `classify_error`, `Beats` is
`finalist_rank_key`). An asyncio cancellation is a flag set by the canceller and delivered when the task is next
scheduled; that gap is where most of the hard interleavings are. A hash is the value it was taken of. A response is a
model value with a proof text or a score. A definition `Bug...` is a plausible mistake in the definition that follows
it, and is used nowhere else: `PROJECT.json` ("mutants") names for every property one that the property must catch.
No module uses a RECURSIVE operator.

## 3. Runs

State counts are distinct states.

| run | question | instance | states |
|---|---|---|---|
| `resume` | Do interleavings, an acceptance, stops, failures and crashes leave rows a second launch can trust? | one checkpoint, two samples of three responses (two texts, one invalid), panels of two, two launches | 622 k |
| `search` | Does the outcome follow what is on disk, and does the search end? | two checkpoints, one sample each, two rounds, panels of one vote with all scores, one launch, fair | 89 k |
| `lanes` | Do lanes, retries, the budget and cancellation of requests hold together, and does every request end? | three requests contend for a lane one wide, one whose prompt leaves exactly no room; retry, park and fatal errors; fair | 186 k |
| `judging` | Are attempts in order and the selection best over crashes and replays, and does judging end? | two finalists, one slot each, up to three attempts, scores 0 and 7, two launches, fair | 126 k |
| `launches` | Do exit codes and rows tell the truth, and does every launch end? | three problems in two places, two launches, crashes between the two appends, fair | 203 k |
| `relaunch` | Do all launches that get to the driver compute the same experiment and ask for the same, do the counts hold, and is the same command accepted? | eight documents: five experiments, one of them in two spellings, and two that are refused; two problem sets (one the beginning of the other) and an invalid one, two versions of the prompts (symmetric), two launches | 647 k |
| `records` | Do all launches come to the same ledger and the same refinement prompt? | two verifiers with two judgments of two scores or truncated, at most four critiques and two per score, three launches, of which the first ones may be of earlier versions, every tear | 3.1 M |
| `cluster` | Does the driver start on a whole cluster, are markers and the info file those of this run, does the wait end, and the job? | a head, two workers and a sandbox, one retry, two runs of the job, kills, steps that die, fair | 194 k |
| `startup` | Does the load balancer hold the workers, and does startup end? | two nodes, two workers each, one worker that conflicts twice with a service that answers health checks, one death, nginx deaths, terminations, fair | 7 k |
| `kept`, `deps`, `throttled` | see section 6 | | violations |

Why the bounds are enough. The properties of `Orchestrator` relate the pipelines of one checkpoint through the text,
the checkpoint or the ledger, so two pipelines and two votes make every pair of them race, a panel can be half written,
and a second launch replays it; a third text or vote repeats those cases. Two checkpoints matter only to the round,
the ranking and the outcome, which `search` covers, with a refinement round. Three requests on a lane one wide give a
holder, a waiter and one that is passed in the queue; the four prompts are below, at and above the budget's edge,
and unknown. Three problems in two places are the least with one running, one waiting and one finished at one wake-up.
Two launches of one directory are the least in which one dies while freezing or pins, and the next is compared with it;
`OneExperiment` and `OneDirectoryOneWork` cover any number. The documents differ from one another in an endpoint, in a
blank around an id, in a default spelled out, in what requests carry, in the stages there are, and in a colon that moves from
a model's id to a prompt's.
Three launches of a panel are the least in which one leaves a truncated vote, one of the same version issues it again and
refines, and a third comes back to it; two verifiers with two judgments are the least in which a verifier passes over a judgment of
a score there is enough of, and one runs out in the middle of a batch. Two workers are the least in which one is up while
the other retries; two runs of a job the least in which files of a run are found by another.
Two finalists with three attempts are the least in which a resample follows a replayed attempt and a slot ends while
its sibling is cancelled. `MaxLaunches`, `MaxDeaths` and `MaxRetries` bound what would otherwise repeat for ever;
`MaxRetries` is the script's own limit, scaled down.

Several cfgs have `CHECK_DEADLOCK FALSE`: a process that has exited for the last time, judging that has selected and
scripts that have ended on every node really stop. `Orchestrator` and `RequestLayer` have an explicit step for it.

### Properties worth knowing

- `AcceptedIsFinalist` (proved): the race `_on_accepted` guards against, a second accepted proof of a checkpoint,
  cannot happen, because acceptance sets the flag on every sibling before any of them can conclude.
- `DecidedFromDisk` (proved): what the search has decided can be read back from disk under the identities a relaunch uses.
- `ImplementsSearch` (proved): under all interleavings, cancellations and relaunches the search is one that finds and grades each
  sample at most once, names at most one winner per checkpoint, among the graded, and ends with a result that follows.
- `OneRowPerIdentity`, `NeverReissued` (both proved): across duplicates, cancellations and relaunches.
- `OutcomeFollowsDisk` (proved): a search that ends without an accepted proof overlooked none, and its fallback has the most points.
- `CallsWithinLane`, `ImplementsContract`, `ArrivedIsReturned`, `CallsFitContext` (all proved).
- `ExitCodeIsTruthful`: what a caller may conclude from 0 and from 1, whatever happens at one wake-up. Proved for whole lines.
- `OneResultPerProblem` (proved, for torn lines too): a problem is searched again only while it has no readable result.
- `FinishedHasSubmission` (proved) needs whole lines (`Tears = {}`); with torn lines it fails, as section 6 says.
- `AttemptsInOrder`, `ResultsFromDisk`, `SelectionIsBest` (all proved): what judging samples, counts and takes.
- `RunIsPinned`, `SameWork`, `RefusalHasCause` (all proved). `RunIsPinned` is about the keys, `SameWork` about what they
  are for: `Work` is built from the orchestrator's loops, not from the keys, so that a setting missing among the keys breaks it.
- `CountsAreRequests` (proved): the counts in the manifest are numbers of different identities; ids with colons are excepted (section 6).
- `LedgerAgrees`, `RetainedIsBalanced`, `PromptIsRepeatable` (all proved): a relaunch, of whichever version, rebuilds the
  prompt that was sent, as long as no row ran into a cut line.
- `NoPhantomEnd`, `InfoIsCurrent`, `EveryNodeConnected` (all proved), `BringUpEnds`, `EndedEndsJob`: each states where the script's
  protocol over files, processes and Ray's node list holds; what it excepts is in section 6.
- `UpstreamIsWorkers`, `ReadyIsListening` (both proved, from the assumptions section 4 names), `DeadWorkerReturns`.

### Fairness

Only the program's own steps are fair; stops, crashes, cancellations, relaunches, edits and deaths never are.
`Orchestrator!FairSpec`: the event loop runs what is ready, and a request or a write ends (the client's timeout and
retry window, `RequestLayer!EveryRequestEnds`). `RequestLayer!Fairness`: each coroutine runs, `endpoint.timeout_s`
ends each call, the clock reaches the end of each retry window. `Driver!FairSpec`: tasks end (by `SearchHalts` and
`JudgingEnds`), the STOP watcher polls, `asyncio.wait` returns. `Selection!FairSpec`: the same, and writer threads end.
`Sandbox!FairSpec`: scripts run, a process that was started comes to its bind, and a dead worker is eventually found
by the monitor's loop over the workers. `RayCluster!FairSpec`: the script runs, containers boot and their `ray start`
comes up or gives up, sidecars poll the ENDED marker, Ray forgets a lost raylet at last, and a driver without a head ends;
that a step dies, a job is killed or requeued, or a driver ends is never fair.

## 4. Proofs

All theorems hold for every value of the constants that satisfies the named assumptions.

- **`OrchestratorProofs`**, in layers, each of which is inductive given the ones before it.
  `TypeInvariant`: types, what a pipeline holds at each place (a pipeline that records holds a response; one that verifies holds
  a response with a proof text), and that everything in the ledger has rows on disk, without which a replayed row has no type.
  `Acceptance` (`Spec => []AcceptedIsFinalist`): a proof under a panel is open, belongs to the checkpoint of the pipeline that
  verifies it and to no other pipeline, and once a checkpoint has stopped, every pipeline of it that could still conclude has a
  cancellation to be delivered or has been cut, so `Accept` cannot be enabled for it.
  `DiskInvariant`: a response that is awaited or being written has no row yet; a panel holds the votes that are on disk, and its
  unsaved votes are exactly those that are not; rows of a round that has not begun, or of a text not found yet, are in the
  ledger. `Decisions` (`DecidedFromDisk`), `OneRow` (`OneRowPerIdentity`) and the action property `Replays` (`NeverReissued`)
  follow: whoever requests knows that there is no row.
  `OutcomeInvariant` adds why a search that ends has overlooked nothing: a proof without a verdict is under a panel unless its
  checkpoint is over, a panel is cut off for that reason only, and a complete or incomplete verdict is what the rows say.
  `Outcomes` is `Spec => []OutcomeFollowsDisk`. `SearchRefined` is `Spec => ImplementsSearch`, step by step: `StartPanel` finds a
  sample, the write that saves a panel's last vote grades it, `Accept` wins, the steps that finish end the search, `Relaunch`
  restarts it, and all others stutter.
- **`RequestLayerProofs`.** `LanesBoundCalls` rests on the invariant that a call on the wire belongs to a request that
  is calling or aborting, so it holds its lane, and that a lane has no more holders than its width. `ContractHolds`
  maps every step to a step or a stutter of `RequestContract`, which needs that an aborting request is a cancelled one
  and that a request has an outcome exactly when it has ended. `ArrivedReturned` is an action property and
  `BudgetFits` an invariant about calls.
- **`PreflightProofs`.** `OneExperiment`: `Spec => []RunIsPinned`. The invariant: from the freeze on the hash a launch
  holds is that of the rows it holds; a launch past the run manifest agrees with the manifest's hash; and every launch that has run
  agreed with it. The hash is what makes it inductive: edits by hand change the recorded keys, never the hash.
  `OneDirectoryOneWork`: `Spec => []SameWork`, because accepted documents with the same keys have the same `Work`, stage by
  stage: an entry of one list has one in the other that agrees in all that goes into a request. It assumes that a list of
  judges is not the null that stands for none (`NullAssumption`). `RefusalsHaveCauses` (`RefusalHasCause`): until the operator
  touches what is pinned or a launch dies in the freeze, every file has what a launch would write there now.
  `CountsHold` (`CountsAreRequests`): the identities of a stage are as many as the tuples of a prompt or trial, an entry and a slot
  that they are made of, because parts without colons can be read back from them, and as these pairs and triples are counted by the
  sums and products of `derived_counts`. It assumes that a prompt is its id (`PromptAssumption`) and that an accepted document
  has lists in the places of lists, with the counts of their stage (`DocumentAssumption`).
- **`DriverProofs`.** `OneResult`: `Spec => []OneResultPerProblem` for any `Tears`. That no two rows of `results` are equal
  is inductive together with `Owed`: while a launch is up, a task that may still write has no readable result row. The
  lemmas on `Journal` say that an append, whole or cut, adds its row or loses what it runs into. `SubmissionFirst`
  proves `FinishedHasSubmission` under `Tears = {}`, an assumption of the theorem beside those on the constants: both
  files end with a newline and what is read of the second can be read of the first. `ExitTruth` proves `ExitCodeIsTruthful`,
  under `Tears = {}` too, since a row appended onto a torn line is lost though its task has ended well; the invariant below it,
  `ExitInvariant`, holds for any tears: whatever sets the stop event or a code is kept until the exit, no task the driver has taken
  note of has failed while it still waits, and a drain that nobody asked for has nothing left to do.
- **`SelectionProofs`.** The invariant says what a slot that is at work knows (rows it did not find in the ledger are not there,
  and the attempt it is at is the next one), and that a writer thread that outlives its task belongs to a cancelled
  slot, one to each, with the slot's next attempt. `InOrder` (`AttemptsInOrder`) and `CountsFromDisk` (`ResultsFromDisk`) follow.
  `Selected` (`SelectionIsBest`): a finalist that nobody beats exists and is unique, because `Beats` is a strict total order: means
  of valid scores are compared as fractions, which is a weak order on what has a valid score, and ties go to the
  shorter proof and then to a place that no two finalists share. Nothing changes the judgments once a choice is made.
- **`RayClusterProofs`.** `OwnMarkers` (`NoPhantomEnd`) and `OwnInfo` (`InfoIsCurrent`) are nearly inductive: besides the types they need
  that a run that is not up has no steps and that the trap is set before the driver runs. `WholeCluster` (`EveryNodeConnected`, an
  action property) needs that, unless Ray's list lingers, a member is the latest raylet of a node that is up, so that the
  script cannot count to its target with a node missing: a set of nodes with one raylet each, of that cardinality, has them all.
- **`RecordsProofs`.** `LedgerIsConsistent`: `Spec => []LedgerAgrees` for any identities, files, slots, tears and number of
  launches, because a step of `Records` is a step of `Ledger` or none (`ImplementsLedger`) and the property is inductive for
  `Ledger` (`LedgerAlone`) together with its types and the fact that lookup gives an identity a row of its own: the row of a new
  identity cannot be listed already, and a superseded row is listed once wherever it belongs.
  `CritiquesBalanced`: `Spec => []RetainedIsBalanced` for any numbers of verifiers, judgments and critiques. The invariant: a
  batch has one judgment of each verifier that had its turn, behind all that finished batches took of that verifier, so that a whole
  batch adds one to each; finished batches times verifiers are what is selected; and counts never pass a score's limit.
  That some judgment is selected rests on a batch being smaller than the limit while nothing is selected yet.
  `PromptRepeats`: `Spec => []PromptIsRepeatable`. Its invariant says what every launch reads and what it makes of it. What a
  scan has found for an identity is the first complete row among those it has passed, or a truncated one if there is none, and
  a running launch answers with just that; the vote a prompt was made of is the first complete row of its identity, an append, whole or cut,
  leaves it so, and the exception is an append that runs into a cut line, which `merged` marks. What is retained is a function
  of the panel: were two runs of `retain_critiques`' turns from one start to differ, they would at a first turn, and
  a turn decides all of the next state.
- **`SandboxProofs`.** All of it rests on `PortsApart`: a retry moves a worker by a whole `PORT_INCREMENT`, so workers of a node
  never try the same port if there are no more of them than that. `UpstreamFollowsWorkers` (`UpstreamIsWorkers`): scripts that have found
  their ports keep them, a port file has the ports found, and the master has everybody's before it serves. It assumes that the
  job has no earlier run (`Requeued = FALSE`; with one it fails, section 6) and that workers are at most `PORT_INCREMENT`.
  `ReadyListens` (`ReadyIsListening`, an action property): while a script looks for conflicts, whoever has a port that a
  stranger holds is booting or has died of it, and the health checks begin when nobody has. It assumes
  `SearchAssumptions`: a failed bind is seen within the script's wait (`Prompt`), who answers on a port holds it, and
  nobody answers on the ports of the last retry, after which the script does not look again.

Only model-checked:

- everything under fairness: `SearchHalts`, `JudgingEnds` and the other liveness properties, since liveness and ENABLED are out of
  the prover's reach.

Two proofs are about sums over sets (`SelectionProofs`, `PreflightProofs`), which are folds. An induction theorem that takes an
operator cannot be used here. Instead the fold's defining recursion is shown to have a solution, and what is claimed of a sum is
shown of the solution at a set of least cardinality for which it would fail.

## 5. What is abstracted or left out

- Prompt text, row layout, logging, random seeds.
- `Config`: a value is one the code accepts, or absent, null, of a wrong type or not filled in; temperature and top_p are one
  value, and a section that is missing, no mapping or has an unknown key is one flag. `Preflight` reads the document and the
  input once in a launch, as the code does, so that an edit of them during a launch is an edit after it.
- `Records`: a vote's request and the append of its row are one step, since a response that is not on disk when the process
  ends leaves nothing. The run has no judgments; `Ledger` has them (`SlotsOf`).
- `RayCluster`: environment, mounts, ports and addresses; one driver command, or none (an idle cluster).
- `Sandbox!Init` has the port files of the job's earlier run with the constant `Requeued`, and every run has it FALSE.
- `Sandbox` has a constant `Prompt`: a worker that cannot bind is dead within the second the script waits before it
  looks (`start-with-nginx.sh:451`). `ReadyIsListening` is checked with it. Without it a later conflict goes unseen, the
  service that has the port answers `/health` in the worker's place, and the worker counts as ready. The wait comes
  before each look, so the workers spawned in the last round are never looked at, whatever `Prompt` is (line 450).
- `Sandbox!Cleanup`: `pkill -f nginx` matches the script's own name, so the trap handler signals the script, bash runs
  it inside itself and the script ends with 139, not with its `exit 0`; `StackDepth` stands for bash's limit.
- `Preflight`: two launches of one directory at the same time are not modelled; the code has no lock, and the
  documentation has one launch at a time. A manifest whose recorded hash was recomputed by hand is not modelled either.
- The endpoints' model list (`run.py:77-90`) only leads to warnings.
- Components without a module and why: `PROJECT.json`.

## 6. Where code and documentation differ

Three runs expect a violation, each of a sentence in the repository:

- `kept`: a stop during the writes of a panel drops the votes not written yet (`orchestrator.py:374`), although
  "everything completed so far is persisted" (`orchestrator.py:489`).
- `deps`: after a relaunch a replayed refinement may be credited to another parent than it was made from, because its
  identity has the trial, not the parent ("derived from what it computes", `resume.py:17`).
- `throttled`: a 429 whose message says "too many tokens" is parked without a retry (`client.py:104` against `:17`).

Others, seen while modelling and not given a run:

- A launch that dies in `freeze_input` leaves part of `input.jsonl`, which is written in place; the same command is
  then refused, or ends in an uncaught `ValueError` when a row was cut, against "Relaunch the same command to resume"
  (the recipe's `README.md:183`). `RefusalHasCause` shows it to be the only such case.
- The prompts are read twice, to be used and to be hashed (`run.py:136-139`); an edit in between pins a hash that is not of
  the prompts in use.
- A proof merged into the record of another checkpoint is not judged when that checkpoint stops first.
- A draining search may still issue a panel, when a completed call swallowed the cancellation of its pipeline.
- A crash between the two appends of the driver gives a problem a second submission row at the next launch.
- A judgment waiting for the sink's lock is dropped by a stop (`selection.py:118`) and sampled again.
- With the network blocked a restarted sandbox worker cannot bind and is restarted for ever (documented by the script).
- An append after a cut line is lost to every reader together with the row it ran into (`text.py:169`); a problem that
  `results.jsonl` counts as finished may then have no readable submission, against `README.md:91` of the recipe. A row
  that lacks only its newline is even read by one launch and lost to the next, which `Ledger!merged` marks.
- A requeued job's sandbox master takes another node's old port file for its new one (`start-with-nginx.sh:220`, against
  the comment at 198): the directory is named for the job's id, and a node removes only its own file.
- Identities join ids with colons: prompt `p:x` with model `c` and prompt `p` with model `x:c` have one identity
  (`resume.py:34`), though every request should have its own (`resume.py:17`); the configuration accepts both ids, and
  its derived counts are then one too many.
- With more than eight verifiers `retain_critiques` retains nothing (`scoring.py:79`), and with more than four and scores
  that differ it may.
- The retry window starts before a request has its place in the lane (`client.py:252`): one that has queued for longer is
  parked at its first failure. A fatal error of one vote surfaces when all votes of its panel are over (`orchestrator.py:359`).
- The sandbox script does not look at the workers of its last retry (`start-with-nginx.sh:450-474`): if their ports are taken
  too, by a service that answers `/health`, they count as ready. A node with more workers than `PORT_INCREMENT`, 200, may give two
  workers one port after a conflict (`:428`, `:467`); the number of workers is by default that of the processors (`:60`).
- The sandbox monitor's own signal handler ends the script before it reports why (`start-with-nginx.sh:699`).
- A Ray job script that is killed leaves `ray_cluster_info.json`, and no later run removes it before its own is written.
- The Ray script counts worker units, those of raylets that have died and are still listed too: the driver may start
  with a node missing (`j2:414-434`). Once the driver runs nobody looks at the steps, and nothing waits for the sandbox.
- Its sidecars end their own process trees; an idle cluster (no driver command) is not brought down by ENDED.

## 7. Plan

Every safety property the passing runs check has a theorem. What is left:

1. More of what the models promise, proved: that the abstract contracts are enough for their callers (`RequestContract` for
   `Selection`), and that the exceptions of section 6 are the only ones, for `UpstreamIsWorkers` on a requeued job too.
2. Properties worth both a run and a theorem that the runs do not check yet: how many requests a search can issue at most
   against the derived counts, and what a launch may conclude from rows of an earlier version.
