------------------------------ MODULE RayCluster ------------------------------
(***************************************************************************)
(* nemo_skills_sandbox_ray.sub.j2: the batch script of a Ray job.  It      *)
(* starts the head's container, then the sandbox and the workers' as       *)
(* background sruns, waits until Ray counts every node, writes the cluster *)
(* info file and runs the driver.  Containers try `ray start' a number of  *)
(* times; the file ENDED tells all of them to go down.                     *)
(*                                                                         *)
(* Slurm (a job's steps end with it, a killed batch script runs no trap)   *)
(* and Ray (who is registered) are modelled as far as the script relies on *)
(* them.                                                                   *)
(*                                                                         *)
(* Names that start with Bug are variants of the definition that follows   *)
(* them, as a plausible mistake in the script would write it.              *)
(***************************************************************************)
EXTENDS Integers, FiniteSets

CONSTANTS
  Workers,     \* the nodes that start a Ray worker: all but the first
  Head, Box,   \* the names of the other background sruns: ray-head and sandbox
  NumRetries,  \* num_retries
  MaxRuns      \* bound on the runs of the job in one directory

ASSUME StepAssumption ==
  /\ IsFiniteSet(Workers) /\ Head \notin Workers /\ Box \notin Workers /\ Head # Box
ASSUME BoundAssumption == NumRetries \in Nat \ {0} /\ MaxRuns \in Nat

Nodes == {Head} \cup Workers
Steps == Nodes \cup {Box}

VARIABLES
  env,      \* what this job and its cluster are like, see Environments
  run,      \* which run of the job this is
  job,      \* where the batch script is
  code,     \* its exit code
  step,     \* the state of each background srun
  tries,    \* how often each node's `ray start' has ended (count)
  members,  \* the raylets the head counts, each a node and its try
  started,  \* STARTED_RAY_HEAD
  ended,    \* ENDED
  info,     \* the run that wrote ray_cluster_info.json, 0 without one
  trap,     \* whether cleanup_cluster_info is registered
  killed    \* the runs that ended without running their trap

files == <<started, ended, info>>
vars == <<env, run, job, code, step, tries, members, files, trap, killed>>

\* sandbox: SANDBOX_CONTAINER and SANDBOX_COMMAND are set; command: there is a
\* driver to run; pids: the head's container sees the batch script's processes;
\* lingers: the head counts a raylet for a while after it is gone.
Environments == [sandbox: BOOLEAN, command: BOOLEAN, pids: BOOLEAN, lingers: BOOLEAN]

Up == job \notin {"off", "ended", "killed"}
Dead == {s \in Steps : step[s] = "gone"}

NoSteps == step' = [s \in Steps |-> "off"] /\ members' = {}

\* set -e, exit or the script's end: the trap removes the info file.
Exits(c) ==
  /\ job' = "ended" /\ code' = c
  /\ info' = IF trap THEN 0 ELSE info
  /\ NoSteps
  /\ UNCHANGED <<env, run, tries, started, trap, killed>>

-----------------------------------------------------------------------------
(* The batch script *)

\* It removes the markers of an earlier run and starts the head's container.
BugBegin ==
  /\ job = "off"
  /\ started' = FALSE
  /\ step' = [step EXCEPT ![Head] = "booting"]
  /\ job' = "waiting"
  /\ UNCHANGED <<env, run, code, tries, members, ended, info, trap, killed>>
Begin ==
  /\ job = "off"
  /\ started' = FALSE /\ ended' = FALSE
  /\ step' = [step EXCEPT ![Head] = "booting"]
  /\ job' = "waiting"
  /\ UNCHANGED <<env, run, code, tries, members, info, trap, killed>>

\* The marker is there and `ray status' answers.
HeadReady == started /\ step[Head] = "up"
StartSandbox ==
  /\ job = "waiting" /\ HeadReady
  /\ step' = IF env.sandbox THEN [step EXCEPT ![Box] = "up"] ELSE step
  /\ job' = "spawning"
  /\ UNCHANGED <<env, run, code, tries, members, files, trap, killed>>

HeadTimeout ==
  /\ job = "waiting" /\ ~HeadReady
  /\ ended' = TRUE
  /\ Exits(1)

SpawnWorker(w) ==
  /\ job = "spawning" /\ step[w] = "off"
  /\ step' = [step EXCEPT ![w] = "trying"]
  /\ UNCHANGED <<env, run, job, code, tries, members, files, trap, killed>>
Spawned ==
  /\ job = "spawning" /\ \A w \in Workers : step[w] # "off"
  /\ job' = "polling"
  /\ UNCHANGED <<env, run, code, step, tries, members, files, trap, killed>>

\* worker_units, every node bringing the same number, against NUM_ACTORS.
BugAllConnected == Cardinality(members) >= Cardinality(Workers)
AllConnected == Cardinality(members) = Cardinality(Nodes)

\* check_srun_processes, in the rounds of both loops that wait.
BugCheckSruns ==
  /\ job = "waiting" /\ ~HeadReady /\ Dead # {}
  /\ ended' = TRUE
  /\ Exits(1)
CheckSruns ==
  /\ \/ job = "waiting" /\ ~HeadReady
     \/ job = "polling" /\ ~AllConnected
  /\ Dead # {}
  /\ ended' = TRUE
  /\ Exits(1)

SaveInfo ==
  /\ job = "polling" /\ AllConnected
  /\ info' = run
  /\ job' = "saved"
  /\ UNCHANGED <<env, run, code, step, tries, members, started, ended, trap, killed>>

\* From the trap on; the driver, or sleep infinity, runs in the foreground.
BugLaunch ==
  /\ job = "saved"
  /\ job' = "running"
  /\ UNCHANGED <<env, run, code, step, tries, members, files, trap, killed>>
Launch ==
  /\ job = "saved"
  /\ trap' = TRUE
  /\ job' = "running"
  /\ UNCHANGED <<env, run, code, step, tries, members, files, killed>>

\* The driver ends; it can succeed only while there is a head.
DriverEnds ==
  /\ job = "running" /\ env.command
  /\ \/ Exits(1)
     \/ step[Head] = "up" /\ Exits(0)
  /\ UNCHANGED ended

-----------------------------------------------------------------------------
(* The containers *)

HeadBoots ==
  /\ step[Head] = "booting"
  /\ started' = TRUE
  /\ step' = [step EXCEPT ![Head] = "trying"]
  /\ UNCHANGED <<env, run, job, code, tries, members, ended, info, trap, killed>>

\* `ray start --block' of the head, and of a worker that finds it.
Raylet(n) == <<n, tries[n]>>
Serve(n) ==
  /\ step[n] = "trying" /\ (n = Head \/ step[Head] = "up")
  /\ step' = [step EXCEPT ![n] = "up"]
  /\ members' = members \cup {Raylet(n)}
  /\ UNCHANGED <<env, run, job, code, tries, files, trap, killed>>

\* What the head counts when node n's raylet goes: nothing without a head.
Without(n) ==
  IF n = Head THEN {} ELSE IF env.lingers THEN members ELSE members \ {Raylet(n)}

\* `ray start' ends.  After num_retries times the container says ENDED and exits.
Fails(n) ==
  /\ step[n] \in {"trying", "up"}
  /\ tries' = [tries EXCEPT ![n] = @ + 1]
  /\ members' = Without(n)
  /\ LET last == tries[n] + 1 >= NumRetries IN
       /\ step' = [step EXCEPT ![n] = IF last THEN "gone" ELSE "trying"]
       /\ ended' = (ended \/ last)
  /\ UNCHANGED <<env, run, job, code, started, info, trap, killed>>

\* A node that tries comes up or fails.
Attempt(n) == Serve(n) \/ (step[n] = "trying" /\ Fails(n))

\* A worker whose head is gone, or does not know it any more, cannot stay.
Lost(w) == step[w] = "up" /\ Raylet(w) \notin members /\ Fails(w)

\* The head stops counting a raylet that is gone.
Forget ==
  \E m \in members :
    /\ step[m[1]] # "up" \/ Raylet(m[1]) # m
    /\ members' = members \ {m}
    /\ UNCHANGED <<env, run, job, code, step, tries, files, trap, killed>>

\* A step ends by itself: its node, its container or its srun fails.
StepDies(s) ==
  /\ step[s] \in {"booting", "trying", "up"}
  /\ step' = [step EXCEPT ![s] = "gone"]
  /\ members' = IF s = Box THEN members ELSE Without(s)
  /\ UNCHANGED <<env, run, job, code, tries, files, trap, killed>>

\* monitor-sidecar finds ENDED and terminates its container.
BugSidecar(n) ==
  /\ ended /\ n # Head /\ step[n] \in {"trying", "up"}
  /\ step' = [step EXCEPT ![n] = "gone"]
  /\ members' = Without(n)
  /\ UNCHANGED <<env, run, job, code, tries, files, trap, killed>>
Sidecar(n) ==
  /\ ended /\ step[n] \in {"trying", "up"}
  /\ step' = [step EXCEPT ![n] = "gone"]
  /\ members' = Without(n)
  /\ UNCHANGED <<env, run, job, code, tries, files, trap, killed>>

\* The `$$' in the head's command is the batch script's: where the container
\* sees its processes, pkill -P ends every srun and what the script waits for in
\* the foreground, which set -e makes the end of the script.
HeadSidecarKillsSruns ==
  /\ ended /\ step[Head] \in {"trying", "up"} /\ env.pids
  /\ \/ job # "saved" /\ Exits(143)
     \/ /\ step' = [s \in Steps |-> IF step[s] = "off" THEN "off" ELSE "gone"]
        /\ members' = {}
        /\ UNCHANGED <<env, run, job, code, tries, started, info, trap, killed>>
  /\ UNCHANGED ended

-----------------------------------------------------------------------------
(* Slurm *)

Kill ==
  /\ Up
  /\ job' = "killed"
  /\ killed' = killed \cup {run}
  /\ NoSteps
  /\ UNCHANGED <<env, run, code, tries, files, trap>>

Requeue ==
  /\ job \in {"ended", "killed"} /\ run < MaxRuns
  /\ run' = run + 1
  /\ job' = "off" /\ code' = 0
  /\ tries' = [n \in Nodes |-> 0]
  /\ trap' = FALSE
  /\ UNCHANGED <<env, step, members, files, killed>>

Init ==
  /\ env \in Environments
  /\ run = 1 /\ job = "off" /\ code = 0
  /\ step = [s \in Steps |-> "off"] /\ tries = [n \in Nodes |-> 0] /\ members = {}
  /\ started = FALSE /\ ended = FALSE /\ info = 0
  /\ trap = FALSE /\ killed = {}

Script ==
  \/ Begin \/ StartSandbox \/ (\E w \in Workers : SpawnWorker(w)) \/ Spawned
  \/ CheckSruns \/ SaveInfo \/ Launch

Container(n) ==
  \/ n = Head /\ (HeadBoots \/ HeadSidecarKillsSruns)
  \/ Serve(n) \/ Fails(n) \/ Sidecar(n)

Next ==
  \/ Script \/ HeadTimeout \/ DriverEnds
  \/ \E n \in Nodes : Container(n)
  \/ Forget
  \/ \E s \in Steps : StepDies(s)
  \/ Kill \/ Requeue

Spec == Init /\ [][Next]_vars

\* The script runs; containers boot, `ray start' comes up or ends, a worker
\* without a head ends, sidecars look for ENDED; the head forgets lost raylets;
\* a driver without a head ends.
FairSpec ==
  /\ Spec
  /\ WF_vars(Script) /\ WF_vars(HeadBoots) /\ WF_vars(Forget)
  /\ \A n \in Nodes : WF_vars(Attempt(n)) /\ WF_vars(Sidecar(n))
  /\ \A w \in Workers : WF_vars(Lost(w))
  /\ WF_vars(step[Head] # "up" /\ DriverEnds)

-----------------------------------------------------------------------------
(* Properties *)

\* Every variable keeps its type.
TypeOK ==
  /\ env \in Environments
  /\ run \in Nat /\ code \in {0, 1, 143}
  /\ job \in {"off", "waiting", "spawning", "polling", "saved", "running", "ended", "killed"}
  /\ step \in [Steps -> {"off", "booting", "trying", "up", "gone"}]
  /\ tries \in [Nodes -> 0..NumRetries]
  /\ members \subseteq Nodes \X (0..NumRetries)
  /\ {started, ended, trap} \subseteq BOOLEAN
  /\ info \in 0..run /\ killed \subseteq 1..run

\* The containers of a run are told to go down only when something of this run
\* has gone: no run takes the markers of an earlier one for its own (lines 90-92).
NoPhantomEnd == ended /\ job \notin {"off", "ended", "killed"} => Dead # {}

\* Where Ray forgets a raylet no later than its node tries again, the script goes on
\* only at a moment when every node is in the cluster (lines 423-438).
EveryNodeConnected ==
  [][job = "polling" /\ job' = "saved" /\ ~env.lingers => \A n \in Nodes : step[n] = "up"]_vars

\* The cluster info file is this run's, and outlives a run only if that was
\* killed (lines 441-455).
InfoIsCurrent ==
  info # 0 => info \in killed \/ (info = run /\ job \in {"saved", "running"})

\* The wait for the cluster comes to an end, with all nodes or without a job, as
\* every container gives up after its retries (lines 293-305, 428-436).
BringUpEnds == job \in {"waiting", "spawning", "polling"} ~> job \in {"saved", "ended", "killed"}

\* A job with a driver that has been told to end does end, whoever has said so
\* (lines 116-118, 211-220).
EndedEndsJob == env.command /\ ended /\ Up ~> ~Up

=============================================================================
