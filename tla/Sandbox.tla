------------------------------- MODULE Sandbox -------------------------------
(***************************************************************************)
(* start-with-nginx.sh: on every node a script spawns uWSGI workers on     *)
(* ports that may be taken, waits until they answer, reports their ports   *)
(* to the master's load balancer over a shared directory, starts nginx and *)
(* then restarts whatever dies.                                            *)
(*                                                                         *)
(* Names that start with Bug are variants of the definition that follows   *)
(* them, as a plausible mistake in the script would write it.              *)
(***************************************************************************)
EXTENDS Integers, FiniteSets

CONSTANTS
  Nodes,       \* the nodes of the job
  Master,      \* the first of them
  NumWorkers,  \* workers of a node
  Base,        \* SANDBOX_WORKER_BASE_PORT
  Increment,   \* PORT_INCREMENT
  MaxRetries,  \* MAX_STARTUP_RETRIES
  Foreign,     \* ports of each node held by somebody else
  Answering,   \* those of them that answer /health
  Prompt,      \* whether a worker that cannot bind is dead within a second
  Block,       \* NEMO_SKILLS_SANDBOX_BLOCK_NETWORK
  StackDepth,  \* nested trap handlers bash can hold
  MaxDeaths,   \* bound on worker deaths after startup
  Requeued,    \* whether the job has run before under the same job id
  NoReport     \* a node without a complete port file

Workers == 1..NumWorkers

ASSUME NodeAssumption == IsFiniteSet(Nodes) /\ Master \in Nodes
ASSUME PortAssumption ==
  /\ {NumWorkers, Base, Increment} \subseteq Nat \ {0}
  /\ {MaxRetries, StackDepth, MaxDeaths} \subseteq Nat
  /\ Foreign \in [Nodes -> SUBSET Nat] /\ Answering \in [Nodes -> SUBSET Nat]
  /\ {Prompt, Block, Requeued} \subseteq BOOLEAN
ASSUME ReportAssumption == NoReport \notin [Workers -> Nat]

VARIABLES
  script,    \* where each node's script is
  status,    \* its exit status
  port,      \* ACTUAL_WORKER_PORTS
  proc,      \* the worker processes
  conflict,  \* workers whose log says "Address already in use"
  retries,   \* retry_round
  ready,     \* WORKER_READY
  report,    \* the port files of the shared directory
  upstream,  \* the servers of the master's load balancer
  nginx,     \* nodes where nginx runs
  preload,   \* nodes where new processes cannot open sockets
  depth,     \* cleanup handlers on the script's stack
  deaths

workerVars == <<port, proc, conflict>>
startVars == <<retries, ready>>
nginxVars == <<nginx, preload>>
vars == <<script, status, workerVars, startVars, report, upstream, nginxVars, depth, deaths>>

Goes(n, where) == script' = [script EXCEPT ![n] = where]
Exits(n, code) == Goes(n, "ended") /\ status' = [status EXCEPT ![n] = code]

InitialPort(w) == Base + w - 1

----------------------------------------------------------------------------
(* Worker processes *)

Holds(n, w, p) == proc[n][w] = "listening" /\ port[n][w] = p
Taken(n, p) == p \in Foreign[n] \/ \E w \in Workers : Holds(n, w, p)
Answers(n, p) == p \in Answering[n] \/ \E w \in Workers : Holds(n, w, p)

\* start_worker_fast for a set of workers, on the given ports; it empties their logs.
Spawn(n, W, at) ==
  /\ port' = [port EXCEPT ![n] = [w \in Workers |-> IF w \in W THEN at[w] ELSE @[w]]]
  /\ proc' = [proc EXCEPT ![n] = [w \in Workers |-> IF w \in W THEN "booting" ELSE @[w]]]
  /\ conflict' = [conflict EXCEPT ![n] = @ \ W]

\* A booting worker binds its port, or dies: because the port is taken, which its
\* log says, or because sockets are blocked for new processes.
Bind(n, w) ==
  /\ proc[n][w] = "booting"
  /\ LET taken == Taken(n, port[n][w]) IN
       /\ proc' = [proc EXCEPT ![n][w] = IF taken \/ n \in preload THEN "dead" ELSE "listening"]
       /\ conflict' = IF taken /\ n \notin preload
                      THEN [conflict EXCEPT ![n] = @ \cup {w}] ELSE conflict
  /\ UNCHANGED <<script, status, port, startVars, report, upstream, nginxVars, depth, deaths>>

Die(n, w) ==
  /\ proc[n][w] = "listening" /\ deaths < MaxDeaths
  /\ proc' = [proc EXCEPT ![n][w] = "dead"]
  /\ deaths' = deaths + 1
  /\ UNCHANGED <<script, status, port, conflict, startVars, report, upstream, nginxVars, depth>>

NginxDies(n) ==
  /\ n \in nginx
  /\ nginx' = nginx \ {n}
  /\ UNCHANGED <<script, status, workerVars, startVars, report, upstream, preload, depth, deaths>>

----------------------------------------------------------------------------
(* Startup *)

\* The script removes its own port file and spawns every worker at once.
Start(n) ==
  /\ script[n] = "off"
  /\ report' = [report EXCEPT ![n] = NoReport]
  /\ Spawn(n, Workers, [w \in Workers |-> InitialPort(w)])
  /\ Goes(n, "probing")
  /\ UNCHANGED <<status, startVars, upstream, nginxVars, depth, deaths>>

\* One round of phase 2, a second after the spawns: workers that have died of a
\* port conflict are spawned again further up; without any, or right after the
\* last round's spawns, the health checks begin.
Conflicted(n) == {w \in conflict[n] : proc[n][w] = "dead"}
RetryPort(n, w) == InitialPort(w) + (retries[n] + 1) * Increment
BugProbe(n) ==
  /\ script[n] = "probing"
  /\ IF Conflicted(n) = {} \/ retries[n] >= MaxRetries
     THEN Goes(n, "checking") /\ UNCHANGED <<workerVars, retries>>
     ELSE /\ Spawn(n, Conflicted(n), [w \in Workers |-> RetryPort(n, w)])
          /\ retries' = [retries EXCEPT ![n] = @ + 1]
          /\ UNCHANGED script
  /\ UNCHANGED <<status, ready, report, upstream, nginxVars, depth, deaths>>
Probe(n) ==
  /\ script[n] = "probing"
  /\ Prompt /\ retries[n] < MaxRetries => \A w \in Workers : proc[n][w] # "booting"
  /\ IF Conflicted(n) = {} \/ retries[n] >= MaxRetries
     THEN Goes(n, "checking") /\ UNCHANGED <<workerVars, retries>>
     ELSE /\ Spawn(n, Conflicted(n), [w \in Workers |-> RetryPort(n, w)])
          /\ retries' = [retries EXCEPT ![n] = @ + 1]
          /\ UNCHANGED script
  /\ UNCHANGED <<status, ready, report, upstream, nginxVars, depth, deaths>>

\* /health answers on the worker's port, whoever answers.
CheckHealth(n, w) ==
  /\ script[n] = "checking" /\ w \notin ready[n]
  /\ Answers(n, port[n][w])
  /\ ready' = [ready EXCEPT ![n] = @ \cup {w}]
  /\ UNCHANGED <<script, status, workerVars, retries, report, upstream, nginxVars, depth, deaths>>

MultiNode == Cardinality(Nodes) > 1

\* All ready: with several nodes the ports go to the shared directory; the master
\* then waits for everybody's, the others start their proxy.
BugReported(n) == [w \in Workers |-> InitialPort(w)]
Reported(n) == port[n]
AllReady(n) ==
  /\ script[n] = "checking" /\ ready[n] = Workers
  /\ report' = IF MultiNode THEN [report EXCEPT ![n] = Reported(n)] ELSE report
  /\ Goes(n, IF n = Master THEN "collecting" ELSE "balanced")
  /\ UNCHANGED <<status, workerVars, startVars, upstream, nginxVars, depth, deaths>>

\* The master makes one server of every reported port, or of its own ports when
\* it is alone, and checks that they answer.
Servers ==
  IF MultiNode THEN {<<n, report[n][w]>> : n \in Nodes, w \in Workers}
  ELSE {<<Master, port[Master][w]>> : w \in Workers}
Collect ==
  /\ script[Master] = "collecting"
  /\ MultiNode => \A n \in Nodes : report[n] # NoReport
  /\ upstream' = Servers
  /\ Goes(Master, "verifying")
  /\ UNCHANGED <<status, workerVars, startVars, report, nginxVars, depth, deaths>>

\* After a minute without an answer from all of them it goes on regardless.
Verify ==
  /\ script[Master] = "verifying"
  /\ Goes(Master, "balanced")
  /\ UNCHANGED <<status, workerVars, startVars, report, upstream, nginxVars, depth, deaths>>

StartNginx(n) ==
  /\ script[n] = "balanced"
  /\ nginx' = nginx \cup {n}
  /\ preload' = IF Block THEN preload \cup {n} ELSE preload
  /\ Goes(n, "monitoring")
  /\ UNCHANGED <<status, workerVars, startVars, report, upstream, depth, deaths>>

\* 180 seconds for the health checks, 120 for the port files: exit 1, and the
\* container takes its workers along.
BugTimeOut(n) ==
  /\ script[n] = "collecting" /\ MultiNode /\ \E m \in Nodes : report[m] = NoReport
  /\ Exits(n, 1)
  /\ proc' = [proc EXCEPT ![n] = [w \in Workers |-> "dead"]]
  /\ UNCHANGED <<port, conflict, startVars, report, upstream, nginxVars, depth, deaths>>
TimeOut(n) ==
  /\ \/ script[n] = "checking" /\ ready[n] # Workers
     \/ script[n] = "collecting" /\ MultiNode /\ \E m \in Nodes : report[m] = NoReport
  /\ Exits(n, 1)
  /\ proc' = [proc EXCEPT ![n] = [w \in Workers |-> "dead"]]
  /\ UNCHANGED <<port, conflict, startVars, report, upstream, nginxVars, depth, deaths>>

----------------------------------------------------------------------------
(* Monitoring and the end *)

\* A dead worker is spawned again on the port it had.
BugRestartConflicted(n, w) ==
  /\ script[n] = "monitoring" /\ proc[n][w] = "dead" /\ w \in conflict[n]
  /\ Spawn(n, {w}, port[n])
  /\ UNCHANGED <<script, status, startVars, report, upstream, nginxVars, depth, deaths>>
Restart(n, w) ==
  /\ script[n] = "monitoring" /\ proc[n][w] = "dead"
  /\ Spawn(n, {w}, port[n])
  /\ UNCHANGED <<script, status, startVars, report, upstream, nginxVars, depth, deaths>>

\* nginx is gone: the script calls its own SIGTERM handler.
NoticeNginx(n) ==
  /\ script[n] = "monitoring" /\ n \notin nginx
  /\ Goes(n, "cleaning")
  /\ UNCHANGED <<status, workerVars, startVars, report, upstream, nginxVars, depth, deaths>>

\* SIGTERM or SIGINT from outside.
Terminate(n) ==
  /\ script[n] \notin {"off", "cleaning", "ended"}
  /\ Goes(n, "cleaning")
  /\ UNCHANGED <<status, workerVars, startVars, report, upstream, nginxVars, depth, deaths>>

\* The handler ends the workers and runs pkill -f nginx, which ends nginx and, the
\* name of the script being start-with-nginx.sh, signals the script itself: bash
\* runs the handler again inside the handler, and it never comes to its exit 0.
Cleanup(n) ==
  /\ script[n] = "cleaning"
  /\ proc' = [proc EXCEPT ![n] = [w \in Workers |-> "dead"]]
  /\ nginx' = nginx \ {n}
  /\ depth' = [depth EXCEPT ![n] = @ + 1]
  /\ IF depth[n] >= StackDepth THEN Exits(n, 139) ELSE UNCHANGED <<script, status>>
  /\ UNCHANGED <<port, conflict, startVars, report, upstream, preload, deaths>>

\* Containers are new, but the shared directory, named for the job, is as the last
\* run of a requeued job has left it.
Init ==
  /\ script = [n \in Nodes |-> "off"] /\ status = [n \in Nodes |-> 0]
  /\ port = [n \in Nodes |-> [w \in Workers |-> InitialPort(w)]]
  /\ proc = [n \in Nodes |-> [w \in Workers |-> "dead"]]
  /\ conflict = [n \in Nodes |-> {}]
  /\ retries = [n \in Nodes |-> 0] /\ ready = [n \in Nodes |-> {}]
  /\ report \in [Nodes -> {NoReport} \cup IF Requeued THEN {port[n] : n \in Nodes} ELSE {}]
  /\ upstream = {} /\ nginx = {} /\ preload = {}
  /\ depth = [n \in Nodes |-> 0] /\ deaths = 0

Script(n) ==
  \/ Start(n) \/ Probe(n) \/ (\E w \in Workers : CheckHealth(n, w)) \/ AllReady(n)
  \/ n = Master /\ (Collect \/ Verify)
  \/ StartNginx(n) \/ TimeOut(n) \/ (\E w \in Workers : Restart(n, w)) \/ NoticeNginx(n)
  \/ Cleanup(n)

Next ==
  \/ \E n \in Nodes : Script(n) \/ NginxDies(n) \/ Terminate(n)
  \/ \E n \in Nodes, w \in Workers : Bind(n, w) \/ Die(n, w)

Spec == Init /\ [][Next]_vars

\* Scripts run, checks that can succeed are made before their time is up, and
\* every process that was started gets to its bind.
FairSpec ==
  /\ Spec
  /\ \A n \in Nodes : WF_vars(Script(n))
  /\ \A n \in Nodes, w \in Workers : WF_vars(Restart(n, w)) /\ WF_vars(Bind(n, w))

----------------------------------------------------------------------------
(* Properties *)

\* Every variable keeps its type.
TypeOK ==
  /\ script \in [Nodes -> {"off", "probing", "checking", "collecting", "verifying", "balanced",
                           "monitoring", "cleaning", "ended"}]
  /\ status \in [Nodes -> {0, 1, 139}]
  /\ port \in [Nodes -> [Workers -> Base..(Base + NumWorkers - 1 + MaxRetries * Increment)]]
  /\ proc \in [Nodes -> [Workers -> {"booting", "listening", "dead"}]]
  /\ conflict \in [Nodes -> SUBSET Workers] /\ ready \in [Nodes -> SUBSET Workers]
  /\ retries \in [Nodes -> 0..MaxRetries]
  /\ \A n \in Nodes : report[n] # NoReport => report[n] \in [Workers -> Nat]
  /\ upstream \subseteq Nodes \X Nat
  /\ {nginx, preload} \subseteq SUBSET Nodes
  /\ depth \in [Nodes -> Nat] /\ deaths \in 0..MaxDeaths

\* Whatever conflicts, dies and is restarted, the load balancer's servers are the
\* ports its job's workers have now, each worker's once (lines 149-155, 557-598).
UpstreamIsWorkers ==
  \A n \in Nodes, w \in Workers :
    script[Master] = "monitoring" =>
      /\ <<n, port[n][w]>> \in upstream
      /\ \A v \in Workers \ {w} : port[n][v] # port[n][w]
      /\ Cardinality(upstream) = Cardinality(Nodes) * NumWorkers

\* A worker counts as ready only while it is itself listening: nobody else
\* answers for it, and its port conflict has been dealt with (lines 448-474).
ReadyIsListening ==
  [][\A n \in Nodes, w \in Workers :
       script[n] = "checking" /\ w \in ready'[n] \ ready[n] => proc[n][w] = "listening"]_vars

\* A worker that dies under a monitored node listens again, unless its node goes
\* down (lines 684-694).
DeadWorkerReturns ==
  \A n \in Nodes, w \in Workers :
    script[n] = "monitoring" /\ proc[n][w] = "dead"
      ~> proc[n][w] = "listening" \/ script[n] # "monitoring"

\* Startup comes to an end on every node: it serves or it gives up.
StartupEnds == \A n \in Nodes : <>(script[n] \in {"monitoring", "cleaning", "ended"})

=============================================================================
