--------------------------- MODULE RayClusterProofs ---------------------------
(***************************************************************************)
(* The Ray job's script, for any workers, retries and runs of the job: its *)
(* markers and its info file are those of the run that finds them, and the *)
(* driver starts on a whole cluster unless Ray still counts raylets that   *)
(* are gone.                                                               *)
(*                                                                         *)
(* ClusterInv adds what these rest on: a job that is down has no steps, a  *)
(* container that still tries has a try left, the trap is registered when  *)
(* the driver runs, and where nothing lingers the head counts just the     *)
(* latest raylets of nodes that are up.                                    *)
(***************************************************************************)
EXTENDS RayCluster, TLAPS, FiniteSetTheorems

DownHasNoSteps ==
  /\ ~Up => \A s \in Steps : step[s] = "off"
  /\ job \in {"off", "waiting"} => step[Box] = "off"

TriesLeft ==
  /\ job = "off" => \A n \in Nodes : tries[n] = 0
  /\ \A n \in Nodes :
       /\ Up /\ step[n] \in {"off", "booting"} => tries[n] = 0
       /\ step[n] \in {"trying", "up"} => tries[n] < NumRetries

TrapInTime == run >= 1 /\ (job = "running" => trap)

MembersAreUp ==
  ~env.lingers => \A m \in members : step[m[1]] = "up" /\ Raylet(m[1]) = m

ClusterInv == /\ TypeOK /\ DownHasNoSteps /\ TriesLeft /\ TrapInTime /\ MembersAreUp
              /\ NoPhantomEnd /\ InfoIsCurrent

-----------------------------------------------------------------------------
(* The steps *)

LEMMA InitCluster == Init => ClusterInv
<1> SUFFICES ASSUME Init PROVE ClusterInv
  OBVIOUS
<1>1. Box \in Steps /\ Nodes \subseteq Steps /\ ~Up
  BY DEF Init, Steps, Up
<1>2. TypeOK
  <2>1. tries \in [Nodes -> 0..NumRetries] /\ step = [s \in Steps |-> "off"] /\ env \in Environments
    BY BoundAssumption DEF Init
  <2>2. /\ run = 1 /\ job = "off" /\ code = 0 /\ members = {} /\ info = 0 /\ killed = {}
        /\ started = FALSE /\ ended = FALSE /\ trap = FALSE
    BY DEF Init
  <2>3. step \in [Steps -> {"off", "booting", "trying", "up", "gone"}]
    BY <2>1
  <2>4. {started, ended, trap} \subseteq BOOLEAN
    BY <2>2
  <2>5. run \in Nat /\ code \in {0, 1, 143} /\ info \in 0..run
    BY <2>2
  <2> QED BY <2>1, <2>2, <2>3, <2>4, <2>5 DEF TypeOK
<1> QED
  BY <1>1, <1>2
  DEF Init, ClusterInv, DownHasNoSteps, TriesLeft, TrapInTime, MembersAreUp, NoPhantomEnd,
      InfoIsCurrent

\* The job goes down: nothing of it is left but its files.
LEMMA GoesDown ==
  ASSUME ClusterInv, NoSteps, job' \in {"ended", "killed"}, UNCHANGED <<env, run, tries, started, trap>>,
         ended' \in BOOLEAN, code' \in {0, 1, 143}, killed' \subseteq 1..run,
         info' \in 0..run, info' # 0 => info' \in killed'
  PROVE  ClusterInv'
<1>1. TypeOK'
  BY DEF ClusterInv, TypeOK, NoSteps
<1>2. ~Up' /\ (\A s \in Steps : step'[s] = "off") /\ members' = {}
  BY DEF NoSteps, Up
<1>3. Box \in Steps /\ Nodes \subseteq Steps
  BY DEF Steps
<1> QED
  BY <1>1, <1>2, <1>3
  DEF ClusterInv, DownHasNoSteps, TriesLeft, TrapInTime, MembersAreUp, NoPhantomEnd,
      InfoIsCurrent, Up

LEMMA ExitsDown ==
  ASSUME ClusterInv, NEW c \in {0, 1, 143}, Exits(c), ended' \in BOOLEAN, job # "saved"
  PROVE  ClusterInv'
<1>1. info' \in 0..run /\ (info' # 0 => info' \in killed)
  BY DEF Exits, ClusterInv, TypeOK, TrapInTime, InfoIsCurrent
<1> QED BY <1>1, GoesDown DEF Exits, ClusterInv, TypeOK

\* A container or step of a job that is up changes, and with it what the head counts.
LEMMA StepChanges ==
  ASSUME ClusterInv, Up, NEW s \in Steps,
         NEW v \in {"booting", "trying", "up", "gone"}, step' = [step EXCEPT ![s] = v],
         UNCHANGED <<env, run, code, info, trap, killed>>,
         job' = job \/ (job = "waiting" /\ s = Box /\ job' = "spawning"),
         s = Box => job # "waiting" \/ job' # job,
         step[s] = "gone" => v = "gone",
         started' \in BOOLEAN,
         ended' = ended \/ (ended' = TRUE /\ v = "gone"),
         members' \subseteq Nodes \X (0..NumRetries), MembersAreUp',
         tries' \in [Nodes -> 0..NumRetries],
         \A n \in Nodes : n # s => tries'[n] = tries[n],
         s \in Nodes => /\ v = "booting" => tries'[s] = 0
                        /\ v \in {"trying", "up"} => tries'[s] < NumRetries
  PROVE  ClusterInv'
<1>1. Box \in Steps /\ Nodes \subseteq Steps /\ Box \notin Nodes
  BY StepAssumption DEF Steps, Nodes
<1>2. TypeOK'
  BY DEF ClusterInv, TypeOK
<1>3. Up' /\ job' # "off" /\ job # "off" /\ (job' = "running" => job = "running")
  BY DEF Up
<1>4. DownHasNoSteps'
  BY <1>1, <1>3 DEF ClusterInv, DownHasNoSteps, TypeOK
<1>5. TriesLeft'
  BY <1>1, <1>3 DEF ClusterInv, TriesLeft, TypeOK
<1>6. NoPhantomEnd'
  <2>1. Dead \subseteq Dead' /\ (v = "gone" => s \in Dead')
    BY DEF Dead, ClusterInv, TypeOK
  <2> QED BY <2>1, <1>3 DEF ClusterInv, NoPhantomEnd, Up
<1>7. InfoIsCurrent' /\ TrapInTime'
  BY DEF ClusterInv, InfoIsCurrent, TrapInTime, Up
<1> QED BY <1>2, <1>4, <1>5, <1>6, <1>7 DEF ClusterInv

\* Where nothing lingers, a raylet that goes is no longer counted.
LEMMA GoneIsForgotten ==
  ASSUME ClusterInv, NEW n \in Nodes, members' = Without(n), env' = env,
         \A u \in Nodes : u # n => step'[u] = step[u] /\ tries'[u] = tries[u]
  PROVE  MembersAreUp' /\ members' \subseteq Nodes \X (0..NumRetries)
<1>1. members' \subseteq members /\ members \subseteq Nodes \X (0..NumRetries)
  BY DEF Without, ClusterInv, TypeOK
<1>2. ASSUME ~env.lingers, NEW m \in members' PROVE step'[m[1]] = "up" /\ <<m[1], tries'[m[1]]>> = m
  <2>1. m[1] \in Nodes /\ step[m[1]] = "up" /\ Raylet(m[1]) = m
    BY <1>1, <1>2 DEF ClusterInv, MembersAreUp
  <2>2. m[1] # n
    BY <1>2, <2>1 DEF Without
  <2> QED BY <2>1, <2>2 DEF Raylet
<1> QED BY <1>1, <1>2 DEF MembersAreUp, Raylet

LEMMA NextCluster == ClusterInv /\ [Next]_vars => ClusterInv'
<1> SUFFICES ASSUME ClusterInv, [Next]_vars PROVE ClusterInv'
  OBVIOUS
<1>0. TypeOK /\ Head \in Nodes /\ Workers \subseteq Nodes /\ Nodes \subseteq Steps /\ Box \in Steps
      /\ Box \notin Nodes
  BY StepAssumption DEF ClusterInv, Nodes, Steps
<1>a. \A s \in Steps : step[s] # "off" => Up
  BY DEF ClusterInv, DownHasNoSteps
<1>1. CASE Begin
  <2>1. TypeOK' /\ Up' /\ ~Up
    BY <1>0, <1>1 DEF Begin, TypeOK, Up
  <2>2. (\A s \in Steps : step[s] = "off") /\ (\A n \in Nodes : tries[n] = 0)
    BY <1>1, <2>1 DEF Begin, ClusterInv, DownHasNoSteps, TriesLeft
  <2>3. DownHasNoSteps'
    BY <1>0, <1>1, <2>1, <2>2, StepAssumption DEF Begin, DownHasNoSteps, TypeOK
  <2>4. TriesLeft'
    BY <1>0, <1>1, <2>1, <2>2 DEF Begin, TriesLeft, TypeOK
  <2>5. MembersAreUp'
    <3>1. ~env.lingers => members = {}
      BY <1>0, <2>2 DEF ClusterInv, MembersAreUp, TypeOK
    <3> QED BY <1>1, <3>1 DEF Begin, MembersAreUp
  <2> QED
    BY <1>1, <2>1, <2>3, <2>4, <2>5
    DEF Begin, ClusterInv, TrapInTime, NoPhantomEnd, InfoIsCurrent
<1>2. CASE StartSandbox
  <2>1. MembersAreUp'
    BY <1>0, <1>2 DEF StartSandbox, MembersAreUp, ClusterInv, TypeOK, Raylet
  <2>2. CASE env.sandbox
    <3>1. step[Box] = "off" /\ Up
      BY <1>2 DEF StartSandbox, ClusterInv, DownHasNoSteps, Up
    <3> QED
      BY <1>0, <1>2, <2>1, <2>2, <3>1, StepChanges DEF StartSandbox, files, TypeOK
  <2>3. CASE ~env.sandbox
    BY <1>2, <2>3, <2>1
    DEF StartSandbox, files, ClusterInv, TypeOK, DownHasNoSteps, TriesLeft, TrapInTime,
        NoPhantomEnd, InfoIsCurrent, Up, Dead
  <2> QED BY <2>2, <2>3
<1>3. CASE HeadTimeout
  BY <1>3, ExitsDown DEF HeadTimeout
<1>4. ASSUME NEW w \in Workers, SpawnWorker(w) PROVE ClusterInv'
  <2>1. Up /\ tries[w] = 0
    BY <1>0, <1>4 DEF SpawnWorker, Up, ClusterInv, TriesLeft
  <2>2. MembersAreUp'
    BY <1>0, <1>4 DEF SpawnWorker, MembersAreUp, ClusterInv, TypeOK, Raylet
  <2>3. /\ w \in Steps /\ w \in Nodes /\ w # Box /\ 0 < NumRetries
        /\ started' \in BOOLEAN /\ ended' = ended /\ tries' = tries /\ members' = members
        /\ tries \in [Nodes -> 0..NumRetries] /\ members \subseteq Nodes \X (0..NumRetries)
        /\ step' = [step EXCEPT ![w] = "trying"] /\ step[w] # "gone"
        /\ UNCHANGED <<env, run, job, code, info, trap, killed>>
    BY <1>0, <1>4, BoundAssumption DEF SpawnWorker, files, TypeOK
  <2> QED BY <2>1, <2>2, <2>3, StepChanges
<1>5. CASE Spawned \/ SaveInfo \/ Launch
  <2>1. /\ UNCHANGED <<env, run, code, step, tries, members, started, ended, killed>>
        /\ Up /\ Up' /\ job' \in {"polling", "saved", "running"} /\ job # "waiting"
        /\ (trap' = trap \/ trap' = TRUE) /\ info' \in {info, run}
        /\ info' = run => job' \in {"saved", "running"} \/ info' = info
    BY <1>5 DEF Spawned, SaveInfo, Launch, Up, files
  <2>6. {started, ended, trap}' \subseteq BOOLEAN /\ run \in Nat
    BY <1>0, <2>1 DEF TypeOK
  <2>7. info' \in 0..run
    BY <1>0, <2>1, <2>6 DEF TypeOK
  <2>2. TypeOK'
    BY <1>0, <2>1, <2>6, <2>7 DEF TypeOK
  <2>4. DownHasNoSteps' /\ MembersAreUp' /\ NoPhantomEnd'
    BY <2>1 DEF ClusterInv, DownHasNoSteps, MembersAreUp, NoPhantomEnd, Dead, Raylet, Up
  <2>5. TriesLeft'
    BY <2>1 DEF ClusterInv, TriesLeft, Up
  <2>3. TrapInTime' /\ InfoIsCurrent'
    BY <1>5 DEF Spawned, SaveInfo, Launch, files, ClusterInv, TrapInTime, InfoIsCurrent
  <2> QED BY <2>2, <2>3, <2>4, <2>5 DEF ClusterInv
<1>6. CASE CheckSruns
  BY <1>6, ExitsDown DEF CheckSruns
<1>7. CASE DriverEnds
  BY <1>0, <1>7, ExitsDown DEF DriverEnds, TypeOK
<1>8. CASE HeadBoots
  <2>1. Up /\ tries[Head] = 0
    BY <1>0, <1>a, <1>8 DEF HeadBoots, ClusterInv, TriesLeft
  <2>2. MembersAreUp'
    BY <1>0, <1>8 DEF HeadBoots, MembersAreUp, ClusterInv, TypeOK, Raylet
  <2>3. /\ Head \in Steps /\ Head # Box /\ 0 < NumRetries
        /\ started' \in BOOLEAN /\ ended' = ended /\ tries' = tries /\ members' = members
        /\ tries \in [Nodes -> 0..NumRetries] /\ members \subseteq Nodes \X (0..NumRetries)
        /\ step' = [step EXCEPT ![Head] = "trying"] /\ step[Head] # "gone"
        /\ UNCHANGED <<env, run, job, code, info, trap, killed>>
    BY <1>0, <1>8, BoundAssumption DEF HeadBoots, TypeOK
  <2> QED BY <1>0, <2>1, <2>2, <2>3, StepChanges
<1>9. ASSUME NEW n \in Nodes, Serve(n) PROVE ClusterInv'
  <2>1. Up /\ tries[n] < NumRetries /\ tries[n] \in 0..NumRetries
    BY <1>0, <1>a, <1>9 DEF Serve, ClusterInv, TriesLeft, TypeOK
  <2>2. MembersAreUp'
    BY <1>0, <1>9 DEF Serve, MembersAreUp, ClusterInv, TypeOK, Raylet
  <2>3. members' \subseteq Nodes \X (0..NumRetries)
    BY <1>0, <1>9, <2>1 DEF Serve, Raylet, TypeOK
  <2> QED
    BY <1>0, <1>9, <2>1, <2>2, <2>3, StepChanges DEF Serve, files, TypeOK
<1>10. ASSUME NEW n \in Nodes, Fails(n) PROVE ClusterInv'
  <2> DEFINE last == tries[n] + 1 >= NumRetries
             v == IF last THEN "gone" ELSE "trying"
  <2>1. Up /\ tries[n] < NumRetries /\ tries[n] \in 0..NumRetries /\ step[n] # "gone"
    BY <1>0, <1>a, <1>10 DEF Fails, ClusterInv, TriesLeft, TypeOK
  <2>2. /\ step' = [step EXCEPT ![n] = v]
        /\ tries' = [tries EXCEPT ![n] = tries[n] + 1]
        /\ members' = Without(n) /\ ended' = (ended \/ last)
        /\ UNCHANGED <<env, run, job, code, started, info, trap, killed>>
    BY <1>10 DEF Fails
  <2>3. tries' \in [Nodes -> 0..NumRetries] /\ (v = "trying" => tries'[n] < NumRetries)
    BY <1>0, <2>1, <2>2, BoundAssumption DEF TypeOK
  <2>4. MembersAreUp' /\ members' \subseteq Nodes \X (0..NumRetries)
    BY <1>0, <2>2, GoneIsForgotten DEF TypeOK
  <2>5. ended' = ended \/ (ended' = TRUE /\ v = "gone")
    BY <1>0, <2>2 DEF TypeOK
  <2>6. v \in {"trying", "gone"} /\ n # Box
    BY <1>0
  <2>7. /\ \A u \in Nodes : u # n => tries'[u] = tries[u]
        /\ started' \in BOOLEAN
    BY <1>0, <2>2 DEF TypeOK
  <2> HIDE DEF v, last
  <2> QED BY <1>0, <2>1, <2>2, <2>3, <2>4, <2>5, <2>6, <2>7, StepChanges
<1>11. ASSUME NEW s \in Steps,
              step[s] \in {"booting", "trying", "up"},
              step' = [step EXCEPT ![s] = "gone"],
              members' = IF s = Box THEN members ELSE Without(s),
              UNCHANGED <<env, run, job, code, tries, files, trap, killed>>
       PROVE  ClusterInv'
  <2>1. Up /\ (s = Box => job # "waiting")
    BY <1>a, <1>11 DEF ClusterInv, DownHasNoSteps
  <2>2. MembersAreUp' /\ members' \subseteq Nodes \X (0..NumRetries)
    <3>1. CASE s = Box
      BY <1>0, <1>11, <3>1 DEF MembersAreUp, ClusterInv, TypeOK, Raylet
    <3>2. CASE s # Box
      <4>1. s \in Nodes
        BY <3>2 DEF Steps
      <4> QED BY <1>0, <1>11, <3>2, <4>1, GoneIsForgotten DEF TypeOK
    <3> QED BY <3>1, <3>2
  <2>3. /\ started' \in BOOLEAN /\ ended' = ended /\ tries' = tries
        /\ tries \in [Nodes -> 0..NumRetries]
        /\ UNCHANGED <<env, run, job, code, info, trap, killed>>
    BY <1>0, <1>11 DEF files, TypeOK
  <2> QED BY <1>11, <2>1, <2>2, <2>3, StepChanges
<1>12. ASSUME NEW n \in Nodes, Sidecar(n) PROVE ClusterInv'
  BY <1>0, <1>11, <1>12 DEF Sidecar
<1>13. ASSUME NEW s \in Steps, StepDies(s) PROVE ClusterInv'
  BY <1>11, <1>13 DEF StepDies
<1>14. CASE Forget
  <2>1. members' \subseteq members /\ UNCHANGED <<env, run, job, code, step, tries, files, trap, killed>>
    BY <1>14 DEF Forget
  <2> QED
    BY <2>1
    DEF ClusterInv, TypeOK, DownHasNoSteps, TriesLeft, TrapInTime, MembersAreUp, NoPhantomEnd,
        InfoIsCurrent, Dead, Raylet, Up, files
<1>15. CASE HeadSidecarKillsSruns
  <2>1. ended = TRUE /\ ended' = TRUE /\ Up /\ step[Head] \in {"trying", "up"}
    BY <1>0, <1>a, <1>15 DEF HeadSidecarKillsSruns, TypeOK
  <2>2. CASE job # "saved" /\ Exits(143)
    BY <2>1, <2>2, ExitsDown
  <2>3. CASE /\ step' = [s \in Steps |-> IF step[s] = "off" THEN "off" ELSE "gone"]
             /\ members' = {}
             /\ UNCHANGED <<env, run, job, code, tries, started, info, trap, killed>>
    <3>1. TypeOK' /\ Up' /\ job # "off"
      BY <1>0, <2>1, <2>3 DEF TypeOK, Up
    <3>2. Head \in Dead'
      BY <1>0, <2>1, <2>3 DEF Dead
    <3>3. DownHasNoSteps' /\ TriesLeft' /\ MembersAreUp'
      BY <1>0, <2>1, <2>3, <3>1 DEF ClusterInv, DownHasNoSteps, TriesLeft, MembersAreUp, Up
    <3> QED
      BY <2>3, <3>1, <3>2, <3>3 DEF ClusterInv, TrapInTime, NoPhantomEnd, InfoIsCurrent
  <2> QED BY <1>15, <2>2, <2>3 DEF HeadSidecarKillsSruns
<1>16. CASE Kill
  <2>2. run >= 1
    BY DEF ClusterInv, TrapInTime
  <2>3. killed' \subseteq 1..run /\ (info # 0 => info \in killed')
    BY <1>0, <1>16, <2>2 DEF Kill, TypeOK, ClusterInv, InfoIsCurrent
  <2> QED BY <1>0, <1>16, <2>3, GoesDown DEF Kill, files, TypeOK
<1>17. CASE Requeue
  <2>1. /\ run' = run + 1 /\ job' = "off" /\ ~Up /\ ~Up' /\ code' = 0 /\ trap' = FALSE
        /\ tries' = [n \in Nodes |-> 0] /\ UNCHANGED <<env, step, members, files, killed>>
        /\ job \in {"ended", "killed"}
    BY <1>17 DEF Requeue, Up
  <2>2. \A s \in Steps : step[s] = "off"
    BY <2>1 DEF ClusterInv, DownHasNoSteps
  <2>3. ~env.lingers => members = {}
    BY <1>0, <2>2 DEF ClusterInv, MembersAreUp, TypeOK
  <2>6. run \in Nat /\ 0..run \subseteq 0..(run + 1) /\ 1..run \subseteq 1..(run + 1)
    BY <1>0 DEF TypeOK
  <2>7. tries' \in [Nodes -> 0..NumRetries]
    BY <2>1, BoundAssumption
  <2>8. {started, ended, trap}' \subseteq BOOLEAN
    BY <1>0, <2>1 DEF TypeOK, files
  <2>9. info' \in 0..run' /\ killed' \subseteq 1..run'
    BY <1>0, <2>1, <2>6 DEF TypeOK, files
  <2>4. TypeOK'
    BY <1>0, <2>1, <2>6, <2>7, <2>8, <2>9 DEF TypeOK
  <2>5. DownHasNoSteps' /\ TriesLeft' /\ MembersAreUp'
    BY <1>0, <2>1, <2>2, <2>3 DEF DownHasNoSteps, TriesLeft, MembersAreUp
  <2> QED
    BY <2>1, <2>4, <2>5, <2>6 DEF ClusterInv, TrapInTime, NoPhantomEnd, InfoIsCurrent, files
<1>18. CASE UNCHANGED vars
  BY <1>18
  DEF vars, files, ClusterInv, TypeOK, DownHasNoSteps, TriesLeft, TrapInTime, MembersAreUp,
      NoPhantomEnd, InfoIsCurrent, Dead, Raylet, Up
<1> QED
  BY <1>1, <1>2, <1>3, <1>4, <1>5, <1>6, <1>7, <1>8, <1>9, <1>10, <1>12, <1>13, <1>14, <1>15,
     <1>16, <1>17, <1>18
  DEF Next, Script, Container

\* The inductive invariant of the job.
THEOREM ClusterInvariant == Spec => []ClusterInv
BY InitCluster, NextCluster, PTL DEF Spec

\* Every variable keeps its type; no container tries more often than it may
\* (lines 293-305).
THEOREM ClusterTypes == Spec => []TypeOK
<1>1. ClusterInv => TypeOK
  BY DEF ClusterInv
<1> QED BY <1>1, ClusterInvariant, PTL

\* No run of the job takes an earlier run's ENDED for its own (lines 90-92).
THEOREM OwnMarkers == Spec => []NoPhantomEnd
<1>1. ClusterInv => NoPhantomEnd
  BY DEF ClusterInv
<1> QED BY <1>1, ClusterInvariant, PTL

\* The cluster info file is this run's, or a killed one's (lines 441-455).
THEOREM OwnInfo == Spec => []InfoIsCurrent
<1>1. ClusterInv => InfoIsCurrent
  BY DEF ClusterInv
<1> QED BY <1>1, ClusterInvariant, PTL

-----------------------------------------------------------------------------
(* The whole cluster *)

\* Where nothing lingers, as many raylets as nodes are one of each node.
LEMMA AllAreUp ==
  ASSUME ClusterInv, ~env.lingers, AllConnected
  PROVE  \A n \in Nodes : step[n] = "up"
<1> DEFINE N == {m[1] : m \in members}
           f == [m \in members |-> m[1]]
<1>1. IsFiniteSet(Nodes)
  BY StepAssumption, FS_AddElement, FS_Union, FS_Singleton DEF Nodes
<1>2. \A m \in members : m[1] \in Nodes /\ step[m[1]] = "up" /\ m = <<m[1], tries[m[1]]>>
  BY DEF ClusterInv, TypeOK, MembersAreUp, Raylet
<1>3. N \subseteq Nodes
  BY <1>2
<1>4. IsFiniteSet(N) /\ Cardinality(N) <= Cardinality(Nodes)
  BY <1>1, <1>3, FS_Subset
<1>5. f \in Injection(members, N)
  <2>1. f \in [members -> N]
    OBVIOUS
  <2>2. \A a, b \in members : f[a] = f[b] => a = b
    BY <1>2
  <2> HIDE DEF N, f
  <2> QED BY <2>1, <2>2 DEF Injection, IsInjective
<1>6. Cardinality(N) = Cardinality(Nodes)
  <2>1. Cardinality(members) <= Cardinality(N) /\ Cardinality(members) = Cardinality(Nodes)
    BY <1>4, <1>5, FS_Injection DEF AllConnected
  <2>2. Cardinality(N) \in Nat /\ Cardinality(Nodes) \in Nat
    BY <1>1, <1>4, FS_CardinalityType
  <2> QED BY <1>4, <2>1, <2>2
<1>7. N = Nodes
  BY <1>1, <1>3, <1>6, FS_Subset
<1> QED BY <1>2, <1>7

\* Unless Ray counts raylets that are gone, the script goes on only at a moment
\* when every node is in the cluster (lines 423-438).
THEOREM WholeCluster == Spec => EveryNodeConnected
<1> DEFINE Whole == job = "polling" /\ job' = "saved" /\ ~env.lingers => \A n \in Nodes : step[n] = "up"
<1>1. ClusterInv /\ [Next]_vars => [Whole]_vars
  <2> SUFFICES ASSUME ClusterInv, [Next]_vars, job = "polling", job' = "saved", ~env.lingers
               PROVE  \A n \in Nodes : step[n] = "up"
    OBVIOUS
  <2>1. SaveInfo
    BY DEF Next, Script, Container, Begin, StartSandbox, SpawnWorker, Spawned, CheckSruns, Launch,
           HeadTimeout, DriverEnds, Exits, HeadBoots, HeadSidecarKillsSruns, Serve, Fails, Sidecar,
           Forget, StepDies, Kill, Requeue, vars
  <2> QED BY <2>1, AllAreUp DEF SaveInfo
<1> QED BY <1>1, ClusterInvariant, PTL DEF Spec, EveryNodeConnected
=============================================================================
