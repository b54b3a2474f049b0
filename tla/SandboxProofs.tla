---------------------------- MODULE SandboxProofs ----------------------------
(***************************************************************************)
(* The load balancer's servers are the workers' ports, and a worker that   *)
(* counts as ready is listening, for any nodes, workers, retries and       *)
(* foreign services.  Both rest on ports of a node being apart: a retry    *)
(* moves a worker by a whole PORT_INCREMENT, so no node may have more      *)
(* workers than that.                                                      *)
(***************************************************************************)
EXTENDS Sandbox, FiniteSetTheorems, TLAPS

RangeTop == Base + NumWorkers - 1 + MaxRetries * Increment

-----------------------------------------------------------------------------
(* Ports *)

LEMMA Numbers ==
  /\ NumWorkers \in Nat \ {0} /\ Base \in Nat \ {0} /\ Increment \in Nat \ {0} /\ MaxRetries \in Nat
  /\ StackDepth \in Nat /\ MaxDeaths \in Nat
  /\ \A w \in Workers : w \in Nat /\ 1 <= w /\ w <= NumWorkers
BY PortAssumption DEF Workers

LEMMA TimesGrows ==
  ASSUME NEW a \in Nat, NEW b \in Nat, NEW n \in Nat, a <= b
  PROVE  a * n <= b * n /\ a * n \in Nat /\ (a + 1) * n = a * n + n
<1>1. (b - a) * n >= 0
  OBVIOUS
<1>2. (b - a) * n = b * n - a * n
  OBVIOUS
<1> QED BY <1>1, <1>2

\* The k-th port of a worker.
PortAt(w, k) == InitialPort(w) + k * Increment

LEMMA PortAtRange ==
  ASSUME NEW w \in Workers, NEW k \in 0..MaxRetries
  PROVE  PortAt(w, k) \in Base..RangeTop /\ PortAt(w, k) \in Nat
<1>1. k \in Nat /\ k <= MaxRetries /\ MaxRetries \in Nat /\ Increment \in Nat
  BY Numbers
<1>2. k * Increment <= MaxRetries * Increment /\ k * Increment \in Nat /\ MaxRetries * Increment \in Nat
  BY <1>1, TimesGrows
<1> DEFINE a == k * Increment
           b == MaxRetries * Increment
<1>3. a \in Nat /\ b \in Nat /\ a <= b
  BY <1>2
<1> HIDE DEF a, b
<1>4. InitialPort(w) + a \in Base..(Base + NumWorkers - 1 + b) /\ InitialPort(w) + a \in Nat
  BY <1>3, Numbers DEF InitialPort
<1> QED BY <1>4 DEF a, b, PortAt, RangeTop

\* Different workers of a node never come to the same port.
LEMMA PortsApart ==
  ASSUME NumWorkers <= Increment, NEW w \in Workers, NEW v \in Workers, w # v,
         NEW a \in 0..MaxRetries, NEW b \in 0..MaxRetries
  PROVE  PortAt(w, a) # PortAt(v, b)
<1>1. ASSUME NEW x \in Workers, NEW y \in Workers, NEW i \in Nat, NEW j \in Nat, i < j
      PROVE  PortAt(x, i) < PortAt(y, j)
  <2>1. (i + 1) * Increment <= j * Increment /\ (i + 1) * Increment = i * Increment + Increment
        /\ i * Increment \in Nat /\ j * Increment \in Nat
    BY <1>1, TimesGrows, Numbers
  <2> DEFINE m == i * Increment
             n == j * Increment
  <2>2. m \in Nat /\ n \in Nat /\ m + Increment <= n
    BY <2>1
  <2> HIDE DEF m, n
  <2>3. InitialPort(x) + m < InitialPort(y) + n
    BY <2>2, Numbers DEF InitialPort
  <2> QED BY <2>3 DEF m, n, PortAt
<1>2. a \in Nat /\ b \in Nat
  BY Numbers
<1>3. CASE a = b
  <2> DEFINE m == a * Increment
  <2>1. m \in Nat
    BY <1>2, TimesGrows, Numbers
  <2> HIDE DEF m
  <2>2. InitialPort(w) + m # InitialPort(v) + m
    BY <2>1, Numbers DEF InitialPort
  <2> QED BY <1>3, <2>2 DEF PortAt, m
<1>4. CASE a < b
  <2>1. PortAt(w, a) < PortAt(v, b)
    BY <1>1, <1>2, <1>4
  <2> QED BY <1>2, <2>1, PortAtRange
<1>5. CASE b < a
  <2>1. PortAt(v, b) < PortAt(w, a)
    BY <1>1, <1>2, <1>5
  <2> QED BY <1>2, <2>1, PortAtRange
<1> QED BY <1>2, <1>3, <1>4, <1>5

-----------------------------------------------------------------------------
(* Types *)

\* A worker's port is one of those it may try.
PortsTried == port \in [Nodes -> [Workers -> Nat]]
              /\ \A n \in Nodes, w \in Workers : \E k \in 0..MaxRetries : port[n][w] = PortAt(w, k)

Types ==
  /\ script \in [Nodes -> {"off", "probing", "checking", "collecting", "verifying", "balanced",
                           "monitoring", "cleaning", "ended"}]
  /\ status \in [Nodes -> {0, 1, 139}]
  /\ proc \in [Nodes -> [Workers -> {"booting", "listening", "dead"}]]
  /\ conflict \in [Nodes -> SUBSET Workers] /\ ready \in [Nodes -> SUBSET Workers]
  /\ retries \in [Nodes -> 0..MaxRetries]
  /\ report \in [Nodes -> [Workers -> Nat] \cup {NoReport}]
  /\ upstream \subseteq Nodes \X Nat
  /\ nginx \in SUBSET Nodes /\ preload \in SUBSET Nodes
  /\ depth \in [Nodes -> Nat] /\ deaths \in 0..MaxDeaths
  /\ PortsTried

\* What a set of workers is spawned on stays in their range.
LEMMA SpawnTypes ==
  ASSUME Types, NEW n \in Nodes, NEW W \in SUBSET Workers, NEW at, Spawn(n, W, at),
         \A w \in W : \E k \in 0..MaxRetries : at[w] = PortAt(w, k)
  PROVE  /\ PortsTried'
         /\ proc' \in [Nodes -> [Workers -> {"booting", "listening", "dead"}]]
         /\ conflict' \in [Nodes -> SUBSET Workers]
         /\ \A m \in Nodes \ {n} : port'[m] = port[m] /\ proc'[m] = proc[m] /\ conflict'[m] = conflict[m]
         /\ \A w \in W : port'[n][w] = at[w] /\ proc'[n][w] = "booting"
         /\ \A w \in Workers \ W : port'[n][w] = port[n][w] /\ proc'[n][w] = proc[n][w]
         /\ conflict'[n] = conflict[n] \ W
<1>1. /\ port \in [Nodes -> [Workers -> Nat]] /\ proc \in [Nodes -> [Workers -> {"booting", "listening", "dead"}]]
      /\ conflict \in [Nodes -> SUBSET Workers]
      /\ \A m \in Nodes, w \in Workers : \E k \in 0..MaxRetries : port[m][w] = PortAt(w, k)
  BY DEF Types, PortsTried
<1> DEFINE ports == [w \in Workers |-> IF w \in W THEN at[w] ELSE port[n][w]]
           procs == [w \in Workers |-> IF w \in W THEN "booting" ELSE proc[n][w]]
<1>2. /\ port' = [port EXCEPT ![n] = ports] /\ proc' = [proc EXCEPT ![n] = procs]
      /\ conflict' = [conflict EXCEPT ![n] = conflict[n] \ W]
  BY DEF Spawn
<1>3. \A w \in W : at[w] \in Nat
  BY PortAtRange
<1>4. /\ ports \in [Workers -> Nat] /\ procs \in [Workers -> {"booting", "listening", "dead"}]
      /\ \A w \in W : ports[w] = at[w] /\ procs[w] = "booting"
      /\ \A w \in Workers \ W : ports[w] = port[n][w] /\ procs[w] = proc[n][w]
  BY <1>1, <1>3
<1> HIDE DEF ports, procs
<1>5. /\ port' \in [Nodes -> [Workers -> Nat]]
      /\ proc' \in [Nodes -> [Workers -> {"booting", "listening", "dead"}]]
      /\ conflict' \in [Nodes -> SUBSET Workers]
      /\ port'[n] = ports /\ proc'[n] = procs /\ conflict'[n] = conflict[n] \ W
      /\ \A m \in Nodes \ {n} : port'[m] = port[m] /\ proc'[m] = proc[m] /\ conflict'[m] = conflict[m]
  BY <1>1, <1>2, <1>4
<1>6. \A m \in Nodes, w \in Workers : \E k \in 0..MaxRetries : port'[m][w] = PortAt(w, k)
  <2> TAKE m \in Nodes, w \in Workers
  <2>1. CASE m = n /\ w \in W
    BY <1>4, <1>5, <2>1
  <2>2. CASE ~(m = n /\ w \in W)
    <3>1. port'[m][w] = port[m][w]
      BY <1>4, <1>5, <2>2
    <3> QED BY <1>1, <3>1
  <2> QED BY <2>1, <2>2
<1> QED BY <1>4, <1>5, <1>6 DEF PortsTried

LEMMA Initially == ASSUME NEW w \in Workers PROVE InitialPort(w) = PortAt(w, 0) /\ 0 \in 0..MaxRetries
BY Numbers DEF InitialPort, PortAt

LEMMA RetryAt ==
  ASSUME NEW n \in Nodes, NEW w \in Workers, retries[n] \in 0..MaxRetries, retries[n] < MaxRetries
  PROVE  RetryPort(n, w) = PortAt(w, retries[n] + 1) /\ retries[n] + 1 \in 0..MaxRetries
BY Numbers DEF RetryPort, PortAt

LEMMA InitTypes == Init => Types
<1> SUFFICES ASSUME Init PROVE Types
  OBVIOUS
<1>1. \A w \in Workers : InitialPort(w) \in Nat
  BY Initially, PortAtRange
<1>2. port \in [Nodes -> [Workers -> Nat]] /\ \A n \in Nodes, w \in Workers : port[n][w] = InitialPort(w)
  BY <1>1 DEF Init
<1>3. PortsTried
  BY <1>2, Initially DEF PortsTried
<1>4. report \in [Nodes -> [Workers -> Nat] \cup {NoReport}]
  BY <1>2 DEF Init
<1>5. 0 \in 0..MaxRetries /\ 0 \in 0..MaxDeaths
  BY Numbers
<1> QED BY <1>3, <1>4, <1>5 DEF Init, Types

LEMMA NextTypes == Types /\ [Next]_vars => Types'
<1> SUFFICES ASSUME Types, [Next]_vars PROVE Types'
  OBVIOUS
<1>1. ASSUME NEW n \in Nodes, Start(n) PROVE Types'
  <2> DEFINE at == [w \in Workers |-> InitialPort(w)]
  <2>1. Spawn(n, Workers, at) /\ \A w \in Workers : \E k \in 0..MaxRetries : at[w] = PortAt(w, k)
    BY <1>1, Initially DEF Start
  <2> HIDE DEF at
  <2>2. /\ PortsTried' /\ conflict' \in [Nodes -> SUBSET Workers]
        /\ proc' \in [Nodes -> [Workers -> {"booting", "listening", "dead"}]]
    BY <2>1, SpawnTypes
  <2> QED BY <1>1, <2>2 DEF Start, Types, Goes, startVars, nginxVars
<1>2. ASSUME NEW n \in Nodes, Probe(n) PROVE Types'
  <2>1. CASE script'[n] = "checking" /\ Goes(n, "checking") /\ UNCHANGED <<workerVars, retries>>
    BY <1>2, <2>1 DEF Probe, Types, Goes, workerVars, nginxVars, PortsTried
  <2>2. CASE /\ retries[n] < MaxRetries /\ UNCHANGED script
             /\ Spawn(n, Conflicted(n), [w \in Workers |-> RetryPort(n, w)])
             /\ retries' = [retries EXCEPT ![n] = @ + 1]
    <3> DEFINE at == [w \in Workers |-> RetryPort(n, w)]
    <3>1. Conflicted(n) \in SUBSET Workers /\ retries[n] \in 0..MaxRetries
      BY DEF Conflicted, Types
    <3>2. \A w \in Conflicted(n) : \E k \in 0..MaxRetries : at[w] = PortAt(w, k)
      BY <2>2, <3>1, RetryAt
    <3>3. Spawn(n, Conflicted(n), at)
      BY <2>2
    <3> HIDE DEF at
    <3>4. /\ PortsTried' /\ conflict' \in [Nodes -> SUBSET Workers]
          /\ proc' \in [Nodes -> [Workers -> {"booting", "listening", "dead"}]]
      BY <3>1, <3>2, <3>3, SpawnTypes
    <3>5. retries' \in [Nodes -> 0..MaxRetries]
      BY <2>2, <3>1, Numbers DEF Types
    <3> QED BY <1>2, <2>2, <3>4, <3>5 DEF Probe, Types, nginxVars
  <2>3. retries[n] \in 0..MaxRetries /\ MaxRetries \in Nat
    BY Numbers DEF Types
  <2> QED BY <1>2, <2>1, <2>2, <2>3 DEF Probe, Goes, Types
<1>3. ASSUME NEW n \in Nodes, NEW w \in Workers, Restart(n, w) PROVE Types'
  <2>1. Spawn(n, {w}, port[n]) /\ \A v \in {w} : \E k \in 0..MaxRetries : port[n][v] = PortAt(v, k)
    BY <1>3 DEF Restart, Types, PortsTried
  <2>2. {w} \in SUBSET Workers
    OBVIOUS
  <2>3. /\ PortsTried' /\ conflict' \in [Nodes -> SUBSET Workers]
        /\ proc' \in [Nodes -> [Workers -> {"booting", "listening", "dead"}]]
    BY <2>1, <2>2, SpawnTypes
  <2> QED BY <1>3, <2>3 DEF Restart, Types, startVars, nginxVars
<1>4. ASSUME NEW n \in Nodes, NEW w \in Workers, Bind(n, w) PROVE Types'
  BY <1>4 DEF Bind, Types, startVars, nginxVars, PortsTried
<1>5. ASSUME NEW n \in Nodes, NEW w \in Workers, Die(n, w) PROVE Types'
  <2>1. deaths' \in 0..MaxDeaths
    BY <1>5, Numbers DEF Die, Types
  <2> QED BY <1>5, <2>1 DEF Die, Types, startVars, nginxVars, PortsTried
<1>7. ASSUME NEW n \in Nodes, NEW w \in Workers, CheckHealth(n, w) PROVE Types'
  BY <1>7 DEF CheckHealth, Types, workerVars, nginxVars, PortsTried
<1>8. ASSUME NEW n \in Nodes, AllReady(n) PROVE Types'
  <2>1. report' \in [Nodes -> [Workers -> Nat] \cup {NoReport}]
    BY <1>8 DEF AllReady, Reported, Types, PortsTried
  <2> QED BY <1>8, <2>1 DEF AllReady, Goes, Types, workerVars, startVars, nginxVars, PortsTried
<1>9. CASE Collect
  <2>1. Servers \subseteq Nodes \X Nat
    <3>1. CASE MultiNode
      <4>1. \A n \in Nodes : report[n] \in [Workers -> Nat]
        BY <1>9, <3>1 DEF Collect, Types
      <4>2. Servers = {<<n, report[n][w]>> : n \in Nodes, w \in Workers}
        BY <3>1 DEF Servers
      <4> QED BY <4>1, <4>2
    <3>2. CASE ~MultiNode
      <4>1. port[Master] \in [Workers -> Nat]
        BY NodeAssumption DEF Types, PortsTried
      <4>2. Servers = {<<Master, port[Master][w]>> : w \in Workers}
        BY <3>2 DEF Servers
      <4> QED BY <4>1, <4>2, NodeAssumption
    <3> QED BY <3>1, <3>2
  <2>2. upstream' \subseteq Nodes \X Nat
    BY <1>9, <2>1 DEF Collect
  <2>3. script' = [script EXCEPT ![Master] = "verifying"]
        /\ UNCHANGED <<status, workerVars, startVars, report, nginxVars, depth, deaths>>
    BY <1>9 DEF Collect, Goes
  <2> QED BY <2>2, <2>3 DEF Types, workerVars, startVars, nginxVars, PortsTried
<1>10. CASE Verify
  BY <1>10 DEF Verify, Goes, Types, workerVars, startVars, nginxVars, PortsTried
<1>11. ASSUME NEW n \in Nodes, StartNginx(n) PROVE Types'
  BY <1>11 DEF StartNginx, Goes, Types, workerVars, startVars, PortsTried
<1>12. ASSUME NEW n \in Nodes, TimeOut(n) PROVE Types'
  BY <1>12 DEF TimeOut, Exits, Goes, Types, startVars, nginxVars, PortsTried
<1>6. ASSUME NEW n \in Nodes, Terminate(n) PROVE Types'
  BY <1>6 DEF Terminate, Goes, Types, workerVars, startVars, nginxVars, PortsTried
<1>13. ASSUME NEW n \in Nodes, NoticeNginx(n) PROVE Types'
  BY <1>13 DEF NoticeNginx, Goes, Types, workerVars, startVars, nginxVars, PortsTried
<1>14. ASSUME NEW n \in Nodes, Cleanup(n) PROVE Types'
  <2>1. /\ script' \in [Nodes -> {"off", "probing", "checking", "collecting", "verifying", "balanced",
                                 "monitoring", "cleaning", "ended"}]
        /\ status' \in [Nodes -> {0, 1, 139}]
    <3>1. CASE depth[n] >= StackDepth
      <4>1. script' = [script EXCEPT ![n] = "ended"] /\ status' = [status EXCEPT ![n] = 139]
        BY <1>14, <3>1 DEF Cleanup, Exits, Goes
      <4> QED BY <4>1 DEF Types
    <3>2. CASE ~(depth[n] >= StackDepth)
      BY <1>14, <3>2 DEF Cleanup, Types
    <3> QED BY <3>1, <3>2
  <2>2. nginx' \in SUBSET Nodes /\ depth' \in [Nodes -> Nat]
    BY <1>14 DEF Cleanup, Types
  <2>3. proc' \in [Nodes -> [Workers -> {"booting", "listening", "dead"}]]
    BY <1>14 DEF Cleanup, Types
  <2> QED BY <1>14, <2>1, <2>2, <2>3 DEF Cleanup, Types, startVars, PortsTried
<1>15. ASSUME NEW n \in Nodes, NginxDies(n) PROVE Types'
  BY <1>15 DEF NginxDies, Types, workerVars, startVars, PortsTried
<1>16. CASE UNCHANGED vars
  BY <1>16 DEF vars, Types, workerVars, startVars, nginxVars, PortsTried
<1> QED BY <1>1, <1>2, <1>3, <1>4, <1>5, <1>6, <1>7, <1>8, <1>9, <1>10, <1>11, <1>12, <1>13, <1>14, <1>15, <1>16
  DEF Next, Script

THEOREM TypesInvariant == Spec => []Types
BY InitTypes, NextTypes, PTL DEF Spec

\* The type invariant: a port stays within the retries a worker has.
THEOREM TypesHold == Spec => []TypeOK
<1>1. Types => TypeOK
  <2> SUFFICES ASSUME Types PROVE TypeOK
    OBVIOUS
  <2>1. \A n \in Nodes, w \in Workers : port[n][w] \in Base..RangeTop
    BY PortAtRange DEF Types, PortsTried
  <2>2. port \in [Nodes -> [Workers -> Base..RangeTop]]
    BY <2>1 DEF Types, PortsTried
  <2>3. \A n \in Nodes : report[n] # NoReport => report[n] \in [Workers -> Nat]
    BY DEF Types
  <2> QED BY <2>2, <2>3 DEF Types, TypeOK, RangeTop
<1> QED BY <1>1, TypesInvariant, PTL

-----------------------------------------------------------------------------
(* A ready worker listens *)

Lost(n, w) == proc[n][w] = "dead" /\ w \in conflict[n]

\* Where a worker's search for a port stands.
Found(n) ==
  /\ script[n] = "off" => retries[n] = 0
  /\ script[n] \in {"off", "probing", "checking"} => n \notin preload
  /\ script[n] = "probing" => \A w \in Workers :
       /\ port[n][w] \in Foreign[n] => proc[n][w] = "booting" \/ Lost(n, w)
       /\ port[n][w] = PortAt(w, retries[n]) \/ port[n][w] \notin Foreign[n]
  /\ script[n] = "checking" => \A w \in Workers : port[n][w] \notin Answering[n]

FindInv == \A n \in Nodes : Found(n)

\* What the search for a port needs: a worker that cannot bind is found dead before
\* the next look, whoever answers /health on a port holds it, and nobody does on
\* the ports of the last retry, after which the script does not look again.
SearchAssumptions ==
  /\ Prompt
  /\ \A n \in Nodes : Answering[n] \subseteq Foreign[n]
  /\ \A n \in Nodes, w \in Workers : PortAt(w, MaxRetries) \notin Answering[n]

LEMMA InitFind == Init => FindInv
BY DEF Init, FindInv, Found

LEMMA SearchKept ==
  ASSUME NEW m \in Nodes, Found(m), script'[m] = script[m], port'[m] = port[m], proc'[m] = proc[m],
         conflict'[m] = conflict[m], retries'[m] = retries[m], m \in preload' => m \in preload
  PROVE  Found(m)'
BY DEF Found, Lost

LEMMA SearchOver ==
  ASSUME NEW m \in Nodes, script'[m] \notin {"off", "probing", "checking"}
  PROVE  Found(m)'
BY DEF Found

LEMMA NextFind == SearchAssumptions /\ Types /\ FindInv /\ [Next]_vars => FindInv'
<1> SUFFICES ASSUME SearchAssumptions, Types, FindInv, [Next]_vars, NEW m \in Nodes
             PROVE  Found(m)'
  BY DEF FindInv
<1>0. Found(m)
  BY DEF FindInv
<1>1. ASSUME NEW n \in Nodes, Start(n) PROVE Found(m)'
  <2> DEFINE at == [w \in Workers |-> InitialPort(w)]
  <2>1. Spawn(n, Workers, at) /\ \A w \in Workers : \E k \in 0..MaxRetries : at[w] = PortAt(w, k)
    BY <1>1, Initially DEF Start
  <2>2. \A w \in Workers : at[w] = PortAt(w, 0)
    BY Initially
  <2> HIDE DEF at
  <2>3. Workers \in SUBSET Workers
    OBVIOUS
  <2>4. /\ \A w \in Workers : port'[n][w] = at[w] /\ proc'[n][w] = "booting"
        /\ \A k \in Nodes \ {n} : port'[k] = port[k] /\ proc'[k] = proc[k] /\ conflict'[k] = conflict[k]
    BY <2>1, <2>3 DEF Spawn, Types, PortsTried
  <2>5. /\ script[n] = "off" /\ script' = [script EXCEPT ![n] = "probing"]
        /\ retries' = retries /\ preload' = preload
    BY <1>1 DEF Start, Goes, startVars, nginxVars
  <2>6. CASE m # n
    BY <1>0, <2>4, <2>5, <2>6, SearchKept
  <2>7. CASE m = n
    <3>1. script'[m] = "probing" /\ m \notin preload' /\ retries'[m] = 0
      BY <1>0, <2>5, <2>7 DEF Types, Found
    <3>2. \A w \in Workers : proc'[m][w] = "booting" /\ port'[m][w] = PortAt(w, retries'[m])
      BY <2>2, <2>4, <2>7, <3>1
    <3> QED BY <3>1, <3>2 DEF Found
  <2> QED BY <2>6, <2>7
<1>2. ASSUME NEW n \in Nodes, Probe(n) PROVE Found(m)'
  <2>1. /\ script[n] = "probing" /\ preload' = preload
        /\ Prompt /\ retries[n] < MaxRetries => \A w \in Workers : proc[n][w] # "booting"
    BY <1>2 DEF Probe, nginxVars
  <2>2. retries \in [Nodes -> 0..MaxRetries] /\ retries[n] \in Nat /\ MaxRetries \in Nat
    BY Numbers DEF Types
  <2>3. CASE (Conflicted(n) = {} \/ retries[n] >= MaxRetries)
    <3>1. Goes(n, "checking") /\ UNCHANGED <<workerVars, retries>>
      BY <1>2, <2>3 DEF Probe
    <3>2. CASE m # n
      BY <1>0, <2>1, <3>1, <3>2, SearchKept DEF Goes, workerVars
    <3>3. CASE m = n
      <4>1. script'[m] = "checking" /\ m \notin preload' /\ port'[m] = port[m]
        BY <1>0, <2>1, <3>1, <3>3 DEF Goes, workerVars, Types, Found
      <4>2. ASSUME NEW w \in Workers PROVE port[n][w] \notin Answering[n]
        <5>1. CASE retries[n] < MaxRetries
          <6>1. Conflicted(n) = {} /\ proc[n][w] # "booting"
            BY <2>1, <2>2, <2>3, <5>1 DEF SearchAssumptions
          <6>2. ~Lost(n, w)
            BY <6>1 DEF Lost, Conflicted
          <6>3. port[n][w] \notin Foreign[n]
            BY <1>0, <2>1, <3>3, <6>1, <6>2 DEF Found
          <6> QED BY <6>3 DEF SearchAssumptions
        <5>2. CASE retries[n] = MaxRetries
          <6>1. port[n][w] = PortAt(w, MaxRetries) \/ port[n][w] \notin Foreign[n]
            BY <1>0, <2>1, <3>3, <5>2 DEF Found
          <6> QED BY <6>1 DEF SearchAssumptions
        <5>3. retries[n] < MaxRetries \/ retries[n] = MaxRetries
          BY <2>2
        <5> QED BY <5>1, <5>2, <5>3
      <4> QED BY <3>3, <4>1, <4>2 DEF Found
    <3> QED BY <3>2, <3>3
  <2>4. CASE ~(Conflicted(n) = {} \/ retries[n] >= MaxRetries)
    <3> DEFINE at == [w \in Workers |-> RetryPort(n, w)]
    <3>1. /\ retries[n] < MaxRetries /\ script' = script
          /\ retries' = [retries EXCEPT ![n] = retries[n] + 1] /\ Spawn(n, Conflicted(n), at)
      BY <1>2, <2>2, <2>4 DEF Probe
    <3>2. Conflicted(n) \in SUBSET Workers /\ retries[n] \in 0..MaxRetries
      BY DEF Conflicted, Types
    <3>3. \A w \in Conflicted(n) : at[w] = PortAt(w, retries[n] + 1) /\ retries[n] + 1 \in 0..MaxRetries
      BY <3>1, <3>2, RetryAt
    <3> HIDE DEF at
    <3>4. /\ \A w \in Conflicted(n) : port'[n][w] = at[w] /\ proc'[n][w] = "booting"
          /\ \A w \in Workers \ Conflicted(n) : port'[n][w] = port[n][w]
          /\ \A k \in Nodes \ {n} : port'[k] = port[k] /\ proc'[k] = proc[k] /\ conflict'[k] = conflict[k]
      BY <3>1, <3>2 DEF Spawn, Types, PortsTried
    <3>5. CASE m # n
      BY <1>0, <2>1, <2>2, <3>1, <3>4, <3>5, SearchKept
    <3>6. CASE m = n
      <4>1. script'[m] = "probing" /\ m \notin preload' /\ retries'[m] = retries[n] + 1
        BY <1>0, <2>1, <2>2, <3>1, <3>6 DEF Found
      <4>2. ASSUME NEW w \in Conflicted(n)
            PROVE  proc'[m][w] = "booting" /\ port'[m][w] = PortAt(w, retries'[m])
        BY <3>3, <3>4, <3>6, <4>1
      <4>3. ASSUME NEW w \in Workers, w \notin Conflicted(n) PROVE port'[m][w] \notin Foreign[m]
        <5>1. proc[n][w] # "booting" /\ ~Lost(n, w)
          BY <2>1, <3>1, <4>3 DEF SearchAssumptions, Lost, Conflicted
        <5>2. port[n][w] \notin Foreign[n]
          BY <1>0, <2>1, <3>6, <5>1 DEF Found
        <5> QED BY <3>4, <3>6, <4>3, <5>2
      <4> QED BY <4>1, <4>2, <4>3 DEF Found
    <3> QED BY <3>5, <3>6
  <2> QED BY <2>3, <2>4
<1>3. ASSUME NEW n \in Nodes, NEW w \in Workers, Restart(n, w) PROVE Found(m)'
  <2>1. /\ script[n] = "monitoring" /\ script' = script /\ preload' = preload /\ retries' = retries
        /\ Spawn(n, {w}, port[n])
    BY <1>3 DEF Restart, startVars, nginxVars
  <2>2. CASE m = n
    BY <2>1, <2>2, SearchOver
  <2>3. CASE m # n
    <3>1. port'[m] = port[m] /\ proc'[m] = proc[m] /\ conflict'[m] = conflict[m]
      BY <2>1, <2>3 DEF Spawn, Types, PortsTried
    <3> QED BY <1>0, <2>1, <3>1, SearchKept
  <2> QED BY <2>2, <2>3
<1>4. ASSUME NEW n \in Nodes, NEW w \in Workers, Bind(n, w) PROVE Found(m)'
  <2>1. /\ proc[n][w] = "booting"
        /\ script' = script /\ preload' = preload /\ retries' = retries /\ port' = port
        /\ \/ /\ Taken(n, port[n][w]) /\ n \notin preload
              /\ proc' = [proc EXCEPT ![n] = [proc[n] EXCEPT ![w] = "dead"]]
              /\ conflict' = [conflict EXCEPT ![n] = conflict[n] \cup {w}]
           \/ /\ ~(Taken(n, port[n][w]) /\ n \notin preload)
              /\ \E s \in {"dead", "listening"} : proc' = [proc EXCEPT ![n] = [proc[n] EXCEPT ![w] = s]]
              /\ conflict' = conflict
    BY <1>4 DEF Bind, startVars, nginxVars
  <2>2. CASE m # n
    <3>1. proc'[m] = proc[m] /\ conflict'[m] = conflict[m]
      BY <2>1, <2>2 DEF Types
    <3> QED BY <1>0, <2>1, <3>1, SearchKept
  <2>3. CASE m = n
    <3>1. CASE script[n] = "probing"
      <4>1. n \notin preload
        BY <1>0, <2>3, <3>1 DEF Found
      <4>2. ASSUME NEW v \in Workers, port[n][v] \in Foreign[n]
            PROVE  proc'[n][v] = "booting" \/ (proc'[n][v] = "dead" /\ v \in conflict'[n])
        <5>1. CASE v = w
          <6>1. Taken(n, port[n][w])
            BY <4>2, <5>1 DEF Taken
          <6> QED BY <2>1, <4>1, <5>1, <6>1 DEF Types
        <5>2. CASE v # w
          <6>1. proc'[n][v] = proc[n][v] /\ conflict[n] \subseteq conflict'[n]
            BY <2>1, <5>2 DEF Types
          <6>2. proc[n][v] = "booting" \/ Lost(n, v)
            BY <1>0, <2>3, <3>1, <4>2 DEF Found
          <6> QED BY <6>1, <6>2 DEF Lost
        <5> QED BY <5>1, <5>2
      <4> QED BY <1>0, <2>1, <2>3, <3>1, <4>1, <4>2 DEF Found, Lost
    <3>2. CASE script[n] # "probing"
      BY <1>0, <2>1, <2>3, <3>2 DEF Found
    <3> QED BY <3>1, <3>2
  <2> QED BY <2>2, <2>3
<1>5. ASSUME NEW n \in Nodes, NEW w \in Workers, Die(n, w) PROVE Found(m)'
  <2>1. /\ proc[n][w] = "listening" /\ proc' = [proc EXCEPT ![n] = [proc[n] EXCEPT ![w] = "dead"]]
        /\ script' = script /\ preload' = preload /\ retries' = retries /\ port' = port
        /\ conflict' = conflict
    BY <1>5 DEF Die, startVars, nginxVars
  <2>2. CASE m # n
    BY <1>0, <2>1, <2>2, SearchKept DEF Types
  <2>3. CASE m = n
    <3>1. ASSUME NEW v \in Workers, proc[n][v] = "booting" \/ Lost(n, v)
          PROVE  (proc[n][v] = "booting" \/ Lost(n, v))'
      BY <2>1, <3>1 DEF Types, Lost
    <3> QED BY <1>0, <2>1, <2>3, <3>1 DEF Found
  <2> QED BY <2>2, <2>3
<1>6. ASSUME NEW n \in Nodes, Terminate(n) PROVE Found(m)'
  BY <1>0, <1>6, SearchKept, SearchOver DEF Terminate, Goes, Types, workerVars, startVars, nginxVars
<1>7. ASSUME NEW n \in Nodes, NEW w \in Workers, CheckHealth(n, w) PROVE Found(m)'
  BY <1>0, <1>7, SearchKept DEF CheckHealth, workerVars, nginxVars
<1>8. ASSUME NEW n \in Nodes, AllReady(n) PROVE Found(m)'
  <2>1. /\ \E where \in {"collecting", "balanced"} : script' = [script EXCEPT ![n] = where]
        /\ UNCHANGED <<workerVars, retries, preload>>
    BY <1>8 DEF AllReady, Goes, startVars, nginxVars
  <2> QED BY <1>0, <2>1, SearchKept, SearchOver DEF Types, workerVars
<1>9. CASE Collect \/ Verify
  <2>1. /\ \E where \in {"verifying", "balanced"} : script' = [script EXCEPT ![Master] = where]
        /\ UNCHANGED <<workerVars, retries, preload>>
    BY <1>9 DEF Collect, Verify, Goes, startVars, nginxVars
  <2> QED BY <1>0, <2>1, SearchKept, SearchOver DEF Types, workerVars
<1>11. ASSUME NEW n \in Nodes, StartNginx(n) PROVE Found(m)'
  <2>1. script' = [script EXCEPT ![n] = "monitoring"] /\ UNCHANGED <<workerVars, retries>>
        /\ \A k \in Nodes \ {n} : k \in preload' => k \in preload
    BY <1>11 DEF StartNginx, Goes, startVars
  <2> QED BY <1>0, <2>1, SearchKept, SearchOver DEF Types, workerVars
<1>12. ASSUME NEW n \in Nodes, TimeOut(n) PROVE Found(m)'
  <2>1. /\ script' = [script EXCEPT ![n] = "ended"] /\ UNCHANGED <<port, conflict, retries, preload>>
        /\ \A k \in Nodes \ {n} : proc'[k] = proc[k]
    BY <1>12 DEF TimeOut, Exits, Goes, startVars, nginxVars, Types
  <2> QED BY <1>0, <2>1, SearchKept, SearchOver DEF Types
<1>13. ASSUME NEW n \in Nodes, NoticeNginx(n) PROVE Found(m)'
  BY <1>0, <1>13, SearchKept, SearchOver DEF NoticeNginx, Goes, Types, workerVars, startVars, nginxVars
<1>14. ASSUME NEW n \in Nodes, Cleanup(n) PROVE Found(m)'
  <2>1. /\ UNCHANGED <<port, conflict, retries, preload>>
        /\ \A k \in Nodes \ {n} : proc'[k] = proc[k] /\ script'[k] = script[k]
        /\ script'[n] \in {"cleaning", "ended"}
    BY <1>14 DEF Cleanup, Exits, Goes, startVars, Types
  <2> QED BY <1>0, <2>1, SearchKept, SearchOver
<1>15. ASSUME NEW n \in Nodes, NginxDies(n) PROVE Found(m)'
  BY <1>0, <1>15, SearchKept DEF NginxDies, workerVars, startVars
<1>16. CASE UNCHANGED vars
  BY <1>0, <1>16, SearchKept DEF vars, workerVars, startVars, nginxVars
<1> QED BY <1>1, <1>2, <1>3, <1>4, <1>5, <1>6, <1>7, <1>8, <1>9, <1>11, <1>12, <1>13, <1>14, <1>15, <1>16
  DEF Next, Script

\* A worker counts as ready only while it listens itself: whoever answers on its port
\* is no stranger, as the search has left the strangers' ports, and no other worker
\* of the node, as their ports are apart.
THEOREM ReadyListens ==
  ASSUME NumWorkers <= Increment, SearchAssumptions
  PROVE  Spec => ReadyIsListening
<1> DEFINE Counted == \A n \in Nodes, w \in Workers :
             script[n] = "checking" /\ w \in ready'[n] \ ready[n] => proc[n][w] = "listening"
<1>1. Types /\ FindInv /\ [Next]_vars => [Counted]_vars
  <2> SUFFICES ASSUME Types, FindInv, Next, NEW n \in Nodes, NEW w \in Workers,
                      w \in ready'[n], w \notin ready[n]
               PROVE  proc[n][w] = "listening"
    OBVIOUS
  <2>1. ready' # ready
    OBVIOUS
  <2>2. PICK m \in Nodes, v \in Workers : CheckHealth(m, v)
    BY <2>1 DEF Next, Script, Start, Probe, AllReady, Collect, Verify, StartNginx, TimeOut, Restart,
                NoticeNginx, Cleanup, NginxDies, Terminate, Bind, Die, startVars
  <2>3. m = n /\ v = w
    BY <2>2 DEF CheckHealth, Types
  <2>4. script[n] = "checking" /\ Answers(n, port[n][w])
    BY <2>2, <2>3 DEF CheckHealth
  <2>5. port[n][w] \notin Answering[n]
    BY <2>4 DEF FindInv, Found
  <2>6. PICK u \in Workers : proc[n][u] = "listening" /\ port[n][u] = port[n][w]
    BY <2>4, <2>5 DEF Answers, Holds
  <2>7. PICK a \in 0..MaxRetries : port[n][u] = PortAt(u, a)
    BY DEF Types, PortsTried
  <2>8. PICK b \in 0..MaxRetries : port[n][w] = PortAt(w, b)
    BY DEF Types, PortsTried
  <2>9. u = w
    BY <2>6, <2>7, <2>8, PortsApart
  <2> QED BY <2>6, <2>9
<1>2. Spec => []FindInv
  BY InitFind, NextFind, TypesInvariant, PTL DEF Spec
<1>3. Spec => [][Counted]_vars
  BY <1>1, <1>2, TypesInvariant, PTL DEF Spec
<1> QED BY <1>3 DEF ReadyIsListening

-----------------------------------------------------------------------------
(* The load balancer's servers *)

\* Scripts that have found their ports keep them.
Past(n) == script[n] \notin {"off", "probing", "checking"}
Serving == {"verifying", "balanced", "monitoring"}

ReportInv ==
  /\ \A n \in Nodes : report[n] # NoReport => Past(n) /\ report[n] = port[n]
  /\ script[Master] \in Serving =>
       /\ \A n \in Nodes : Past(n)
       /\ upstream = {<<n, port[n][w]>> : n \in Nodes, w \in Workers}

LEMMA PortsStay ==
  ASSUME Types, Next, NEW m \in Nodes, Past(m)
  PROVE  Past(m)' /\ port'[m] = port[m]
<1>1. ASSUME NEW n \in Nodes, Start(n) \/ Probe(n) PROVE script'[m] = script[m] /\ port'[m] = port[m]
  <2>1. script[n] \in {"off", "probing"} /\ \E where \in {"probing", "checking"} : Goes(n, where) \/ script' = script
    BY <1>1 DEF Start, Probe, Goes
  <2>2. n # m
    BY <2>1 DEF Past
  <2>3. port' = port \/ \E at : port' = [port EXCEPT ![n] = at]
    BY <1>1 DEF Start, Probe, Spawn, workerVars
  <2> QED BY <2>1, <2>2, <2>3 DEF Goes, Types, PortsTried
<1>2. ASSUME NEW n \in Nodes, NEW w \in Workers, Restart(n, w)
      PROVE  script'[m] = script[m] /\ port'[m] = port[m]
  <2>1. /\ script' = script
        /\ port' = [port EXCEPT ![n] = [v \in Workers |-> IF v \in {w} THEN port[n][v] ELSE port[n][v]]]
    BY <1>2 DEF Restart, Spawn
  <2>2. [v \in Workers |-> IF v \in {w} THEN port[n][v] ELSE port[n][v]] = port[n]
    BY DEF Types, PortsTried
  <2>3. port' = [port EXCEPT ![n] = port[n]]
    BY <2>1, <2>2
  <2> QED BY <2>1, <2>3 DEF Types, PortsTried
<1>3. ASSUME NEW n \in Nodes,
             \/ (\E w \in Workers : CheckHealth(n, w)) \/ AllReady(n) \/ StartNginx(n) \/ TimeOut(n)
             \/ NoticeNginx(n) \/ NginxDies(n) \/ Terminate(n)
             \/ \E w \in Workers : Bind(n, w) \/ Die(n, w)
      PROVE  Past(m)' /\ port'[m] = port[m]
  <2>1. /\ port' = port
        /\ \/ script' = script
           \/ \E where \in {"collecting", "balanced", "monitoring", "ended", "cleaning"} :
                script' = [script EXCEPT ![n] = where]
    BY <1>3 DEF CheckHealth, AllReady, StartNginx, TimeOut, NoticeNginx, NginxDies, Terminate, Bind, Die,
                Goes, Exits, workerVars
  <2> QED BY <2>1 DEF Past, Types
<1>4. ASSUME NEW n \in Nodes, Cleanup(n) PROVE Past(m)' /\ port'[m] = port[m]
  <2>1. port' = port /\ (script' = script \/ script' = [script EXCEPT ![n] = "ended"])
    BY <1>4 DEF Cleanup, Goes, Exits
  <2> QED BY <2>1 DEF Past, Types
<1>5. CASE Collect \/ Verify
  <2>1. port' = port /\ \E where \in {"verifying", "balanced"} : script' = [script EXCEPT ![Master] = where]
    BY <1>5 DEF Collect, Verify, Goes, workerVars
  <2> QED BY <2>1 DEF Past, Types
<1> QED BY <1>1, <1>2, <1>3, <1>4, <1>5 DEF Next, Script, Past

\* A port file appears only with the ports found, and its script keeps them.
LEMMA ReportsFollow ==
  ASSUME Types, Next, NEW m \in Nodes
  PROVE  \/ report'[m] = report[m] \/ report'[m] = NoReport
         \/ Past(m)' /\ report'[m] = port'[m]
<1>1. ASSUME NEW n \in Nodes, Start(n) PROVE report'[m] = report[m] \/ report'[m] = NoReport
  BY <1>1 DEF Start, Types
<1>2. ASSUME NEW n \in Nodes, AllReady(n) PROVE report'[m] = report[m] \/ (Past(m)' /\ report'[m] = port'[m])
  <2>1. /\ port' = port
        /\ (report' = report \/ report' = [report EXCEPT ![n] = port[n]])
        /\ \E where \in {"collecting", "balanced"} : script' = [script EXCEPT ![n] = where]
    BY <1>2 DEF AllReady, Reported, Goes, workerVars
  <2>2. CASE m = n
    <3>1. Past(m)'
      BY <2>1, <2>2 DEF Past, Types
    <3>2. report'[m] = report[m] \/ report'[m] = port[m]
      BY <2>1, <2>2 DEF Types
    <3> QED BY <2>1, <3>1, <3>2
  <2>3. CASE m # n
    BY <2>1, <2>3 DEF Types
  <2> QED BY <2>2, <2>3
<1>3. ASSUME NEW n \in Nodes,
             \/ Probe(n) \/ (\E w \in Workers : CheckHealth(n, w) \/ Restart(n, w) \/ Bind(n, w) \/ Die(n, w))
             \/ StartNginx(n) \/ TimeOut(n) \/ NoticeNginx(n) \/ NginxDies(n) \/ Terminate(n) \/ Cleanup(n)
      PROVE  report' = report
  BY <1>3 DEF Probe, CheckHealth, Restart, Bind, Die, StartNginx, TimeOut, NoticeNginx, NginxDies,
              Terminate, Cleanup
<1>4. Collect \/ Verify => report' = report
  BY DEF Collect, Verify
<1> QED BY <1>1, <1>2, <1>3, <1>4 DEF Next, Script

\* The master comes to serve through the collection of the reports alone.
LEMMA ServingFollows ==
  ASSUME Types, Next, script'[Master] \in Serving
  PROVE  Collect \/ (script[Master] \in Serving /\ upstream' = upstream)
<1>0. Master \in Nodes
  BY NodeAssumption
<1>1. ASSUME NEW n \in Nodes,
             \/ (\E w \in Workers : CheckHealth(n, w) \/ Restart(n, w) \/ Bind(n, w) \/ Die(n, w))
             \/ NginxDies(n)
      PROVE  script' = script /\ upstream' = upstream
  BY <1>1 DEF CheckHealth, Restart, Bind, Die, NginxDies
<1>2. ASSUME NEW n \in Nodes, Start(n) \/ Probe(n) \/ TimeOut(n) \/ NoticeNginx(n) \/ Terminate(n)
      PROVE  script[Master] \in Serving /\ upstream' = upstream
  <2>1. /\ upstream' = upstream
        /\ \/ script' = script
           \/ \E where \in {"probing", "checking", "ended", "cleaning"} : script' = [script EXCEPT ![n] = where]
    BY <1>2 DEF Start, Probe, TimeOut, NoticeNginx, Terminate, Goes, Exits
  <2> QED BY <1>0, <2>1 DEF Serving, Types
<1>3. ASSUME NEW n \in Nodes, AllReady(n) PROVE script[Master] \in Serving /\ upstream' = upstream
  <2>1. /\ upstream' = upstream
        /\ script' = [script EXCEPT ![n] = IF n = Master THEN "collecting" ELSE "balanced"]
    BY <1>3 DEF AllReady, Goes
  <2>2. n # Master
    BY <1>0, <2>1 DEF Serving, Types
  <2> QED BY <1>0, <2>1, <2>2 DEF Types
<1>4. ASSUME NEW n \in Nodes, StartNginx(n) PROVE script[Master] \in Serving /\ upstream' = upstream
  <2>1. /\ upstream' = upstream /\ script[n] = "balanced"
        /\ script' = [script EXCEPT ![n] = "monitoring"]
    BY <1>4 DEF StartNginx, Goes
  <2> QED BY <1>0, <2>1 DEF Serving, Types
<1>5. ASSUME NEW n \in Nodes, Cleanup(n) PROVE script[Master] \in Serving /\ upstream' = upstream
  <2>1. upstream' = upstream /\ (script' = script \/ script' = [script EXCEPT ![n] = "ended"])
    BY <1>5 DEF Cleanup, Goes, Exits
  <2> QED BY <1>0, <2>1 DEF Serving, Types
<1>6. Verify => script[Master] \in Serving /\ upstream' = upstream
  BY DEF Verify, Serving
<1> QED BY <1>1, <1>2, <1>3, <1>4, <1>5, <1>6 DEF Next, Script

LEMMA Alone == ~MultiNode => Nodes = {Master}
<1> SUFFICES ASSUME ~MultiNode PROVE Nodes = {Master}
  OBVIOUS
<1>1. IsFiniteSet(Nodes) /\ Master \in Nodes
  BY NodeAssumption
<1>2. Cardinality(Nodes) \in Nat
  BY <1>1, FS_CardinalityType
<1>3. Cardinality(Nodes) # 0
  BY <1>1, FS_EmptySet
<1>4. Cardinality(Nodes) = 1
  BY <1>2, <1>3 DEF MultiNode
<1>5. PICK x : Nodes = {x}
  BY <1>1, <1>4, FS_Singleton
<1> QED BY <1>1, <1>5

LEMMA InitReport == ~Requeued /\ Init => ReportInv
<1> SUFFICES ASSUME ~Requeued, Init PROVE ReportInv
  OBVIOUS
<1>1. \A n \in Nodes : report[n] = NoReport
  BY DEF Init
<1>2. script[Master] \notin Serving
  BY NodeAssumption DEF Init, Serving
<1> QED BY <1>1, <1>2 DEF ReportInv

LEMMA NextReport == Types /\ ReportInv /\ [Next]_vars => ReportInv'
<1> SUFFICES ASSUME Types, ReportInv, [Next]_vars PROVE ReportInv'
  OBVIOUS
<1>1. CASE UNCHANGED vars
  BY <1>1 DEF vars, workerVars, ReportInv, Past
<1>2. CASE Next
  <2>1. ASSUME NEW m \in Nodes, report'[m] # NoReport PROVE Past(m)' /\ report'[m] = port'[m]
    <3>1. CASE report'[m] = report[m]
      <4>1. Past(m) /\ report[m] = port[m]
        BY <2>1, <3>1 DEF ReportInv
      <4>2. Past(m)' /\ port'[m] = port[m]
        BY <1>2, <4>1, PortsStay
      <4> QED BY <3>1, <4>1, <4>2
    <3> QED BY <1>2, <2>1, <3>1, ReportsFollow
  <2>2. ASSUME script'[Master] \in Serving
        PROVE  /\ \A n \in Nodes : Past(n)'
               /\ upstream' = {<<n, port'[n][w]>> : n \in Nodes, w \in Workers}
    <3>1. CASE Collect
      <4>1. port' = port /\ upstream' = Servers /\ script[Master] = "collecting"
        BY <3>1 DEF Collect, workerVars
      <4>2. \A n \in Nodes : Past(n)
        <5>1. CASE MultiNode
          BY <3>1, <5>1 DEF Collect, ReportInv
        <5>2. CASE ~MultiNode
          BY <4>1, <5>2, Alone DEF Past
        <5> QED BY <5>1, <5>2
      <4>3. Servers = {<<n, port[n][w]>> : n \in Nodes, w \in Workers}
        <5>1. CASE MultiNode
          <6>1. \A n \in Nodes : report[n] = port[n]
            BY <3>1, <5>1 DEF Collect, ReportInv
          <6>2. Servers = {<<n, report[n][w]>> : n \in Nodes, w \in Workers}
            BY <5>1 DEF Servers
          <6> QED BY <6>1, <6>2
        <5>2. CASE ~MultiNode
          <6>1. Servers = {<<Master, port[Master][w]>> : w \in Workers}
            BY <5>2 DEF Servers
          <6> QED BY <5>2, <6>1, Alone
        <5> QED BY <5>1, <5>2
      <4>4. \A n \in Nodes : Past(n)'
        BY <1>2, <4>2, PortsStay
      <4> QED BY <4>1, <4>3, <4>4
    <3>2. CASE script[Master] \in Serving /\ upstream' = upstream
      <4>1. (\A n \in Nodes : Past(n)) /\ upstream = {<<n, port[n][w]>> : n \in Nodes, w \in Workers}
        BY <3>2 DEF ReportInv
      <4>2. \A n \in Nodes : Past(n)' /\ port'[n] = port[n]
        BY <1>2, <4>1, PortsStay
      <4> QED BY <3>2, <4>1, <4>2
    <3> QED BY <1>2, <2>2, <3>1, <3>2, ServingFollows
  <2> QED BY <2>1, <2>2 DEF ReportInv
<1> QED BY <1>1, <1>2

\* One server for each worker when no node has two on one port.
LEMMA ServersCount ==
  ASSUME NEW p \in [Nodes -> [Workers -> Nat]],
         \A n \in Nodes, w, v \in Workers : w # v => p[n][w] # p[n][v]
  PROVE  Cardinality({<<n, p[n][w]>> : n \in Nodes, w \in Workers}) = Cardinality(Nodes) * NumWorkers
<1> DEFINE S == Nodes \X Workers
           T == {<<n, p[n][w]>> : n \in Nodes, w \in Workers}
           f == [e \in S |-> <<e[1], p[e[1]][e[2]]>>]
<1>1. IsFiniteSet(Nodes)
  BY NodeAssumption
<1>2. NumWorkers \in Nat \ {0} /\ 1 \in Int /\ NumWorkers \in Int
  BY Numbers
<1>3. IsFiniteSet(Workers) /\ Cardinality(Workers) = NumWorkers
  <2>1. IsFiniteSet(1..NumWorkers) /\ Cardinality(1..NumWorkers) = IF 1 > NumWorkers THEN 0 ELSE NumWorkers - 1 + 1
    BY <1>2, FS_Interval
  <2>2. ~(1 > NumWorkers) /\ NumWorkers - 1 + 1 = NumWorkers
    BY <1>2
  <2> QED BY <2>1, <2>2 DEF Workers
<1>4. IsFiniteSet(S) /\ Cardinality(S) = Cardinality(Nodes) * NumWorkers
  BY <1>1, <1>3, FS_Product
<1>5. f \in [S -> T]
  OBVIOUS
<1>6. \A a, b \in S : f[a] = f[b] => a = b
  <2> TAKE a, b \in S
  <2>1. PICK n \in Nodes, w \in Workers : a = <<n, w>>
    OBVIOUS
  <2>2. PICK m \in Nodes, v \in Workers : b = <<m, v>>
    OBVIOUS
  <2>3. f[a] = <<n, p[n][w]>> /\ f[b] = <<m, p[m][v]>>
    BY <2>1, <2>2
  <2> QED BY <2>1, <2>2, <2>3
<1>7. \A t \in T : \E a \in S : f[a] = t
  <2> TAKE t \in T
  <2>1. PICK n \in Nodes, w \in Workers : t = <<n, p[n][w]>>
    OBVIOUS
  <2>2. <<n, w>> \in S /\ f[<<n, w>>] = t
    BY <2>1
  <2> QED BY <2>2
<1> HIDE DEF S, T, f
<1>8. ExistsBijection(S, T)
  <2>1. f \in Injection(S, T)
    BY <1>5, <1>6 DEF Injection, IsInjective
  <2>2. f \in Surjection(S, T)
    BY <1>5, <1>7 DEF Surjection
  <2> QED BY <2>1, <2>2 DEF ExistsBijection, Bijection
<1>9. Cardinality(T) = Cardinality(S)
  BY <1>4, <1>8, FS_Bijection
<1> QED BY <1>4, <1>9 DEF T

\* The servers are the ports the job's workers have, each worker's once, whatever
\* conflicts, dies and is restarted: a script reports the ports it has found and
\* never moves a worker again.
THEOREM UpstreamFollowsWorkers ==
  ASSUME ~Requeued, NumWorkers <= Increment
  PROVE  Spec => []UpstreamIsWorkers
<1>1. Types /\ ReportInv => UpstreamIsWorkers
  <2> SUFFICES ASSUME Types, ReportInv, NEW n \in Nodes, NEW w \in Workers, script[Master] = "monitoring"
               PROVE  /\ <<n, port[n][w]>> \in upstream
                      /\ \A v \in Workers \ {w} : port[n][v] # port[n][w]
                      /\ Cardinality(upstream) = Cardinality(Nodes) * NumWorkers
    BY DEF UpstreamIsWorkers
  <2>1. upstream = {<<m, port[m][v]>> : m \in Nodes, v \in Workers}
    BY DEF ReportInv, Serving
  <2>2. ASSUME NEW m \in Nodes, NEW u \in Workers, NEW v \in Workers, u # v PROVE port[m][u] # port[m][v]
    <3>1. PICK a \in 0..MaxRetries : port[m][u] = PortAt(u, a)
      BY DEF Types, PortsTried
    <3>2. PICK b \in 0..MaxRetries : port[m][v] = PortAt(v, b)
      BY DEF Types, PortsTried
    <3> QED BY <2>2, <3>1, <3>2, PortsApart
  <2>3. port \in [Nodes -> [Workers -> Nat]]
    BY DEF Types, PortsTried
  <2>4. Cardinality(upstream) = Cardinality(Nodes) * NumWorkers
    BY <2>1, <2>2, <2>3, ServersCount
  <2> QED BY <2>1, <2>2, <2>4
<1>2. Spec => []ReportInv
  BY InitReport, NextReport, TypesInvariant, PTL DEF Spec
<1> QED BY <1>1, <1>2, TypesInvariant, PTL
=============================================================================
