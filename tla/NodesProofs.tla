---------------------------- MODULE NodesProofs ----------------------------
(* Types and safety of the nodes checker and of the NAS checker. *)
EXTENDS NodesChecker, NasChecker, TLAPS

-----------------------------------------------------------------------------
(* The NAS checker *)

\* What the pods of an iteration answer is what their own nodes reach, if
\* there were no others when they were made.
ProbesOwnPods ==
  /\ nasPhase = "create" => nasPods = {} \/ hasLeftovers
  /\ nasPhase \in {"create", "probe"} =>
       /\ reachable \subseteq wasReachable
       /\ podNode \in Orders(checkedNodes)
  /\ nasPhase = "probe" =>
       hasLeftovers \/ \A pod \in nasPods : pod.node \in checkedNodes /\ podNode[pod.node] = pod.place

FoundReachable ==
  nasPhase \in {"create", "probe", "record", "prune"} =>
    foundHealthy \subseteq wasReachable \/ hasLeftovers

NasInv == ProbesOwnPods /\ FoundReachable

\* A pod that answers for a pair runs on the node of the pair: places are
\* given to one node each.
LEMMA ProbeKeepsNasInv ==
  ASSUME NasInv, NEW n \in NasNodes, NEW ip \in NasIps, Probe(n, ip)
  PROVE  NasInv'
<1>1. /\ nasPhase = "probe" /\ nasPhase' = "probe" /\ n \in checkedNodes
      /\ foundHealthy' = foundHealthy \union {<<n, ip>>}
      /\ UNCHANGED <<nasPods, checkedNodes, podNode, hasLeftovers, wasReachable, reachable>>
  BY DEF Probe, NasStep
<1>2. <<n, ip>> \in wasReachable \/ hasLeftovers
  <2> SUFFICES ASSUME ~hasLeftovers PROVE <<n, ip>> \in wasReachable
    OBVIOUS
  <2>1. PICK pod \in nasPods : pod.place = podNode[n] /\ pod.nas = ip /\ <<pod.node, ip>> \in reachable
    BY DEF Probe, IsAnswering, PodOf
  <2>2. pod.node \in checkedNodes /\ podNode[pod.node] = podNode[n]
    BY <1>1, <2>1 DEF NasInv, ProbesOwnPods
  <2>3. podNode \in Orders(checkedNodes) /\ reachable \subseteq wasReachable
    BY <1>1 DEF NasInv, ProbesOwnPods
  <2>4. pod.node = n
    BY <1>1, <2>2, <2>3 DEF Orders
  <2> QED
    BY <2>1, <2>3, <2>4
<1> QED
  BY <1>1, <1>2 DEF NasInv, ProbesOwnPods, FoundReachable

\* Every step keeps NasInv.
LEMMA NasInvStep ==
  ASSUME NasInv, [NasNext]_nasVars
  PROVE  NasInv'
<1> USE DEF NasInv, ProbesOwnPods, FoundReachable
<1>1. CASE ClusterChanges
  <2>1. UNCHANGED <<nasPhase, checkedNodes, podNode, foundHealthy, hasLeftovers>>
    BY <1>1 DEF ClusterChanges
  <2>2. /\ nasPods' \subseteq nasPods /\ wasReachable \subseteq wasReachable'
        /\ reachable' \subseteq wasReachable' \/ UNCHANGED <<reachable, wasReachable>>
    BY <1>1 DEF ClusterChanges
  <2> QED
    BY <2>1, <2>2
<1>2. CASE StartNasCheck
  BY <1>2 DEF StartNasCheck, NasStep
<1>3. CASE CreatePods
  <2>1. /\ nasPhase = "create" /\ nasPhase' = "probe"
        /\ UNCHANGED <<checkedNodes, podNode, foundHealthy, hasLeftovers, wasReachable, reachable>>
    BY <1>3 DEF CreatePods, NasStep
  <2>2. \A pod \in nasPods' : pod \in nasPods \/ (pod.node \in checkedNodes /\ podNode[pod.node] = pod.place)
    BY <1>3 DEF CreatePods
  <2> QED
    BY <2>1, <2>2
<1>4. CASE EndProbes
  <2>1. /\ nasPhase = "probe" /\ nasPhase' = "record" /\ foundHealthy' \subseteq foundHealthy
        /\ UNCHANGED <<hasLeftovers, wasReachable>>
    BY <1>4 DEF EndProbes, NasStep
  <2> QED
    BY <2>1
<1>5. CASE RecordPairs \/ PrunePairs
  BY <1>5 DEF RecordPairs, PrunePairs, NasStep
<1>6. CASE ProbeSome
  BY <1>6, ProbeKeepsNasInv DEF ProbeSome
<1>7. CASE NasRestarts
  BY <1>7 DEF NasRestarts
<1>8. CASE UNCHANGED nasVars
  BY <1>8 DEF nasVars, nasWorld, nasKeys
<1> QED
  BY <1>1, <1>2, <1>3, <1>4, <1>5, <1>6, <1>7, <1>8 DEF NasNext, NasDaemon

\* No pair is found healthy that was not reachable in the course of the
\* iteration, for any nodes and servers and any order of the list of nodes
\* (check_nodes_nas), unless pods were left over.
THEOREM HealthyWasReachableHolds == NasSpec => []HealthyWasReachable
<1>1. NasInit => NasInv
  BY DEF NasInit, NasInv, ProbesOwnPods, FoundReachable
<1>2. NasInv => HealthyWasReachable
  BY DEF NasInv, FoundReachable, HealthyWasReachable
<1> QED
  BY <1>1, <1>2, NasInvStep, PTL DEF NasSpec

-----------------------------------------------------------------------------
(* The types of the NAS checker *)

\* Every step keeps the types.
LEMMA NasStepType ==
  ASSUME NasTypeOK, [NasNext]_nasVars
  PROVE  NasTypeOK'
<1> USE NasAssumption DEF NasTypeOK
<1>1. CASE ClusterChanges
  <2>1. nasChanges' \in 0 .. MaxNasChanges
    BY <1>1 DEF ClusterChanges
  <2>2. /\ workerNodes' \subseteq NasNodes /\ nasPods' \subseteq nasPods
        /\ reachable' \subseteq Pairs /\ wasReachable' \subseteq Pairs
    BY <1>1 DEF ClusterChanges
  <2> QED
    BY <1>1, <2>1, <2>2 DEF ClusterChanges, nasKeys
<1>2. ASSUME DeletePods
      PROVE  nasPods' \subseteq nasPods /\ nasFailures' \in 0 .. MaxNasFailures
  BY <1>2 DEF DeletePods
<1>3. CASE StartNasCheck
  <2>1. DOMAIN podNode' = workerNodes /\ podNode' \in Orders(workerNodes)
    BY <1>3 DEF StartNasCheck, Orders
  <2> QED
    BY <1>2, <1>3, <2>1 DEF StartNasCheck, NasStep, nasKeys
<1>4. CASE CreatePods
  BY <1>4 DEF CreatePods, NasStep, nasKeys
<1>5. CASE EndProbes
  BY <1>2, <1>5 DEF EndProbes, NasStep, nasKeys
<1>6. CASE RecordPairs \/ PrunePairs
  BY <1>6 DEF RecordPairs, PrunePairs, NasStep, CheckedPairs, Pairs
<1>7. CASE ProbeSome
  BY <1>7 DEF ProbeSome, Probe, NasStep, nasKeys, Pairs
<1>8. CASE NasRestarts
  BY <1>8 DEF NasRestarts, nasWorld, nasKeys
<1>9. CASE UNCHANGED nasVars
  BY <1>9 DEF nasVars, nasWorld, nasKeys
<1> QED
  BY <1>1, <1>3, <1>4, <1>5, <1>6, <1>7, <1>8, <1>9 DEF NasNext, NasDaemon

\* The types of the NAS checker, for any nodes, servers, changes and failures.
THEOREM NasTypeCorrect == NasSpec => []NasTypeOK
<1>1. NasInit => NasTypeOK
  <2> SUFFICES ASSUME NasInit PROVE NasTypeOK
    OBVIOUS
  <2>1. <<>> \in Orders(DOMAIN <<>>)
    BY DEF Orders
  <2>2. podNode \in Orders(DOMAIN podNode)
    BY <2>1, Zenon DEF NasInit
  <2>3. nasChanges \in 0 .. MaxNasChanges /\ nasFailures \in 0 .. MaxNasFailures
    BY NasAssumption DEF NasInit
  <2>4. /\ workerNodes \subseteq NasNodes /\ checkedNodes \subseteq NasNodes
        /\ reachable \subseteq Pairs /\ nasHealthy \subseteq Pairs /\ nasChecked \subseteq Pairs
        /\ foundHealthy \subseteq Pairs /\ wasReachable \subseteq Pairs
        /\ nasPods \subseteq [place : Places, nas : NasIps, node : NasNodes]
        /\ nasPhase \in {"list", "create", "probe", "record", "prune"}
        /\ hasLeftovers \in BOOLEAN
    BY DEF NasInit
  <2> QED
    BY <2>2, <2>3, <2>4 DEF NasTypeOK
<1> QED
  BY <1>1, NasStepType, PTL DEF NasSpec

-----------------------------------------------------------------------------
(* The nodes checker *)

KnownChecks == healthchecks \union foundChecks

\* Health checks and what refers to them have ids that were given out.
IdsGiven ==
  /\ lastCheckId \in Nat
  /\ \A c \in KnownChecks : c.id \in 0 .. lastCheckId
  /\ \A r \in dnsRecords : r.check \in 0 .. lastCheckId
  /\ \A job \in nodeCheck : job.check \in 0 .. lastCheckId

\* An id belongs to one node, also when its health check is deleted.
IdsOwned ==
  /\ \A c, d \in KnownChecks : c.id = d.id => c.node = d.node
  /\ \A r \in dnsRecords, c \in KnownChecks : r.check = c.id => r.node = c.node
  /\ \A job \in nodeCheck, c \in KnownChecks : job.check = c.id => job.node = c.node

OnePerNode ==
  /\ \A c, d \in healthchecks : c.node = d.node => c = d
  /\ \A r, s \in dnsRecords : r.node = s.node => r = s
  /\ \A c, d \in foundChecks : c.node = d.node => c = d
  /\ nodesPhase \in {"idle", "nodes", "checks", "records"} =>
       \A c \in healthchecks, d \in foundChecks : c.node = d.node => c = d

\* What an iteration found is all there is, but for what it made itself.
FoundIsCurrent ==
  /\ nodesPhase \in {"idle", "nodes"} => foundChecks = {} /\ redoChecks = {}
  /\ nodesPhase \in {"idle", "nodes", "checks"} => foundRecords = {} /\ redoRecords = {}
  /\ nodesPhase = "checks" =>
       /\ nodesTodo \subseteq healthchecks
       /\ healthchecks \subseteq nodesTodo \union foundChecks
       /\ \A c \in healthchecks : c.node \notin redoChecks
  /\ nodesPhase = "records" =>
       /\ \A c \in healthchecks : c \in foundChecks /\ c.node \notin redoChecks
       /\ nodesTodo \subseteq dnsRecords
       /\ dnsRecords \subseteq nodesTodo \union foundRecords
       /\ \A r \in dnsRecords : r.node \notin redoRecords
  /\ nodesPhase = "set" =>
       /\ \A c \in healthchecks : c.node \in nodesTodo => c \in foundChecks /\ c.node \notin redoChecks
       /\ \A r \in dnsRecords :
            r.node \in nodesTodo \/ (\E job \in nodeCheck : job.node = r.node) =>
              r \in foundRecords /\ r.node \notin redoRecords

\* One record is made at a time, of a node whose turn is over.
OneJob ==
  /\ nodesPhase # "set" => nodeCheck = {}
  /\ \A i, j \in nodeCheck : i = j
  /\ \A job \in nodeCheck : job.node \notin nodesTodo

DnsInv == IdsGiven /\ IdsOwned /\ OnePerNode /\ FoundIsCurrent /\ OneJob

\* DnsInv holds at the start, when Route53 holds nothing.
LEMMA DnsInvInit == NodesInit => DnsInv
BY DEF NodesInit, DnsInv, IdsGiven, IdsOwned, OnePerNode, FoundIsCurrent, OneJob, KnownChecks

\* The loops that look, and those that delete at the end.
LEMMA LookKeepsDnsInv ==
  ASSUME DnsInv,
         \/ ListNodes \/ ForgetNodes \/ ListRecords \/ StartSettingRecords
         \/ StartDeletingRecords \/ StartDeletingChecks \/ NodesFinish \/ NodesFail
         \/ \E n \in Nodes, ip \in Ips \union {0} : NodeChanges(n, ip)
         \/ UNCHANGED nodesVars
  PROVE  DnsInv'
<1> USE DEF DnsInv, IdsGiven, IdsOwned, OnePerNode, FoundIsCurrent, OneJob, KnownChecks, route53,
            nodesFound, InNodesPhase, NextNodesPhase
<1>1. CASE ListNodes
  BY <1>1 DEF ListNodes
<1>2. CASE ForgetNodes
  BY <1>2 DEF ForgetNodes
<1>3. CASE ListRecords
  BY <1>3 DEF ListRecords
<1>4. CASE StartSettingRecords
  BY <1>4 DEF StartSettingRecords
<1>5. CASE StartDeletingRecords
  BY <1>5 DEF StartDeletingRecords
<1>6. CASE StartDeletingChecks
  BY <1>6 DEF StartDeletingChecks
<1>7. CASE NodesFinish
  BY <1>7 DEF NodesFinish, NothingFound
<1>8. CASE NodesFail
  BY <1>8 DEF NodesFail, NothingFound
<1>9. CASE \E n \in Nodes, ip \in Ips \union {0} : NodeChanges(n, ip)
  BY <1>9 DEF NodeChanges
<1>10. CASE UNCHANGED nodesVars
  BY <1>10 DEF nodesVars
<1> QED
  BY <1>1, <1>2, <1>3, <1>4, <1>5, <1>6, <1>7, <1>8, <1>9, <1>10

\* One item of a loop that looks or deletes.
LEMMA ItemKeepsDnsInv ==
  ASSUME DnsInv,
         \/ nodesPhase = "nodes" /\ \E n \in nodesTodo : ReadNode(n)
         \/ nodesPhase = "checks" /\ \E c \in nodesTodo : CheckHealthcheck(c)
         \/ nodesPhase = "records" /\ \E r \in nodesTodo : CheckRecord(r)
         \/ nodesPhase = "unrecord" /\ \E r \in nodesTodo : DeleteRecord(r)
         \/ nodesPhase = "uncheck" /\ \E c \in nodesTodo : DeleteHealthcheck(c)
  PROVE  DnsInv'
<1> USE DEF DnsInv, IdsGiven, IdsOwned, OnePerNode, FoundIsCurrent, OneJob, KnownChecks, route53,
            InNodesPhase, TakesTodo
<1>1. ASSUME NEW n \in nodesTodo, ReadNode(n) PROVE DnsInv'
  BY <1>1 DEF ReadNode
<1>2. ASSUME NEW c \in nodesTodo, CheckHealthcheck(c) PROVE DnsInv'
  <2>1. /\ nodesPhase = "checks" /\ nodesPhase' = "checks" /\ c \in healthchecks
        /\ nodesTodo' = nodesTodo \ {c}
        /\ foundChecks' = foundChecks \union {c}
        /\ UNCHANGED <<dnsRecords, lastCheckId, foundRecords, redoRecords, nodeCheck>>
    BY <1>2 DEF CheckHealthcheck
  <2>2. \/ healthchecks' = healthchecks \ {c} /\ redoChecks' = redoChecks \union {c.node}
        \/ UNCHANGED <<healthchecks, redoChecks>>
    BY <1>2 DEF CheckHealthcheck
  <2>3. KnownChecks' = KnownChecks
    BY <2>1, <2>2
  <2>4. IdsGiven' /\ IdsOwned'
    BY <2>1, <2>3
  <2>5. OnePerNode'
    BY <2>1, <2>2
  <2>6. FoundIsCurrent' /\ OneJob'
    BY <2>1, <2>2
  <2> QED
    BY <2>4, <2>5, <2>6
<1>3. ASSUME NEW r \in nodesTodo, CheckRecord(r) PROVE DnsInv'
  <2>1. /\ nodesPhase = "records" /\ nodesPhase' = "records" /\ r \in dnsRecords
        /\ nodesTodo' = nodesTodo \ {r}
        /\ foundRecords' = foundRecords \union {r}
        /\ UNCHANGED <<healthchecks, lastCheckId, foundChecks, redoChecks, nodeCheck>>
    BY <1>3 DEF CheckRecord
  <2>2. \/ dnsRecords' = dnsRecords \ {r} /\ redoRecords' = redoRecords \union {r.node}
        \/ UNCHANGED <<dnsRecords, redoRecords>>
    BY <1>3 DEF CheckRecord
  <2>3. IdsGiven' /\ IdsOwned' /\ OnePerNode'
    BY <2>1, <2>2
  <2>4. FoundIsCurrent' /\ OneJob'
    BY <2>1, <2>2
  <2> QED
    BY <2>3, <2>4
<1>4. ASSUME NEW r \in nodesTodo, DeleteRecord(r) PROVE DnsInv'
  BY <1>4 DEF DeleteRecord, nodesFound
<1>5. ASSUME NEW c \in nodesTodo, DeleteHealthcheck(c) PROVE DnsInv'
  BY <1>5 DEF DeleteHealthcheck, nodesFound
<1> QED
  BY <1>1, <1>2, <1>3, <1>4, <1>5

\* A health check is made for a node that has none, with an id of its own.
LEMMA SetHealthcheckKeepsDnsInv ==
  ASSUME DnsInv, NEW n \in nodesTodo, SetHealthcheck(n)
  PROVE  DnsInv'
<1>1. /\ nodesPhase = "set" /\ nodesPhase' = "set" /\ nodeCheck = {}
      /\ nodesTodo' = nodesTodo \ {n}
      /\ UNCHANGED <<dnsRecords, foundChecks, foundRecords, redoChecks, redoRecords>>
  BY DEF SetHealthcheck, InNodesPhase, TakesTodo, nodesFound
<1>2. CASE MissesHealthcheck(n)
  <2> DEFINE new == [id |-> lastCheckId', node |-> n, ip |-> healthyIps[n]]
  <2>1. /\ lastCheckId' = lastCheckId + 1
        /\ healthchecks' = healthchecks \union {new}
        /\ nodeCheck' = {[node |-> n, check |-> lastCheckId']}
    BY <1>2 DEF SetHealthcheck
  <2>2. new.id = lastCheckId + 1 /\ new.node = n
    BY <2>1
  <2>3. \A c \in healthchecks : c.node # n
    BY <1>1, <1>2 DEF DnsInv, FoundIsCurrent, MissesHealthcheck
  <2> HIDE DEF new
  <2>4. IdsGiven'
    BY <1>1, <2>1, <2>2 DEF DnsInv, IdsGiven, KnownChecks
  <2>5. IdsOwned'
    BY <1>1, <2>1, <2>2 DEF DnsInv, IdsGiven, IdsOwned, KnownChecks
  <2>6. OnePerNode'
    BY <1>1, <2>1, <2>2, <2>3 DEF DnsInv, OnePerNode
  <2>7. FoundIsCurrent' /\ OneJob'
    BY <1>1, <2>1, <2>2 DEF DnsInv, FoundIsCurrent, OneJob
  <2> QED
    BY <2>4, <2>5, <2>6, <2>7 DEF DnsInv
<1>3. CASE ~MissesHealthcheck(n)
  <2>1. /\ nodeCheck' = {[node |-> n, check |-> c.id] : c \in {d \in foundChecks : d.node = n}}
        /\ UNCHANGED <<healthchecks, lastCheckId>>
    BY <1>3 DEF SetHealthcheck
  <2>2. \A job \in nodeCheck' :
          /\ job.node = n
          /\ \E c \in foundChecks : c.node = n /\ job = [node |-> n, check |-> c.id]
    BY <2>1
  <2>3. IdsGiven' /\ IdsOwned'
    BY <1>1, <2>1, <2>2 DEF DnsInv, IdsGiven, IdsOwned, KnownChecks
  <2>4. OnePerNode'
    BY <1>1, <2>1 DEF DnsInv, OnePerNode
  <2>5. FoundIsCurrent' /\ OneJob'
    BY <1>1, <2>1, <2>2 DEF DnsInv, OnePerNode, FoundIsCurrent, OneJob
  <2> QED
    BY <2>3, <2>4, <2>5 DEF DnsInv
<1> QED
  BY <1>2, <1>3

\* A record is made for a node that has none, with the check of that node.
LEMMA SetRecordKeepsDnsInv ==
  ASSUME DnsInv, NEW job \in nodeCheck, SetRecord(job)
  PROVE  DnsInv'
<1> DEFINE new == [node |-> job.node, ip |-> healthyIps[job.node], check |-> job.check]
<1>1. /\ nodesPhase = "set" /\ nodesPhase' = "set"
      /\ nodeCheck' = nodeCheck \ {job}
      /\ UNCHANGED <<nodesTodo, healthchecks, lastCheckId, foundChecks, foundRecords, redoChecks,
                     redoRecords>>
  BY DEF SetRecord, InNodesPhase, nodesFound
<1>2. nodeCheck' = {}
  BY <1>1 DEF DnsInv, OneJob
<1>3. new.node = job.node /\ new.check = job.check
  OBVIOUS
<1>4. CASE MissesRecord(job.node)
  <2>1. dnsRecords' = dnsRecords \union {new}
    BY <1>4 DEF SetRecord
  <2>2. \A r \in dnsRecords : r.node # job.node
    BY <1>1, <1>4 DEF DnsInv, FoundIsCurrent, MissesRecord
  <2> HIDE DEF new
  <2>3. IdsGiven' /\ IdsOwned'
    BY <1>1, <1>2, <1>3, <2>1 DEF DnsInv, IdsGiven, IdsOwned, KnownChecks
  <2>4. OnePerNode'
    BY <1>1, <1>3, <2>1, <2>2 DEF DnsInv, OnePerNode
  <2>5. FoundIsCurrent' /\ OneJob'
    BY <1>1, <1>2, <1>3, <2>1 DEF DnsInv, FoundIsCurrent, OneJob
  <2> QED
    BY <2>3, <2>4, <2>5 DEF DnsInv
<1>5. CASE ~MissesRecord(job.node)
  <2>1. UNCHANGED dnsRecords
    BY <1>5 DEF SetRecord
  <2> QED
    BY <1>1, <1>2, <2>1
       DEF DnsInv, IdsGiven, IdsOwned, OnePerNode, FoundIsCurrent, OneJob, KnownChecks
<1> QED
  BY <1>4, <1>5

\* Every step keeps DnsInv.
LEMMA DnsInvStep == DnsInv /\ [NodesNext]_nodesVars => DnsInv'
<1> SUFFICES ASSUME DnsInv, [NodesNext]_nodesVars PROVE DnsInv'
  OBVIOUS
<1>1. CASE nodesPhase = "set" /\ \E n \in nodesTodo : SetHealthcheck(n)
  BY <1>1, SetHealthcheckKeepsDnsInv
<1>2. CASE \E job \in nodeCheck : SetRecord(job)
  BY <1>2, SetRecordKeepsDnsInv
<1> QED
  BY <1>1, <1>2, LookKeepsDnsInv, ItemKeepsDnsInv DEF NodesNext, NodesDaemon

\* Route53 never holds two checks or two records of a node, nor a record with
\* the check of another node, for any nodes, changes and failures at any call
\* (nodes_checker.run_single_iteration).
THEOREM DnsConsistentHolds == NodesSpec => []DnsConsistent
<1>1. DnsInv => DnsConsistent
  BY DEF DnsInv, IdsOwned, OnePerNode, KnownChecks, DnsConsistent
<1> QED
  BY <1>1, DnsInvInit, DnsInvStep, PTL DEF NodesSpec

-----------------------------------------------------------------------------
(* The types of the nodes checker *)

\* What the loops have still to go through.
TodoType ==
  /\ nodesPhase \in {"idle", "nodes", "set"} => nodesTodo \subseteq Nodes
  /\ nodesPhase \in {"checks", "uncheck"} => nodesTodo \subseteq Healthchecks
  /\ nodesPhase \in {"records", "unrecord"} => nodesTodo \subseteq Records

\* A health check or record is made for a healthy node, which has an address.
JobsHealthy ==
  /\ nodesPhase # "set" => nodeCheck = {}
  /\ nodesPhase = "set" => \A n \in nodesTodo : IsHealthy(n)
  /\ \A job \in nodeCheck : IsHealthy(job.node)

NodesTypeInv ==
  /\ nodeIp \in [Nodes -> Ips \union {0}] /\ healthyIps \in [Nodes -> Ips \union {0}]
  /\ nodeHealthy \subseteq Nodes /\ movedBack \subseteq Nodes
  /\ healthchecks \subseteq Healthchecks /\ foundChecks \subseteq Healthchecks
  /\ dnsRecords \subseteq Records /\ foundRecords \subseteq Records
  /\ redoChecks \subseteq Nodes /\ redoRecords \subseteq Nodes
  /\ nodeCheck \subseteq [node : Nodes, check : Nat]
  /\ nodesPhase \in {"idle", "nodes", "checks", "records", "set", "unrecord", "uncheck"}
  /\ lastCheckId \in Nat /\ nodeChanges \in Nat /\ nodeFailures \in Nat
  /\ TodoType /\ JobsHealthy

\* What an iteration looks at keeps the types.
LEMMA LookKeepsNodesType ==
  ASSUME NodesTypeInv,
         \/ ListNodes \/ ForgetNodes \/ ListRecords \/ StartSettingRecords
         \/ StartDeletingRecords \/ StartDeletingChecks \/ NodesFinish \/ NodesFail
  PROVE  NodesTypeInv'
<1> USE DEF NodesTypeInv, TodoType, JobsHealthy, IsHealthy, nodesWorld, route53, nodesFound
<1>1. CASE ListNodes \/ ForgetNodes \/ ListRecords
  BY <1>1 DEF ListNodes, ForgetNodes, ListRecords, InNodesPhase, NextNodesPhase, KeptHealthy
<1>2. CASE StartSettingRecords
  BY <1>2 DEF StartSettingRecords, InNodesPhase, NextNodesPhase
<1>3. CASE StartDeletingRecords \/ StartDeletingChecks
  BY <1>3 DEF StartDeletingRecords, StartDeletingChecks, InNodesPhase, NextNodesPhase
<1>4. CASE NodesFinish \/ NodesFail
  BY <1>4 DEF NodesFinish, NodesFail, NothingFound, InNodesPhase
<1> QED
  BY <1>1, <1>2, <1>3, <1>4

\* And so does what it does with one item of a loop.
LEMMA ItemKeepsNodesType ==
  ASSUME NodesTypeInv,
         \/ nodesPhase = "nodes" /\ \E n \in nodesTodo : ReadNode(n)
         \/ nodesPhase = "checks" /\ \E c \in nodesTodo : CheckHealthcheck(c)
         \/ nodesPhase = "records" /\ \E r \in nodesTodo : CheckRecord(r)
         \/ nodesPhase = "unrecord" /\ \E r \in nodesTodo : DeleteRecord(r)
         \/ nodesPhase = "uncheck" /\ \E c \in nodesTodo : DeleteHealthcheck(c)
  PROVE  NodesTypeInv'
<1> USE DEF NodesTypeInv, TodoType, JobsHealthy, IsHealthy, nodesWorld, route53, nodesFound,
            InNodesPhase, TakesTodo
<1>1. CASE nodesPhase = "nodes" /\ \E n \in nodesTodo : ReadNode(n)
  BY <1>1 DEF ReadNode
<1>2. CASE nodesPhase = "checks" /\ \E c \in nodesTodo : CheckHealthcheck(c)
  BY <1>2 DEF CheckHealthcheck, Healthchecks
<1>3. CASE nodesPhase = "records" /\ \E r \in nodesTodo : CheckRecord(r)
  BY <1>3 DEF CheckRecord, Records
<1>4. CASE nodesPhase = "unrecord" /\ \E r \in nodesTodo : DeleteRecord(r)
  BY <1>4 DEF DeleteRecord
<1>5. CASE nodesPhase = "uncheck" /\ \E c \in nodesTodo : DeleteHealthcheck(c)
  BY <1>5 DEF DeleteHealthcheck
<1> QED
  BY <1>1, <1>2, <1>3, <1>4, <1>5

\* What it makes for a node has the address the node was found with.
LEMMA SetKeepsNodesType ==
  ASSUME NodesTypeInv,
         \/ nodesPhase = "set" /\ \E n \in nodesTodo : SetHealthcheck(n)
         \/ \E job \in nodeCheck : SetRecord(job)
  PROVE  NodesTypeInv'
<1> USE DEF NodesTypeInv, TodoType, JobsHealthy, IsHealthy, nodesWorld, route53, nodesFound,
            InNodesPhase, TakesTodo
<1>1. ASSUME nodesPhase = "set", NEW n \in nodesTodo, SetHealthcheck(n)
      PROVE  NodesTypeInv'
  <2>1. n \in Nodes /\ healthyIps[n] \in Ips
    BY <1>1
  <2>2. CASE MissesHealthcheck(n)
    <3>1. lastCheckId' = lastCheckId + 1
      BY <1>1, <2>2 DEF SetHealthcheck
    <3>2. [id |-> lastCheckId', node |-> n, ip |-> healthyIps[n]] \in Healthchecks
      BY <2>1, <3>1 DEF Healthchecks
    <3>3. nodeCheck' = {[node |-> n, check |-> lastCheckId']} /\ lastCheckId' \in Nat
      BY <1>1, <2>2, <3>1 DEF SetHealthcheck
    <3>4. healthchecks' = healthchecks \union {[id |-> lastCheckId', node |-> n, ip |-> healthyIps[n]]}
      BY <1>1, <2>2 DEF SetHealthcheck
    <3> QED
      BY <1>1, <2>1, <3>2, <3>3, <3>4 DEF SetHealthcheck
  <2>3. CASE ~MissesHealthcheck(n)
    <3>1. nodeCheck' = {[node |-> n, check |-> c.id] : c \in {d \in foundChecks : d.node = n}}
      BY <1>1, <2>3 DEF SetHealthcheck
    <3>2. /\ nodeCheck' \subseteq [node : Nodes, check : Nat]
          /\ \A job \in nodeCheck' : job.node = n
      BY <2>1, <3>1 DEF Healthchecks
    <3> QED
      BY <1>1, <2>1, <2>3, <3>2 DEF SetHealthcheck
  <2> QED
    BY <2>2, <2>3
<1>2. ASSUME NEW job \in nodeCheck, SetRecord(job)
      PROVE  NodesTypeInv'
  <2>1. job.node \in Nodes /\ job.check \in Nat /\ healthyIps[job.node] \in Ips
    BY <1>2
  <2>2. dnsRecords' \subseteq Records
    BY <1>2, <2>1 DEF SetRecord, Records
  <2> QED
    BY <1>2, <2>2 DEF SetRecord
<1> QED
  BY <1>1, <1>2

\* Every step keeps the types.
LEMMA NodesStepType ==
  ASSUME NodesTypeInv, [NodesNext]_nodesVars
  PROVE  NodesTypeInv'
<1>1. ASSUME NEW n \in Nodes, NEW ip \in Ips \union {0}, NodeChanges(n, ip)
      PROVE  NodesTypeInv'
  <2>1. movedBack' \subseteq Nodes
    BY <1>1 DEF NodeChanges, NodesTypeInv, Records
  <2> QED
    BY <1>1, <2>1
    DEF NodeChanges, NodesTypeInv, TodoType, JobsHealthy, IsHealthy, route53, nodesFound
<1>2. CASE UNCHANGED nodesVars
  BY <1>2 DEF nodesVars, NodesTypeInv, TodoType, JobsHealthy, IsHealthy, nodesWorld, route53, nodesFound
<1> QED
  BY <1>1, <1>2, LookKeepsNodesType, ItemKeepsNodesType, SetKeepsNodesType DEF NodesNext, NodesDaemon

\* The types of the nodes checker: no health check and no record is made
\* without an address, for any nodes, addresses, changes and failures.
THEOREM NodesTypeCorrect == NodesSpec => []NodesTypeOK
<1>1. NodesInit => NodesTypeInv
  BY DEF NodesInit, NodesTypeInv, TodoType, JobsHealthy
<1>2. NodesTypeInv => NodesTypeOK
  BY DEF NodesTypeInv, TodoType, NodesTypeOK
<1> QED
  BY <1>1, <1>2, NodesStepType, PTL DEF NodesSpec

-----------------------------------------------------------------------------
(* What an iteration of the nodes checker achieves *)

KeysFollow ==
  /\ nodesPhase = "idle" => \A n \in Nodes : ~IsHealthy(n)
  /\ nodesPhase = "nodes" => \A n \in Nodes : IsHealthy(n) => n \in nodeHealthy
  /\ nodesPhase \notin {"idle", "nodes"} => \A n \in Nodes : n \in nodeHealthy <=> IsHealthy(n)

\* What was looked at is to be made anew, or is as it should be.
LookedAt ==
  /\ nodesPhase \in {"checks", "records", "set"} =>
       \A c \in foundChecks :
         c.node \in redoChecks \/ (c \in healthchecks /\ ~HasMoved(c.node, c.ip))
  /\ nodesPhase \in {"records", "set"} =>
       \A r \in foundRecords :
         \/ r.node \in redoRecords
         \/ r \in dnsRecords /\ ~HasMoved(r.node, r.ip) /\ r.node \notin redoChecks

\* What there is of other than healthy nodes was found, and is deleted.
OthersLeave ==
  /\ nodesPhase \in {"set", "unrecord"} =>
       \A c \in healthchecks : IsHealthy(c.node) \/ c \in foundChecks
  /\ nodesPhase = "set" => \A r \in dnsRecords : IsHealthy(r.node) \/ r \in foundRecords
  /\ nodesPhase = "unrecord" =>
       /\ \A r \in dnsRecords : IsHealthy(r.node) \/ r \in nodesTodo
       /\ \A r \in nodesTodo : ~IsHealthy(r.node)
  /\ nodesPhase = "uncheck" =>
       /\ \A r \in dnsRecords : IsHealthy(r.node)
       /\ \A c \in healthchecks : IsHealthy(c.node) \/ c \in nodesTodo
       /\ \A c \in nodesTodo : ~IsHealthy(c.node)

CameBack(n) == n \in movedBack /\ nodeFailures > 0

IsServed(n) ==
  \E c \in healthchecks, r \in dnsRecords :
    /\ c.node = n /\ c.ip = healthyIps[n]
    /\ r.node = n /\ r.ip = healthyIps[n]
    /\ r.check = c.id \/ CameBack(n)

\* Healthy nodes are served once their turn is over.
ServedInTurn ==
  /\ nodesPhase \in {"set", "unrecord", "uncheck"} =>
       \A n \in Nodes :
         IsHealthy(n) /\ (nodesPhase = "set" => n \notin nodesTodo) =>
           IsServed(n) \/ \E job \in nodeCheck : job.node = n
  /\ \A job \in nodeCheck :
       \E c \in healthchecks :
         c.id = job.check /\ c.node = job.node /\ c.ip = healthyIps[job.node]

IsLinked(r) == \E c \in healthchecks : c.id = r.check /\ c.node = r.node /\ c.ip = r.ip

\* A record without its health check is of an address the node does not have,
\* or is back at.
LinksBreak ==
  /\ \A r \in dnsRecords :
       HasMoved(r.node, r.ip) => nodeIp[r.node] # r.ip \/ r.node \in movedBack
  /\ \A r \in dnsRecords :
       \/ IsLinked(r)
       \/ /\ healthyIps[r.node] # r.ip \/ CameBack(r.node)
          /\ nodeIp[r.node] # r.ip \/ r.node \in movedBack
          /\ nodeFailures > 0 \/ (nodesPhase \in {"checks", "records"} /\ r.node \in redoChecks)

IterationInv == KeysFollow /\ LookedAt /\ OthersLeave /\ ServedInTurn /\ LinksBreak

\* What is there before a step of an iteration.
IterationHyps == NodesTypeInv /\ DnsInv /\ IterationInv

\* Where only the phase and what is to do change, the keys, the records and
\* what the iteration knows are as they were.
LEMMA ServedStays ==
  ASSUME UNCHANGED <<healthyIps, healthchecks, dnsRecords, movedBack, nodeFailures>>
  PROVE  /\ \A n : IsHealthy(n)' = IsHealthy(n)
         /\ \A n, ip : HasMoved(n, ip)' = HasMoved(n, ip)
         /\ \A n : IsServed(n)' = IsServed(n)
         /\ \A n : CameBack(n)' = CameBack(n)
         /\ \A r : IsLinked(r)' = IsLinked(r)
BY DEF IsHealthy, HasMoved, IsServed, CameBack, IsLinked

\* A node that moves away from its record is not at its address, and one that
\* moves there is noted.
LEMMA ChangeKeepsIteration ==
  ASSUME IterationHyps, NEW n \in Nodes, NEW ip \in Ips \union {0}, NodeChanges(n, ip)
  PROVE  IterationInv'
<1>1. /\ nodeIp' = [nodeIp EXCEPT ![n] = ip]
      /\ movedBack' = movedBack \union {r.node : r \in {d \in dnsRecords : d.node = n /\ d.ip = ip}}
      /\ UNCHANGED <<nodeHealthy, route53, nodesPhase, nodesTodo, nodesFound, nodeCheck, nodeFailures>>
  BY DEF NodeChanges
<1>2. \A m : IsHealthy(m)' = IsHealthy(m)
  BY <1>1 DEF IsHealthy, nodesFound
<1>3. \A m, a : HasMoved(m, a)' = HasMoved(m, a)
  BY <1>1 DEF IsHealthy, HasMoved, nodesFound
<1>4. \A m : CameBack(m) => CameBack(m)'
  BY <1>1 DEF CameBack
<1>5. \A m : IsServed(m) => IsServed(m)'
  BY <1>1, <1>4 DEF IsServed, nodesFound, route53
<1>6. \A r : IsLinked(r)' = IsLinked(r)
  BY <1>1 DEF IsLinked, route53
<1>7. \A r \in dnsRecords :
        nodeIp[r.node] # r.ip \/ r.node \in movedBack =>
          (nodeIp[r.node] # r.ip)' \/ (r.node \in movedBack)'
  <2> SUFFICES ASSUME NEW r \in dnsRecords, nodeIp[r.node] # r.ip \/ r.node \in movedBack,
                      r.node \notin movedBack'
               PROVE  nodeIp'[r.node] # r.ip
    BY <1>1
  <2>1. r.node \in Nodes /\ nodeIp \in [Nodes -> Ips \union {0}]
    BY DEF IterationHyps, NodesTypeInv, Records
  <2> QED
    BY <1>1, <2>1
<1>8. LinksBreak'
  BY <1>1, <1>3, <1>4, <1>6, <1>7 DEF IterationHyps, IterationInv, LinksBreak, nodesFound, route53
<1>9. ServedInTurn'
  BY <1>1, <1>2, <1>5 DEF IterationHyps, IterationInv, ServedInTurn, nodesFound, route53
<1>10. KeysFollow' /\ LookedAt' /\ OthersLeave'
  BY <1>1, <1>2, <1>3
  DEF IterationHyps, IterationInv, KeysFollow, LookedAt, OthersLeave, nodesFound, route53
<1> QED
  BY <1>8, <1>9, <1>10 DEF IterationInv

\* From one loop to the next: the one before has come to everything.
LEMMA LoopKeepsIteration ==
  ASSUME IterationHyps,
         \/ ListNodes \/ ForgetNodes \/ ListRecords \/ StartSettingRecords
         \/ StartDeletingRecords \/ StartDeletingChecks
  PROVE  IterationInv'
<1>1. /\ UNCHANGED <<healthyIps, foundChecks, foundRecords, redoChecks, redoRecords, healthchecks,
                     dnsRecords, movedBack, nodeFailures, nodeIp, nodeCheck>>
      /\ nodesPhase # "idle" => nodesTodo = {}
  BY DEF ListNodes, ForgetNodes, ListRecords, StartSettingRecords, StartDeletingRecords,
         StartDeletingChecks, InNodesPhase, NextNodesPhase, nodesFound, nodesWorld, route53
<1>2. /\ \A n : IsHealthy(n)' = IsHealthy(n)
      /\ \A n, ip : HasMoved(n, ip)' = HasMoved(n, ip)
      /\ \A n : IsServed(n)' = IsServed(n)
      /\ \A n : CameBack(n)' = CameBack(n)
      /\ \A r : IsLinked(r)' = IsLinked(r)
  BY <1>1, ServedStays
<1> USE DEF IterationHyps, IterationInv
<1>3. CASE ListNodes
  <2>1. nodesPhase = "idle" /\ nodesPhase' = "nodes"
    BY <1>3 DEF ListNodes, InNodesPhase, NextNodesPhase
  <2> QED
    BY <1>1, <1>2, <2>1 DEF KeysFollow, LookedAt, OthersLeave, ServedInTurn, LinksBreak
<1>4. CASE ForgetNodes
  <2>1. nodesPhase = "nodes" /\ nodesPhase' = "checks" /\ nodeHealthy' = {n \in nodeHealthy : IsHealthy(n)}
    BY <1>4 DEF ForgetNodes, InNodesPhase, NextNodesPhase, KeptHealthy
  <2>2. foundChecks = {}
    BY <2>1 DEF DnsInv, FoundIsCurrent
  <2>3. KeysFollow'
    BY <1>2, <2>1 DEF KeysFollow
  <2> QED
    BY <1>1, <1>2, <2>1, <2>2, <2>3 DEF LookedAt, OthersLeave, ServedInTurn, LinksBreak
<1>5. CASE ListRecords
  <2>1. nodesPhase = "checks" /\ nodesPhase' = "records" /\ UNCHANGED nodeHealthy
    BY <1>5 DEF ListRecords, InNodesPhase, NextNodesPhase
  <2>2. foundRecords = {}
    BY <2>1 DEF DnsInv, FoundIsCurrent
  <2> QED
    BY <1>1, <1>2, <2>1, <2>2 DEF KeysFollow, LookedAt, OthersLeave, ServedInTurn, LinksBreak
<1>6. CASE StartSettingRecords
  <2>1. /\ nodesPhase = "records" /\ nodesPhase' = "set" /\ UNCHANGED nodeHealthy
        /\ nodesTodo' = {n \in Nodes : IsHealthy(n)}
    BY <1>6 DEF StartSettingRecords, InNodesPhase, NextNodesPhase
  <2>2. /\ \A c \in healthchecks : c \in foundChecks
        /\ \A r \in dnsRecords : r \in foundRecords /\ r.node \notin redoRecords
    BY <1>1, <2>1 DEF DnsInv, FoundIsCurrent
  <2>3. \A r \in dnsRecords : r.node \notin redoChecks
    BY <2>1, <2>2 DEF LookedAt
  <2>4. LinksBreak'
    BY <1>1, <1>2, <2>1, <2>3 DEF LinksBreak
  <2>5. KeysFollow' /\ LookedAt' /\ OthersLeave'
    BY <1>1, <1>2, <2>1, <2>2 DEF KeysFollow, LookedAt, OthersLeave
  <2>6. ServedInTurn'
    BY <1>1, <1>2, <2>1 DEF ServedInTurn
  <2> QED
    BY <2>4, <2>5, <2>6
<1>7. CASE StartDeletingRecords
  <2>1. /\ nodesPhase = "set" /\ nodesPhase' = "unrecord" /\ UNCHANGED nodeHealthy
        /\ nodesTodo' = {r \in foundRecords : ~IsHealthy(r.node)}
    BY <1>7 DEF StartDeletingRecords, InNodesPhase, NextNodesPhase
  <2>2. KeysFollow' /\ LookedAt' /\ OthersLeave'
    BY <1>1, <1>2, <2>1 DEF KeysFollow, LookedAt, OthersLeave
  <2>3. ServedInTurn' /\ LinksBreak'
    BY <1>1, <1>2, <2>1 DEF ServedInTurn, LinksBreak
  <2> QED
    BY <2>2, <2>3
<1>8. CASE StartDeletingChecks
  <2>1. /\ nodesPhase = "unrecord" /\ nodesPhase' = "uncheck" /\ UNCHANGED nodeHealthy
        /\ nodesTodo' = {c \in foundChecks : ~IsHealthy(c.node)}
    BY <1>8 DEF StartDeletingChecks, InNodesPhase, NextNodesPhase
  <2>2. KeysFollow' /\ LookedAt' /\ OthersLeave'
    BY <1>1, <1>2, <2>1 DEF KeysFollow, LookedAt, OthersLeave
  <2>3. ServedInTurn' /\ LinksBreak'
    BY <1>1, <1>2, <2>1 DEF ServedInTurn, LinksBreak
  <2> QED
    BY <2>2, <2>3
<1> QED
  BY <1>3, <1>4, <1>5, <1>6, <1>7, <1>8

\* The next iteration knows nothing of this one.
LEMMA EndKeepsIteration ==
  ASSUME IterationHyps, NodesFinish \/ NodesFail
  PROVE  IterationInv'
<1>1. /\ nodesPhase' = "idle" /\ healthyIps' = [n \in Nodes |-> 0] /\ nodeCheck' = {}
      /\ UNCHANGED <<nodeIp, movedBack, healthchecks, dnsRecords>>
  BY DEF NodesFinish, NodesFail, InNodesPhase, NothingFound, nodesWorld, route53
<1>2. nodeFailures' \in Nat /\ nodeFailures' >= nodeFailures /\ nodeFailures \in Nat
  BY DEF NodesFinish, NodesFail, InNodesPhase, IterationHyps, NodesTypeInv
<1>3. nodesPhase = "uncheck" \/ nodeFailures' > 0
  BY DEF NodesFinish, NodesFail, InNodesPhase, IterationHyps, NodesTypeInv
<1>4. \A r \in dnsRecords : r.node \in Nodes /\ r.ip # 0
  BY NodesAssumption DEF IterationHyps, NodesTypeInv, Records
<1>5. \A r : IsLinked(r)' = IsLinked(r)
  BY <1>1 DEF IsLinked
<1>6. LinksBreak'
  <2>1. \A r \in dnsRecords : ~HasMoved(r.node, r.ip)' /\ healthyIps'[r.node] # r.ip
    BY <1>1, <1>4 DEF HasMoved, IsHealthy
  <2>2. \A r \in dnsRecords :
          \/ IsLinked(r)
          \/ /\ nodeIp[r.node] # r.ip \/ r.node \in movedBack
             /\ nodeFailures' > 0
    BY <1>2, <1>3 DEF IterationHyps, IterationInv, LinksBreak
  <2> QED
    BY <1>1, <1>5, <2>1, <2>2 DEF LinksBreak
<1>7. KeysFollow' /\ LookedAt' /\ OthersLeave' /\ ServedInTurn'
  BY <1>1 DEF KeysFollow, LookedAt, OthersLeave, ServedInTurn, IsHealthy
<1> QED
  BY <1>6, <1>7 DEF IterationInv

\* A record without a health check is found to be stale, or its node is back.
LEMMA ReadKeepsIteration ==
  ASSUME IterationHyps, nodesPhase = "nodes", NEW n \in nodesTodo, ReadNode(n)
  PROVE  IterationInv'
<1>1. /\ nodesPhase' = "nodes" /\ healthyIps' = [healthyIps EXCEPT ![n] = nodeIp[n]]
      /\ nodeHealthy' = IF nodeIp[n] = 0 THEN nodeHealthy ELSE nodeHealthy \union {n}
      /\ UNCHANGED <<nodeIp, movedBack, healthchecks, dnsRecords, nodeCheck, nodeFailures>>
  BY DEF ReadNode, InNodesPhase, TakesTodo, nodesWorld, route53
<1>2. /\ n \in Nodes /\ healthyIps \in [Nodes -> Ips \union {0}]
      /\ \A r \in dnsRecords : r.node \in Nodes
  BY DEF IterationHyps, NodesTypeInv, TodoType, Records
<1>3. nodeCheck = {}
  BY DEF IterationHyps, NodesTypeInv, JobsHealthy
<1>4. \A r : IsLinked(r)' = IsLinked(r)
  BY <1>1 DEF IsLinked
<1>5. LinksBreak'
  <2> SUFFICES ASSUME NEW r \in dnsRecords
               PROVE  /\ HasMoved(r.node, r.ip)' => nodeIp[r.node] # r.ip \/ r.node \in movedBack
                      /\ \/ IsLinked(r)
                         \/ /\ healthyIps'[r.node] # r.ip \/ CameBack(r.node)
                            /\ nodeIp[r.node] # r.ip \/ r.node \in movedBack
                            /\ nodeFailures > 0
    BY <1>1, <1>4 DEF LinksBreak, CameBack
  <2>1. /\ HasMoved(r.node, r.ip) => nodeIp[r.node] # r.ip \/ r.node \in movedBack
        /\ \/ IsLinked(r)
           \/ /\ healthyIps[r.node] # r.ip \/ CameBack(r.node)
              /\ nodeIp[r.node] # r.ip \/ r.node \in movedBack
              /\ nodeFailures > 0
    BY DEF IterationHyps, IterationInv, LinksBreak
  <2>2. CASE r.node = n
    BY <1>1, <1>2, <2>1, <2>2 DEF HasMoved, CameBack
  <2>3. CASE r.node # n
    <3>1. healthyIps'[r.node] = healthyIps[r.node]
      BY <1>1, <1>2, <2>3
    <3> QED
      BY <2>1, <3>1 DEF HasMoved, IsHealthy
  <2> QED
    BY <2>2, <2>3
<1>6. KeysFollow'
  BY <1>1, <1>2 DEF IterationHyps, IterationInv, KeysFollow, IsHealthy
<1>7. LookedAt' /\ OthersLeave' /\ ServedInTurn'
  BY <1>1, <1>3 DEF LookedAt, OthersLeave, ServedInTurn
<1> QED
  BY <1>5, <1>6, <1>7 DEF IterationInv

\* A health check of a moved node leaves its record without one.
LEMMA CheckKeepsIteration ==
  ASSUME IterationHyps, nodesPhase = "checks", NEW c \in nodesTodo, CheckHealthcheck(c)
  PROVE  IterationInv'
<1>1. /\ nodesPhase' = "checks" /\ c \in healthchecks
      /\ foundChecks' = foundChecks \union {c}
      /\ UNCHANGED <<nodeIp, movedBack, nodeHealthy, healthyIps, dnsRecords, nodeCheck, nodeFailures>>
  BY DEF CheckHealthcheck, InNodesPhase, TakesTodo, nodesWorld, IterationHyps, DnsInv, FoundIsCurrent
<1>2. \/ /\ HasMoved(c.node, c.ip)
         /\ healthchecks' = healthchecks \ {c} /\ redoChecks' = redoChecks \union {c.node}
      \/ ~HasMoved(c.node, c.ip) /\ UNCHANGED <<healthchecks, redoChecks>>
  BY DEF CheckHealthcheck
<1>3. /\ \A n : IsHealthy(n)' = IsHealthy(n)
      /\ \A n, ip : HasMoved(n, ip)' = HasMoved(n, ip)
      /\ \A n : CameBack(n)' = CameBack(n)
  BY <1>1 DEF IsHealthy, HasMoved, CameBack
<1>4. nodeCheck = {}
  BY DEF IterationHyps, DnsInv, OneJob
<1>5. LinksBreak'
  <2> SUFFICES ASSUME NEW r \in dnsRecords
               PROVE  /\ HasMoved(r.node, r.ip) => nodeIp[r.node] # r.ip \/ r.node \in movedBack
                      /\ \/ IsLinked(r)'
                         \/ /\ healthyIps[r.node] # r.ip \/ CameBack(r.node)
                            /\ nodeIp[r.node] # r.ip \/ r.node \in movedBack
                            /\ nodeFailures > 0 \/ r.node \in redoChecks'
    BY <1>1, <1>3 DEF LinksBreak
  <2>1. /\ HasMoved(r.node, r.ip) => nodeIp[r.node] # r.ip \/ r.node \in movedBack
        /\ \/ IsLinked(r)
           \/ /\ healthyIps[r.node] # r.ip \/ CameBack(r.node)
              /\ nodeIp[r.node] # r.ip \/ r.node \in movedBack
              /\ nodeFailures > 0 \/ r.node \in redoChecks
    BY DEF IterationHyps, IterationInv, LinksBreak
  <2>2. CASE IsLinked(r)
    <3>1. PICK d \in healthchecks : d.id = r.check /\ d.node = r.node /\ d.ip = r.ip
      BY <2>2 DEF IsLinked
    <3>2. CASE d \in healthchecks'
      BY <2>1, <3>1, <3>2 DEF IsLinked
    <3>3. CASE d \notin healthchecks'
      <4>1. HasMoved(r.node, r.ip) /\ r.node \in redoChecks'
        BY <1>2, <3>1, <3>3
      <4> QED
        BY <2>1, <4>1 DEF HasMoved
    <3> QED
      BY <3>2, <3>3
  <2>3. CASE ~IsLinked(r)
    BY <1>2, <2>1, <2>3
  <2> QED
    BY <2>2, <2>3
<1>6. LookedAt'
  BY <1>1, <1>2, <1>3 DEF IterationHyps, IterationInv, LookedAt
<1>7. KeysFollow' /\ OthersLeave' /\ ServedInTurn'
  BY <1>1, <1>3, <1>4 DEF IterationHyps, IterationInv, KeysFollow, OthersLeave, ServedInTurn
<1> QED
  BY <1>5, <1>6, <1>7 DEF IterationInv

\* A record goes with its health check, or with the address of its node.
LEMMA CheckRecordKeepsIteration ==
  ASSUME IterationHyps, nodesPhase = "records", NEW r \in nodesTodo, CheckRecord(r)
  PROVE  IterationInv'
<1>1. /\ nodesPhase' = "records" /\ r \in dnsRecords
      /\ foundRecords' = foundRecords \union {r}
      /\ UNCHANGED <<nodeIp, movedBack, nodeHealthy, healthyIps, healthchecks, foundChecks,
                     redoChecks, nodeCheck, nodeFailures>>
  BY DEF CheckRecord, InNodesPhase, TakesTodo, nodesWorld, IterationHyps, DnsInv, FoundIsCurrent
<1>2. \/ dnsRecords' = dnsRecords \ {r} /\ redoRecords' = redoRecords \union {r.node}
      \/ /\ r.node \notin redoChecks /\ ~HasMoved(r.node, r.ip)
         /\ UNCHANGED <<dnsRecords, redoRecords>>
  BY DEF CheckRecord
<1>3. /\ \A n : IsHealthy(n)' = IsHealthy(n)
      /\ \A n, ip : HasMoved(n, ip)' = HasMoved(n, ip)
      /\ \A n : CameBack(n)' = CameBack(n)
      /\ \A d : IsLinked(d)' = IsLinked(d)
  BY <1>1 DEF IsHealthy, HasMoved, CameBack, IsLinked
<1>4. nodeCheck = {}
  BY DEF IterationHyps, DnsInv, OneJob
<1>5. LookedAt'
  BY <1>1, <1>2, <1>3 DEF IterationHyps, IterationInv, LookedAt
<1>6. LinksBreak'
  BY <1>1, <1>2, <1>3 DEF IterationHyps, IterationInv, LinksBreak
<1>7. KeysFollow' /\ OthersLeave' /\ ServedInTurn'
  BY <1>1, <1>3, <1>4 DEF IterationHyps, IterationInv, KeysFollow, OthersLeave, ServedInTurn
<1> QED
  BY <1>5, <1>6, <1>7 DEF IterationInv

\* The record about to be made has the health check that its node has.
LEMMA SetHealthcheckKeepsIteration ==
  ASSUME IterationHyps, nodesPhase = "set", NEW n \in nodesTodo, SetHealthcheck(n)
  PROVE  IterationInv'
<1>1. /\ nodesPhase' = "set" /\ nodesTodo' = nodesTodo \ {n} /\ nodeCheck = {}
      /\ UNCHANGED <<nodeIp, movedBack, nodeHealthy, healthyIps, dnsRecords, foundChecks,
                     foundRecords, redoChecks, redoRecords, nodeFailures>>
  BY DEF SetHealthcheck, InNodesPhase, TakesTodo, nodesWorld, nodesFound
<1>2. n \in Nodes /\ IsHealthy(n)
  BY DEF IterationHyps, NodesTypeInv, TodoType, JobsHealthy
<1>3. /\ \A m : IsHealthy(m)' = IsHealthy(m)
      /\ \A m, ip : HasMoved(m, ip)' = HasMoved(m, ip)
      /\ \A m : CameBack(m)' = CameBack(m)
  BY <1>1 DEF IsHealthy, HasMoved, CameBack
<1>4. /\ healthchecks \subseteq healthchecks'
      /\ \A c \in healthchecks' : c \in healthchecks \/ c.node = n
      /\ \E job \in nodeCheck' : job.node = n
      /\ \A job \in nodeCheck' :
           \E c \in healthchecks' :
             c.id = job.check /\ c.node = job.node /\ c.ip = healthyIps[job.node]
  <2>1. CASE MissesHealthcheck(n)
    <3> DEFINE new == [id |-> lastCheckId', node |-> n, ip |-> healthyIps[n]]
               job == [node |-> n, check |-> lastCheckId']
    <3>1. healthchecks' = healthchecks \union {new} /\ nodeCheck' = {job}
      BY <2>1 DEF SetHealthcheck
    <3>2. /\ new.id = lastCheckId' /\ new.node = n /\ new.ip = healthyIps[n]
          /\ job.node = n /\ job.check = lastCheckId'
      OBVIOUS
    <3> HIDE DEF new, job
    <3> QED
      BY <3>1, <3>2
  <2>2. CASE ~MissesHealthcheck(n)
    <3>1. PICK c \in foundChecks : c.node = n
      BY <2>2 DEF MissesHealthcheck
    <3>2. /\ n \notin redoChecks
          /\ nodeCheck' = {[node |-> n, check |-> d.id] : d \in {d \in foundChecks : d.node = n}}
          /\ UNCHANGED healthchecks
      BY <2>2 DEF SetHealthcheck, MissesHealthcheck
    <3>3. \A d \in foundChecks : d.node = n => d \in healthchecks /\ d.ip = healthyIps[n]
      BY <1>2, <3>2 DEF IterationHyps, IterationInv, LookedAt, HasMoved
    <3>4. \A job \in nodeCheck' :
            /\ job.node = n
            /\ \E d \in foundChecks : d.node = n /\ job.check = d.id
      BY <3>2
    <3>5. [node |-> n, check |-> c.id] \in nodeCheck'
      BY <3>1, <3>2
    <3>6. \A job \in nodeCheck' :
            \E d \in healthchecks' :
              d.id = job.check /\ d.node = job.node /\ d.ip = healthyIps[job.node]
      <4> SUFFICES ASSUME NEW job \in nodeCheck'
                   PROVE  \E d \in healthchecks' :
                            d.id = job.check /\ d.node = job.node /\ d.ip = healthyIps[job.node]
        OBVIOUS
      <4>1. PICK d \in foundChecks : d.node = n /\ job.check = d.id /\ job.node = n
        BY <3>4
      <4> QED
        BY <3>2, <3>3, <4>1
    <3>7. \E job \in nodeCheck' : job.node = n
      BY <3>4, <3>5
    <3> QED
      BY <3>2, <3>6, <3>7
  <2> QED
    BY <2>1, <2>2
<1>5. \A m : IsServed(m) => IsServed(m)'
  BY <1>1, <1>3, <1>4 DEF IsServed
<1>6. \A r : IsLinked(r) => IsLinked(r)'
  BY <1>4 DEF IsLinked
<1>7. ServedInTurn'
  BY <1>1, <1>3, <1>4, <1>5 DEF IterationHyps, IterationInv, ServedInTurn
<1>8. LinksBreak'
  BY <1>1, <1>3, <1>6 DEF IterationHyps, IterationInv, LinksBreak
<1>9. KeysFollow' /\ LookedAt' /\ OthersLeave'
  BY <1>1, <1>2, <1>3, <1>4 DEF IterationHyps, IterationInv, KeysFollow, LookedAt, OthersLeave
<1> QED
  BY <1>7, <1>8, <1>9 DEF IterationInv

\* A record that was found to be right has the health check of its node, the
\* only one, or its node came back.
LEMMA SetRecordKeepsIteration ==
  ASSUME IterationHyps, NEW job \in nodeCheck, SetRecord(job)
  PROVE  IterationInv'
<1> DEFINE n == job.node
           new == [node |-> n, ip |-> healthyIps[n], check |-> job.check]
<1>1. /\ nodesPhase = "set" /\ nodesPhase' = "set" /\ nodeCheck' = nodeCheck \ {job}
      /\ UNCHANGED <<nodesTodo, nodeIp, movedBack, nodeHealthy, healthyIps, healthchecks,
                     foundChecks, foundRecords, redoChecks, redoRecords, nodeFailures>>
  BY DEF SetRecord, InNodesPhase, nodesWorld, nodesFound
<1>2. n \in Nodes /\ IsHealthy(n)
  BY DEF IterationHyps, NodesTypeInv, JobsHealthy
<1>3. /\ \A m : IsHealthy(m)' = IsHealthy(m)
      /\ \A m, ip : HasMoved(m, ip)' = HasMoved(m, ip)
      /\ \A m : CameBack(m)' = CameBack(m)
      /\ \A r : IsLinked(r)' = IsLinked(r)
  BY <1>1 DEF IsHealthy, HasMoved, CameBack, IsLinked
<1>4. PICK c \in healthchecks : c.id = job.check /\ c.node = n /\ c.ip = healthyIps[n]
  BY DEF IterationHyps, IterationInv, ServedInTurn
<1>5. new.node = n /\ new.ip = healthyIps[n] /\ new.check = job.check
  OBVIOUS
<1> HIDE DEF new
<1>6. \/ MissesRecord(n) /\ dnsRecords' = dnsRecords \union {new}
      \/ ~MissesRecord(n) /\ UNCHANGED dnsRecords
  BY DEF SetRecord, new
<1>7. IsServed(n)'
  <2>1. CASE MissesRecord(n)
    BY <1>1, <1>4, <1>5, <1>6, <2>1 DEF IsServed
  <2>2. CASE ~MissesRecord(n)
    <3>1. PICK r \in foundRecords : r.node = n
      BY <2>2 DEF MissesRecord
    <3>2. r \in dnsRecords /\ ~HasMoved(n, r.ip)
      BY <1>1, <2>2, <3>1 DEF MissesRecord, IterationHyps, IterationInv, LookedAt
    <3>3. r.ip = healthyIps[n]
      BY <1>2, <3>2 DEF HasMoved
    <3>4. IsLinked(r) \/ CameBack(n)
      BY <3>1, <3>2, <3>3 DEF IterationHyps, IterationInv, LinksBreak
    <3>5. IsLinked(r) => r.check = c.id
      BY <1>4, <3>1 DEF IsLinked, IterationHyps, DnsInv, OnePerNode
    <3>6. r \in dnsRecords' /\ c \in healthchecks' /\ healthyIps' = healthyIps
      BY <1>1, <1>6, <2>2, <3>2
    <3>7. r.check = c.id \/ CameBack(n)'
      BY <1>3, <3>4, <3>5
    <3> QED
      BY <1>4, <3>1, <3>3, <3>6, <3>7 DEF IsServed
  <2> QED
    BY <2>1, <2>2
<1>8. \A m : IsServed(m) => IsServed(m)'
  BY <1>1, <1>3, <1>6 DEF IsServed
<1>9. ServedInTurn'
  <2>1. \A other \in nodeCheck : other = job
    BY DEF IterationHyps, DnsInv, OneJob
  <2> QED
    BY <1>1, <1>3, <1>7, <1>8, <2>1 DEF IterationHyps, IterationInv, ServedInTurn
<1>10. LinksBreak'
  <2>1. IsLinked(new)
    BY <1>4, <1>5 DEF IsLinked
  <2>2. ~HasMoved(new.node, new.ip)
    BY <1>5 DEF HasMoved
  <2> QED
    BY <1>1, <1>3, <1>6, <2>1, <2>2 DEF IterationHyps, IterationInv, LinksBreak
<1>11. KeysFollow' /\ LookedAt' /\ OthersLeave'
  BY <1>1, <1>2, <1>3, <1>5, <1>6
  DEF IterationHyps, IterationInv, KeysFollow, LookedAt, OthersLeave
<1> QED
  BY <1>9, <1>10, <1>11 DEF IterationInv

\* The records and health checks deleted at the end are not of healthy nodes.
LEMMA DeleteKeepsIteration ==
  ASSUME IterationHyps,
         \/ nodesPhase = "unrecord" /\ \E r \in nodesTodo : DeleteRecord(r)
         \/ nodesPhase = "uncheck" /\ \E c \in nodesTodo : DeleteHealthcheck(c)
  PROVE  IterationInv'
<1>1. /\ UNCHANGED <<nodesPhase, nodeIp, movedBack, nodeHealthy, healthyIps, foundChecks,
                     foundRecords, redoChecks, redoRecords, nodeFailures, nodeCheck>>
      /\ nodesPhase \in {"unrecord", "uncheck"}
  BY DEF DeleteRecord, DeleteHealthcheck, InNodesPhase, TakesTodo, nodesWorld, nodesFound
<1>2. /\ \A m : IsHealthy(m)' = IsHealthy(m)
      /\ \A m, ip : HasMoved(m, ip)' = HasMoved(m, ip)
      /\ \A m : CameBack(m)' = CameBack(m)
  BY <1>1 DEF IsHealthy, HasMoved, CameBack
<1>3. nodeCheck = {}
  BY <1>1 DEF IterationHyps, DnsInv, OneJob
<1>4. KeysFollow' /\ LookedAt'
  BY <1>1, <1>2 DEF IterationHyps, IterationInv, KeysFollow, LookedAt
<1>5. ASSUME nodesPhase = "unrecord", NEW r \in nodesTodo, DeleteRecord(r)
      PROVE  OthersLeave' /\ ServedInTurn' /\ LinksBreak'
  <2>1. /\ dnsRecords' = dnsRecords \ {r} /\ nodesTodo' = nodesTodo \ {r}
        /\ UNCHANGED healthchecks
    BY <1>5 DEF DeleteRecord, TakesTodo
  <2>2. ~IsHealthy(r.node)
    BY <1>5 DEF IterationHyps, IterationInv, OthersLeave
  <2>3. \A m : IsHealthy(m) /\ IsServed(m) => IsServed(m)'
    BY <1>1, <1>2, <2>1, <2>2 DEF IsServed
  <2>4. \A d : IsLinked(d)' = IsLinked(d)
    BY <2>1 DEF IsLinked
  <2>5. OthersLeave'
    BY <1>1, <1>2, <1>5, <2>1 DEF IterationHyps, IterationInv, OthersLeave
  <2>6. ServedInTurn'
    BY <1>1, <1>2, <1>3, <1>5, <2>3 DEF IterationHyps, IterationInv, ServedInTurn
  <2>7. LinksBreak'
    BY <1>1, <1>2, <1>5, <2>1, <2>4 DEF IterationHyps, IterationInv, LinksBreak
  <2> QED
    BY <2>5, <2>6, <2>7
<1>6. ASSUME nodesPhase = "uncheck", NEW c \in nodesTodo, DeleteHealthcheck(c)
      PROVE  OthersLeave' /\ ServedInTurn' /\ LinksBreak'
  <2>1. /\ healthchecks' = healthchecks \ {c} /\ nodesTodo' = nodesTodo \ {c}
        /\ UNCHANGED dnsRecords
    BY <1>6 DEF DeleteHealthcheck, TakesTodo
  <2>2. ~IsHealthy(c.node) /\ \A r \in dnsRecords : IsHealthy(r.node)
    BY <1>6 DEF IterationHyps, IterationInv, OthersLeave
  <2>3. \A m : IsHealthy(m) /\ IsServed(m) => IsServed(m)'
    BY <1>1, <1>2, <2>1, <2>2 DEF IsServed
  <2>4. \A r \in dnsRecords : IsLinked(r) => IsLinked(r)'
    BY <2>1, <2>2 DEF IsLinked
  <2>5. OthersLeave'
    BY <1>1, <1>2, <1>6, <2>1 DEF IterationHyps, IterationInv, OthersLeave
  <2>6. ServedInTurn'
    BY <1>1, <1>2, <1>3, <1>6, <2>3 DEF IterationHyps, IterationInv, ServedInTurn
  <2>7. LinksBreak'
    BY <1>1, <1>2, <1>6, <2>1, <2>4 DEF IterationHyps, IterationInv, LinksBreak
  <2> QED
    BY <2>5, <2>6, <2>7
<1> QED
  BY <1>4, <1>5, <1>6 DEF IterationInv

\* Every step keeps IterationInv.
LEMMA IterationStep ==
  ASSUME IterationHyps, [NodesNext]_nodesVars
  PROVE  IterationInv'
<1>1. CASE UNCHANGED nodesVars
  <2>1. UNCHANGED <<healthyIps, healthchecks, dnsRecords, movedBack, nodeFailures>>
    BY <1>1 DEF nodesVars, nodesWorld, route53, nodesFound
  <2>2. /\ \A n : IsHealthy(n)' = IsHealthy(n)
        /\ \A n, ip : HasMoved(n, ip)' = HasMoved(n, ip)
        /\ \A n : IsServed(n)' = IsServed(n)
        /\ \A n : CameBack(n)' = CameBack(n)
        /\ \A r : IsLinked(r)' = IsLinked(r)
    BY <2>1, ServedStays
  <2>3. UNCHANGED <<nodesPhase, nodesTodo, nodeIp, nodeHealthy, foundChecks, foundRecords,
                    redoChecks, redoRecords, nodeCheck>>
    BY <1>1 DEF nodesVars, nodesWorld, nodesFound
  <2>4. KeysFollow' /\ LookedAt' /\ OthersLeave'
    BY <2>1, <2>2, <2>3 DEF IterationHyps, IterationInv, KeysFollow, LookedAt, OthersLeave
  <2>5. ServedInTurn' /\ LinksBreak'
    BY <2>1, <2>2, <2>3 DEF IterationHyps, IterationInv, ServedInTurn, LinksBreak
  <2> QED
    BY <2>4, <2>5 DEF IterationInv
<1>2. CASE NodesNext
  BY <1>2, ChangeKeepsIteration, LoopKeepsIteration, EndKeepsIteration, ReadKeepsIteration,
     CheckKeepsIteration, CheckRecordKeepsIteration, SetHealthcheckKeepsIteration,
     SetRecordKeepsIteration, DeleteKeepsIteration
  DEF NodesNext, NodesDaemon
<1> QED
  BY <1>1, <1>2

\* When an iteration has gone through, every key, health check and record is
\* of a node it read, at the address it read, for any nodes and addresses,
\* whatever changed and however many iterations before it ended half way.
THEOREM IterationAchievesHolds == NodesSpec => []IterationAchieves
<1>1. NodesInit => IterationHyps
  <2> SUFFICES ASSUME NodesInit PROVE IterationHyps
    OBVIOUS
  <2>1. NodesTypeInv
    BY DEF NodesInit, NodesTypeInv, TodoType, JobsHealthy
  <2>2. IterationInv
    BY DEF NodesInit, IterationInv, KeysFollow, LookedAt, OthersLeave, ServedInTurn, LinksBreak,
           IsHealthy
  <2> QED
    BY <2>1, <2>2, DnsInvInit DEF IterationHyps
<1>2. IterationHyps /\ [NodesNext]_nodesVars => IterationHyps'
  BY NodesStepType, DnsInvStep, IterationStep DEF IterationHyps
<1>3. IterationHyps => IterationAchieves
  <2> SUFFICES ASSUME IterationHyps, nodesPhase = "uncheck", nodesTodo = {}, NEW n \in Nodes
               PROVE  LET records == {r \in dnsRecords : r.node = n}
                          checks == {c \in healthchecks : c.node = n}
                      IN  /\ n \in nodeHealthy <=> IsHealthy(n)
                          /\ ~IsHealthy(n) => records = {} /\ checks = {}
                          /\ IsHealthy(n) =>
                               \E c \in checks, r \in records :
                                 /\ c.ip = healthyIps[n] /\ r.ip = healthyIps[n]
                                 /\ r.check = c.id \/ (n \in movedBack /\ nodeFailures > 0)
    BY DEF IterationAchieves
  <2>1. n \in nodeHealthy <=> IsHealthy(n)
    BY DEF IterationHyps, IterationInv, KeysFollow
  <2>2. \A r \in dnsRecords : IsHealthy(r.node)
    BY DEF IterationHyps, IterationInv, OthersLeave
  <2>3. \A c \in healthchecks : IsHealthy(c.node)
    BY DEF IterationHyps, IterationInv, OthersLeave
  <2>4. nodeCheck = {}
    BY DEF IterationHyps, DnsInv, OneJob
  <2>5. IsHealthy(n) => IsServed(n)
    BY <2>4 DEF IterationHyps, IterationInv, ServedInTurn
  <2> QED
    BY <2>1, <2>2, <2>3, <2>5 DEF IsServed, CameBack
<1> QED
  BY <1>1, <1>2, <1>3, PTL DEF NodesSpec

=============================================================================
