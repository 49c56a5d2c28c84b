----------------------------- MODULE NasChecker -----------------------------
(***************************************************************************)
(* The NAS checker (nas_checker.py, check_nodes_nas in                     *)
(* deployments_manager.py): each iteration starts a pod per worker node    *)
(* and NAS server, with the server mounted, and marks the pair healthy if  *)
(* the pod lists and touches files there in time.  A pod is named by the   *)
(* places of its node and its server in lists; that of the nodes is made   *)
(* of a set, and comes in another order when the nodes or process change.  *)
(***************************************************************************)
EXTENDS Naturals, FiniteSets

CONSTANTS
  NasNodes,
  NasIps,            \* config.NAS_IPS
  WithKubeletLogs,   \* config.NAS_CHECKER_WITH_KUBELET_LOGS
  MaxNasChanges,     \* bound on changes of the cluster and of the servers
  MaxNasFailures     \* bound on failed deletions and restarts

ASSUME NasAssumption ==
  WithKubeletLogs \in BOOLEAN /\ MaxNasChanges \in Nat /\ MaxNasFailures \in Nat

Pairs == NasNodes \X NasIps

VARIABLES
  workerNodes,   \* the cluster's worker nodes
  reachable,     \* the pairs of which the node reaches the server
  nasPods,       \* the pods there are, each with its node and server
  nasHealthy,    \* node_nas_is_healthy: pairs with a true value
  nasChecked,    \* pairs with node_nas keys
  nasPhase,      \* where in the iteration the checker is
  checkedNodes,  \* all_worker_node_names
  podNode,       \* the place of each of them
  foundHealthy,  \* the pairs the iteration found healthy
  nasChanges,
  nasFailures,
  hasLeftovers,  \* history: there were pods when the iteration was to make its own
  wasReachable   \* history: pairs reachable at some time in the iteration

nasWorld == <<workerNodes, reachable, nasChanges, wasReachable>>
nasKeys == <<nasHealthy, nasChecked>>
nasVars == <<nasWorld, nasPods, nasKeys, nasPhase, checkedNodes, podNode, foundHealthy,
             nasFailures, hasLeftovers>>

Places == 1 .. Cardinality(NasNodes)

\* enumerate(node_names)
Orders(nodes) ==
  {f \in [nodes -> 1 .. Cardinality(nodes)] : \A n, m \in nodes : f[n] = f[m] => n = m}

NasTypeOK ==
  /\ workerNodes \subseteq NasNodes /\ checkedNodes \subseteq NasNodes
  /\ reachable \subseteq Pairs /\ nasHealthy \subseteq Pairs /\ nasChecked \subseteq Pairs
  /\ foundHealthy \subseteq Pairs /\ wasReachable \subseteq Pairs
  /\ nasPods \subseteq [place : Places, nas : NasIps, node : NasNodes]
  /\ nasPhase \in {"list", "create", "probe", "record", "prune"}
  /\ podNode \in Orders(DOMAIN podNode)
  /\ nasChanges \in 0 .. MaxNasChanges /\ nasFailures \in 0 .. MaxNasFailures
  /\ hasLeftovers \in BOOLEAN

NasInit ==
  /\ workerNodes \in SUBSET NasNodes /\ reachable \in SUBSET Pairs
  /\ nasPods = {} /\ nasHealthy = {} /\ nasChecked = {}
  /\ nasPhase = "list" /\ checkedNodes = {} /\ foundHealthy = {}
  /\ podNode = <<>>
  /\ nasChanges = 0 /\ nasFailures = 0
  /\ hasLeftovers = FALSE /\ wasReachable = {}

\* A server goes down or comes back for a node; a node joins or leaves, and
\* its pods with it.
ClusterChanges ==
  /\ nasChanges < MaxNasChanges
  /\ nasChanges' = nasChanges + 1
  /\ \/ \E p \in Pairs :
          /\ reachable' = IF p \in reachable THEN reachable \ {p} ELSE reachable \union {p}
          /\ wasReachable' = wasReachable \union reachable'
          /\ UNCHANGED <<workerNodes, nasPods>>
     \/ \E n \in NasNodes :
          /\ workerNodes' = IF n \in workerNodes THEN workerNodes \ {n} ELSE workerNodes \union {n}
          /\ nasPods' = {pod \in nasPods : pod.node \in workerNodes'}
          /\ UNCHANGED <<reachable, wasReachable>>
  /\ UNCHANGED <<nasKeys, nasPhase, checkedNodes, podNode, foundHealthy, nasFailures, hasLeftovers>>

-----------------------------------------------------------------------------
NasStep(from, to) ==
  /\ nasPhase = from
  /\ nasPhase' = to
  /\ UNCHANGED <<workerNodes, reachable, nasChanges>>

\* "failed to delete pods, continuing anyway": some of them stay.
DeletePods ==
  \/ nasPods' = {} /\ UNCHANGED nasFailures
  \/ /\ nasFailures < MaxNasFailures
     /\ nasFailures' = nasFailures + 1
     /\ nasPods' \in SUBSET nasPods

StartNasCheck ==
  /\ NasStep("list", "create")
  /\ checkedNodes' = workerNodes
  /\ foundHealthy' = {}
  /\ podNode' \in Orders(workerNodes)
  /\ wasReachable' = reachable
  /\ DeletePods
  /\ hasLeftovers' = (nasPods' # {})
  /\ UNCHANGED nasKeys

\* A pod is made only if there is none of its name; that is logged, no more.
CreatePods ==
  /\ NasStep("create", "probe")
  /\ nasPods' = nasPods \union
       {pod \in [place : Places, nas : NasIps, node : checkedNodes \intersect workerNodes] :
          /\ podNode[pod.node] = pod.place
          /\ ~\E old \in nasPods : old.place = pod.place /\ old.nas = pod.nas}
  /\ UNCHANGED <<nasKeys, checkedNodes, podNode, foundHealthy, nasFailures, hasLeftovers, wasReachable>>

PodOf(n, ip) == {pod \in nasPods : pod.place = podNode[n] /\ pod.nas = ip}

\* The answer of a pair's pod, with a mistake: any pod with the server will do.
IsMounted(n, ip) == \E pod \in nasPods : pod.nas = ip /\ <<pod.node, ip>> \in reachable

\* ls and touch, in the pod of that name.
IsAnswering(n, ip) == \E pod \in PodOf(n, ip) : <<pod.node, ip>> \in reachable

Probe(n, ip) ==
  /\ NasStep("probe", "probe")
  /\ n \in checkedNodes
  /\ IsAnswering(n, ip)
  /\ foundHealthy' = foundHealthy \union {<<n, ip>>}
  /\ UNCHANGED <<nasPods, nasKeys, checkedNodes, podNode, nasFailures, hasLeftovers, wasReachable>>

\* All pairs are healthy or the time is up, and the pods are deleted.  With
\* kubelet logs, a pair of whose mount nothing is found there, or an end more
\* than two minutes ago, is not healthy.
EndProbes ==
  /\ NasStep("probe", "record")
  /\ foundHealthy' \in IF WithKubeletLogs THEN SUBSET foundHealthy ELSE {foundHealthy}
  /\ DeletePods
  /\ UNCHANGED <<nasKeys, checkedNodes, podNode, hasLeftovers, wasReachable>>

\* The keys of the pairs, each in its turn in the code.
RecordPairs ==
  /\ NasStep("record", "prune")
  /\ nasChecked' = nasChecked \union (checkedNodes \X NasIps)
  /\ nasHealthy' = (nasHealthy \ (checkedNodes \X NasIps)) \union foundHealthy
  /\ UNCHANGED <<nasPods, checkedNodes, podNode, foundHealthy, nasFailures, hasLeftovers, wasReachable>>

\* The keys that stay, with a mistake: all that were written.
KeptPairs == Pairs

\* Without nodes there are no servers either, in all_nas_ips.
CheckedPairs == checkedNodes \X NasIps

PrunePairs ==
  /\ NasStep("prune", "list")
  /\ nasChecked' = nasChecked \intersect CheckedPairs
  /\ nasHealthy' = nasHealthy \intersect CheckedPairs
  /\ UNCHANGED <<nasPods, checkedNodes, podNode, foundHealthy, nasFailures, hasLeftovers, wasReachable>>

NasDaemon == StartNasCheck \/ CreatePods \/ EndProbes \/ RecordPairs \/ PrunePairs

ProbeSome == \E n \in NasNodes, ip \in NasIps : Probe(n, ip)

\* The checker's pod dies.
NasRestarts ==
  /\ nasFailures < MaxNasFailures
  /\ nasFailures' = nasFailures + 1
  /\ nasPhase' = "list"
  /\ UNCHANGED <<nasWorld, nasPods, nasKeys, checkedNodes, podNode, foundHealthy, hasLeftovers>>

NasNext == ClusterChanges \/ NasDaemon \/ ProbeSome \/ NasRestarts

NasSpec == NasInit /\ [][NasNext]_nasVars

-----------------------------------------------------------------------------
(* Properties *)

\* A pair is found healthy only if its own node reached the server in the
\* course of the iteration, unless a pod that could not be deleted was left
\* of the one before: it may answer in the name of another node.
HealthyWasReachable ==
  nasPhase \in {"probe", "record", "prune"} =>
    foundHealthy \subseteq wasReachable \/ hasLeftovers

\* Whatever failed, in the end no pair counts as healthy that is not, and no
\* key is left of nodes that are gone.
HealthComesTrue == <>[](nasHealthy \subseteq reachable /\ nasChecked = workerNodes \X NasIps)
=============================================================================
