---------------------------- MODULE NodesChecker ----------------------------
(***************************************************************************)
(* The nodes checker daemon (nodes_checker.py): each iteration marks the   *)
(* cluster's worker and CDN nodes healthy in Redis, and gives each of them *)
(* a Route53 health check and a DNS record, one call at a time.  A health  *)
(* check is found by a name it is given after it was made.                 *)
(***************************************************************************)
EXTENDS Naturals

CONSTANTS
  Nodes,
  Ips,             \* public addresses
  MaxNodeChanges,  \* bound on the nodes' joining, leaving and moving
  MaxNodeFailures  \* bound on the daemon's failures

\* 0 is the address of a node that is not in the cluster.
ASSUME NodesAssumption == Ips \subseteq Nat \ {0}

VARIABLES
  nodeIp,        \* the cluster: the address of each node
  nodeHealthy,   \* node:healthy
  healthchecks,  \* Route53's health checks, those with a name
  dnsRecords,    \* Route53's records, each with the id of a health check
  lastCheckId,   \* the id of the health check made last
  nodesPhase,    \* where in run_single_iteration the daemon is
  nodesTodo,     \* what the loop it is in has still to go through
  healthyIps,    \* healthy_node_name_ips
  foundChecks,   \* dns_healthchecks
  foundRecords,  \* dns_records
  redoChecks,    \* update_required_healthcheck_node_names
  redoRecords,   \* update_required_records_node_names
  nodeCheck,     \* the node about to get its record, and healthcheck_id
  nodeChanges,   \* changes so far
  nodeFailures,  \* failures so far
  movedBack      \* history: nodes that came back to the address of their record

route53 == <<healthchecks, dnsRecords, lastCheckId>>
nodesFound == <<healthyIps, foundChecks, foundRecords, redoChecks, redoRecords>>
nodesWorld == <<nodeIp, nodeChanges, movedBack>>
nodesVars == <<nodesWorld, nodeHealthy, route53, nodesPhase, nodesTodo, nodesFound,
               nodeCheck, nodeFailures>>

Healthchecks == [id : Nat, node : Nodes, ip : Ips]
Records == [node : Nodes, ip : Ips, check : Nat]

NodesTypeOK ==
  /\ nodeIp \in [Nodes -> Ips \union {0}] /\ healthyIps \in [Nodes -> Ips \union {0}]
  /\ nodeHealthy \subseteq Nodes /\ movedBack \subseteq Nodes
  /\ healthchecks \subseteq Healthchecks /\ foundChecks \subseteq Healthchecks
  /\ dnsRecords \subseteq Records /\ foundRecords \subseteq Records
  /\ redoChecks \subseteq Nodes /\ redoRecords \subseteq Nodes
  /\ nodeCheck \subseteq [node : Nodes, check : Nat]
  /\ nodesPhase \in {"idle", "nodes", "checks", "records", "set", "unrecord", "uncheck"}
  /\ nodesTodo \subseteq CASE nodesPhase \in {"idle", "nodes", "set"} -> Nodes
                           [] nodesPhase \in {"checks", "uncheck"} -> Healthchecks
                           [] OTHER -> Records
  /\ lastCheckId \in Nat /\ nodeChanges \in Nat /\ nodeFailures \in Nat

NothingFound ==
  /\ nodesTodo' = {} /\ nodeCheck' = {}
  /\ healthyIps' = [n \in Nodes |-> 0]
  /\ foundChecks' = {} /\ foundRecords' = {}
  /\ redoChecks' = {} /\ redoRecords' = {}

NodesInit ==
  /\ nodeIp \in [Nodes -> Ips \union {0}]
  /\ nodeHealthy = {}
  /\ healthchecks = {} /\ dnsRecords = {} /\ lastCheckId = 0
  /\ nodesPhase = "idle" /\ nodesTodo = {} /\ nodeCheck = {}
  /\ healthyIps = [n \in Nodes |-> 0]
  /\ foundChecks = {} /\ foundRecords = {}
  /\ redoChecks = {} /\ redoRecords = {}
  /\ nodeChanges = 0 /\ nodeFailures = 0 /\ movedBack = {}

\* A node joins, leaves or moves to another address.
NodeChanges(n, ip) ==
  /\ nodeChanges < MaxNodeChanges
  /\ nodeChanges' = nodeChanges + 1
  /\ ip # nodeIp[n]
  /\ nodeIp' = [nodeIp EXCEPT ![n] = ip]
  /\ movedBack' = movedBack \union {r.node : r \in {d \in dnsRecords : d.node = n /\ d.ip = ip}}
  /\ UNCHANGED <<nodeHealthy, route53, nodesPhase, nodesTodo, nodesFound, nodeCheck,
                 nodeFailures>>

-----------------------------------------------------------------------------
InNodesPhase(phase) == nodesPhase = phase /\ UNCHANGED <<nodesWorld, nodeFailures>>

\* The loop of the phase is through, and the next one has these items.
NextNodesPhase(phase, todo) ==
  /\ nodesTodo = {}
  /\ nodesPhase' = phase
  /\ nodesTodo' = todo

\* One item of the loop.
TakesTodo(item) == nodesTodo' = nodesTodo \ {item} /\ UNCHANGED nodesPhase

IsHealthy(n) == healthyIps[n] # 0

HasMoved(n, ip) == IsHealthy(n) /\ ip # healthyIps[n]

ListNodes ==
  /\ InNodesPhase("idle")
  /\ NextNodesPhase("nodes", {n \in Nodes : nodeIp[n] # 0})
  /\ UNCHANGED <<nodeHealthy, route53, nodesFound, nodeCheck>>

\* Each node is asked for after they were listed; one that is not a worker or
\* CDN node by then is passed over, one that is gone fails the iteration.
ReadNode(n) ==
  /\ InNodesPhase("nodes")
  /\ TakesTodo(n)
  /\ healthyIps' = [healthyIps EXCEPT ![n] = nodeIp[n]]
  /\ nodeHealthy' = IF nodeIp[n] = 0 THEN nodeHealthy ELSE nodeHealthy \union {n}
  /\ UNCHANGED <<route53, foundChecks, foundRecords, redoChecks, redoRecords, nodeCheck>>

\* The keys that stay, with a mistake: those of the nodes that have one.
KeptHealthyForEver == nodeHealthy

KeptHealthy == {n \in nodeHealthy : IsHealthy(n)}

ForgetNodes ==
  /\ InNodesPhase("nodes")
  /\ nodeHealthy' = KeptHealthy
  /\ NextNodesPhase("checks", healthchecks)
  /\ UNCHANGED <<route53, nodesFound, nodeCheck>>

CheckHealthcheck(c) ==
  /\ InNodesPhase("checks")
  /\ TakesTodo(c)
  /\ foundChecks' = foundChecks \union {c}
  /\ healthchecks' = IF HasMoved(c.node, c.ip) THEN healthchecks \ {c} ELSE healthchecks
  /\ redoChecks' = IF HasMoved(c.node, c.ip) THEN redoChecks \union {c.node} ELSE redoChecks
  /\ UNCHANGED <<nodeHealthy, dnsRecords, lastCheckId, healthyIps, foundRecords, redoRecords,
                 nodeCheck>>

ListRecords ==
  /\ InNodesPhase("checks")
  /\ NextNodesPhase("records", dnsRecords)
  /\ UNCHANGED <<nodeHealthy, route53, nodesFound, nodeCheck>>

CheckRecord(r) ==
  LET isStale == r.node \in redoChecks \/ HasMoved(r.node, r.ip)
  IN  /\ InNodesPhase("records")
      /\ TakesTodo(r)
      /\ foundRecords' = foundRecords \union {r}
      /\ dnsRecords' = IF isStale THEN dnsRecords \ {r} ELSE dnsRecords
      /\ redoRecords' = IF isStale THEN redoRecords \union {r.node} ELSE redoRecords
      /\ UNCHANGED <<nodeHealthy, healthchecks, lastCheckId, healthyIps, foundChecks, redoChecks,
                     nodeCheck>>

StartSettingRecords ==
  /\ InNodesPhase("records")
  /\ NextNodesPhase("set", {n \in Nodes : IsHealthy(n)})
  /\ UNCHANGED <<nodeHealthy, route53, nodesFound, nodeCheck>>

MissesRecord(n) == n \in redoRecords \/ ~\E r \in foundRecords : r.node = n

\* MissesHealthcheck with a mistake: told by the record, which is made later.
MissesRecordOrCheck(n) == n \in redoChecks \/ MissesRecord(n)

MissesHealthcheck(n) == n \in redoChecks \/ ~\E c \in foundChecks : c.node = n

SetHealthcheck(n) ==
  /\ InNodesPhase("set")
  /\ nodeCheck = {}
  /\ TakesTodo(n)
  /\ IF MissesHealthcheck(n)
     THEN /\ lastCheckId' = lastCheckId + 1
          /\ healthchecks' = healthchecks \union
                               {[id |-> lastCheckId', node |-> n, ip |-> healthyIps[n]]}
          /\ nodeCheck' = {[node |-> n, check |-> lastCheckId']}
     ELSE /\ nodeCheck' = {[node |-> n, check |-> c.id] : c \in {d \in foundChecks : d.node = n}}
          /\ UNCHANGED <<healthchecks, lastCheckId>>
  /\ UNCHANGED <<nodeHealthy, dnsRecords, nodesFound>>

SetRecord(job) ==
  /\ InNodesPhase("set")
  /\ nodeCheck' = nodeCheck \ {job}
  /\ dnsRecords' = IF MissesRecord(job.node)
                   THEN dnsRecords \union
                     {[node |-> job.node, ip |-> healthyIps[job.node], check |-> job.check]}
                   ELSE dnsRecords
  /\ UNCHANGED <<nodesPhase, nodesTodo, nodeHealthy, healthchecks, lastCheckId, nodesFound>>

StartDeletingRecords ==
  /\ InNodesPhase("set")
  /\ nodeCheck = {}
  /\ NextNodesPhase("unrecord", {r \in foundRecords : ~IsHealthy(r.node)})
  /\ UNCHANGED <<nodeHealthy, route53, nodesFound, nodeCheck>>

DeleteRecord(r) ==
  /\ InNodesPhase("unrecord")
  /\ TakesTodo(r)
  /\ dnsRecords' = dnsRecords \ {r}
  /\ UNCHANGED <<nodeHealthy, healthchecks, lastCheckId, nodesFound, nodeCheck>>

StartDeletingChecks ==
  /\ InNodesPhase("unrecord")
  /\ NextNodesPhase("uncheck", {c \in foundChecks : ~IsHealthy(c.node)})
  /\ UNCHANGED <<nodeHealthy, route53, nodesFound, nodeCheck>>

DeleteHealthcheck(c) ==
  /\ InNodesPhase("uncheck")
  /\ TakesTodo(c)
  /\ healthchecks' = healthchecks \ {c}
  /\ UNCHANGED <<nodeHealthy, dnsRecords, lastCheckId, nodesFound, nodeCheck>>

NodesFinish ==
  /\ InNodesPhase("uncheck")
  /\ nodesTodo = {}
  /\ nodesPhase' = "idle"
  /\ NothingFound
  /\ UNCHANGED <<nodeHealthy, route53>>

\* A call raises or the pod dies: the daemon starts over.  A health check made
\* and not yet named is left behind, and never found again.
NodesFail ==
  /\ nodesPhase # "idle"
  /\ nodeFailures < MaxNodeFailures
  /\ nodeFailures' = nodeFailures + 1
  /\ nodesPhase' = "idle"
  /\ NothingFound
  /\ UNCHANGED <<nodesWorld, nodeHealthy, route53>>

NodesDaemon ==
  \/ ListNodes \/ ForgetNodes \/ ListRecords \/ StartSettingRecords
  \/ StartDeletingRecords \/ StartDeletingChecks \/ NodesFinish
  \/ nodesPhase = "nodes" /\ \E n \in nodesTodo : ReadNode(n)
  \/ nodesPhase = "checks" /\ \E c \in nodesTodo : CheckHealthcheck(c)
  \/ nodesPhase = "records" /\ \E r \in nodesTodo : CheckRecord(r)
  \/ nodesPhase = "set" /\ \E n \in nodesTodo : SetHealthcheck(n)
  \/ \E job \in nodeCheck : SetRecord(job)
  \/ nodesPhase = "unrecord" /\ \E r \in nodesTodo : DeleteRecord(r)
  \/ nodesPhase = "uncheck" /\ \E c \in nodesTodo : DeleteHealthcheck(c)

NodesNext ==
  \/ \E n \in Nodes, ip \in Ips \union {0} : NodeChanges(n, ip)
  \/ NodesDaemon
  \/ NodesFail

NodesSpec == NodesInit /\ [][NodesNext]_nodesVars

-----------------------------------------------------------------------------
(* Properties *)

\* Route53 holds at most one named health check and one record per node, and
\* no record with the health check of another node: what an iteration found is
\* still so when it acts on it, also after iterations that ended half way.
DnsConsistent ==
  /\ \A c, d \in healthchecks : c.node = d.node => c = d
  /\ \A r, s \in dnsRecords : r.node = s.node => r = s
  /\ \A r \in dnsRecords, c \in healthchecks : r.check = c.id => r.node = c.node

\* At the end of an iteration keys, health checks and records are those of the
\* nodes as it read them, whatever it and those before it found: also where
\* these ended half way.  On the record of a node that came back see IsUpToDate.
IterationAchieves ==
  nodesPhase = "uncheck" /\ nodesTodo = {} =>
    \A n \in Nodes :
      LET records == {r \in dnsRecords : r.node = n}
          checks == {c \in healthchecks : c.node = n}
      IN  /\ n \in nodeHealthy <=> IsHealthy(n)
          /\ ~IsHealthy(n) => records = {} /\ checks = {}
          /\ IsHealthy(n) =>
               \E c \in checks, r \in records :
                 /\ c.ip = healthyIps[n] /\ r.ip = healthyIps[n]
                 /\ r.check = c.id \/ (n \in movedBack /\ nodeFailures > 0)

\* n serves if and only if it is a node, under its address.  Its record may
\* have lost its health check (a failed one makes Route53 drop the node) only
\* where n was back at the old address after the daemon had failed between
\* deleting the check and deleting the record.
IsUpToDate(n) ==
  LET records == {r \in dnsRecords : r.node = n}
      checks == {c \in healthchecks : c.node = n}
  IN  IF nodeIp[n] = 0
      THEN n \notin nodeHealthy /\ records = {} /\ checks = {}
      ELSE /\ n \in nodeHealthy
           /\ checks # {} /\ records # {}
           /\ \A c \in checks : c.ip = nodeIp[n]
           /\ \A r \in records :
                /\ r.ip = nodeIp[n]
                /\ \/ \E c \in checks : r.check = c.id
                   \/ n \in movedBack /\ nodeFailures > 0

\* "updates DNS records accordingly": whatever changed and failed on the way,
\* the keys, health checks and records come to be those of the cluster.
NodesConverge == <>[](\A n \in Nodes : IsUpToDate(n))
=============================================================================
