---------------------------- MODULE CacheCleaner ----------------------------
(***************************************************************************)
(* The cleaner (cleaner.py, with NodeCleanupPod and the cordoning of nodes *)
(* in deployments_manager.py) on one node, where a worker has its cache,   *)
(* and that worker's pods.  The cleaner cordons the node while it looks    *)
(* for pods and deletes caches, and labels it so as to find it again.      *)
(***************************************************************************)
EXTENDS Naturals

CONSTANTS
  MaxPodMoves,        \* bound on the worker's coming and going
  MaxCleanerFailures  \* bound on failed commands and restarts

ASSUME CleanerAssumption == MaxPodMoves \in Nat /\ MaxCleanerFailures \in Nat

VARIABLES
  cordoned,       \* the node takes no new pods
  labelled,       \* it has the cleaner's label
  podOnNode,      \* a pod of the worker is on the node
  isOpen,         \* a hostname of the worker is available
  cached,         \* the worker has a cache on the node
  cleanerPhase,   \* the command the cleaner is about to run
  isValid,        \* is_valid_for_cleanup
  podMoves,       \* comings and goings so far
  cleanerFailures,
  listingFailed,  \* history: kubectl could not list the worker's pods
  halfUncordoned  \* history: a failure between taking off label and cordon

nodeState == <<cordoned, labelled>>
podState == <<podOnNode, isOpen, podMoves>>
cleanerBounds == <<cleanerFailures, listingFailed, halfUncordoned>>
cleanerVars == <<nodeState, podState, cached, cleanerPhase, isValid, cleanerBounds>>

CleanerTypeOK ==
  /\ cordoned \in BOOLEAN /\ labelled \in BOOLEAN
  /\ podOnNode \in BOOLEAN /\ isOpen \in BOOLEAN /\ cached \in BOOLEAN
  /\ isValid \in BOOLEAN /\ listingFailed \in BOOLEAN /\ halfUncordoned \in BOOLEAN
  /\ cleanerPhase \in {"start", "idle", "label", "cordon", "create", "list", "pods", "clear",
                       "unlabel", "uncordon"}
  /\ podMoves \in 0 .. MaxPodMoves
  /\ cleanerFailures \in 0 .. MaxCleanerFailures

CleanerInit ==
  /\ cordoned = FALSE /\ labelled = FALSE
  /\ podOnNode \in BOOLEAN /\ isOpen \in BOOLEAN /\ cached \in BOOLEAN
  /\ cleanerPhase = "start" /\ isValid = FALSE
  /\ podMoves = 0 /\ cleanerFailures = 0
  /\ listingFailed = FALSE /\ halfUncordoned = FALSE

\* The worker's pod leaves the node, or is scheduled to it and caches there;
\* a hostname becomes available or none is any more.
WorkerMoves ==
  /\ podMoves < MaxPodMoves
  /\ podMoves' = podMoves + 1
  /\ \/ /\ podOnNode
        /\ podOnNode' = FALSE
        /\ UNCHANGED <<isOpen, cached>>
     \/ /\ ~podOnNode /\ ~cordoned
        /\ podOnNode' = TRUE /\ cached' = TRUE
        /\ UNCHANGED isOpen
     \/ /\ isOpen' = ~isOpen
        /\ UNCHANGED <<podOnNode, cached>>
  /\ UNCHANGED <<nodeState, cleanerPhase, isValid, cleanerBounds>>

-----------------------------------------------------------------------------
CleanerStep(from, to) ==
  /\ cleanerPhase = from
  /\ cleanerPhase' \in to
  /\ UNCHANGED <<podState, cleanerFailures, halfUncordoned>>

\* The nodes run_initialization uncordons, with a mistake: not those it may
\* not use, as in run_single_iteration.
IsLeftUsable == labelled /\ ~cordoned

IsLeftBehind == labelled

StartCleaner ==
  /\ CleanerStep("start", {IF IsLeftBehind THEN "unlabel" ELSE "idle"})
  /\ UNCHANGED <<nodeState, cached, isValid, listingFailed>>

\* run_single_iteration, which deletes the cleanup pod and waits for its end.
StartNode ==
  /\ ~cordoned
  /\ CleanerStep("idle", {"label"})
  /\ UNCHANGED <<nodeState, cached, isValid, listingFailed>>

\* LabelNode with a mistake: nobody looks whether kubectl label did it.
LabelNodeUnchecked ==
  /\ CleanerStep("label", {"cordon"})
  /\ labelled' \in {labelled, TRUE}
  /\ UNCHANGED <<cordoned, cached, isValid, listingFailed>>

LabelNode ==
  /\ CleanerStep("label", {"cordon"})
  /\ labelled' = TRUE
  /\ UNCHANGED <<cordoned, cached, isValid, listingFailed>>

\* What kubectl cordon makes of the node, with a mistake: it is not called.
NotCordoned == cordoned

Cordoned == TRUE

CordonNode ==
  /\ CleanerStep("cordon", {"create"})
  /\ cordoned' = Cordoned
  /\ UNCHANGED <<labelled, cached, isValid, listingFailed>>

CreateCleanupPod ==
  /\ CleanerStep("create", {"list"})
  /\ UNCHANGED <<nodeState, cached, isValid, listingFailed>>

\* list_cache_namespaces, and the hostnames of the worker whose cache it is.
ListCaches ==
  /\ CleanerStep("list", {IF cached THEN "pods" ELSE "unlabel"})
  /\ isValid' = ~isOpen
  /\ UNCHANGED <<nodeState, cached, listingFailed>>

\* worker_has_pod_on_node: a failing kubectl is a worker without a pod.
LookForPods ==
  /\ \/ /\ isValid \/ ~podOnNode
        /\ CleanerStep("pods", {"clear"})
        /\ UNCHANGED listingFailed
     \/ /\ ~isValid /\ podOnNode
        /\ CleanerStep("pods", {"unlabel"})
        /\ UNCHANGED listingFailed
     \/ /\ ~isValid
        /\ CleanerStep("pods", {"clear"})
        /\ listingFailed' = TRUE
  /\ UNCHANGED <<nodeState, cached, isValid>>

ClearCache ==
  /\ CleanerStep("clear", {"unlabel"})
  /\ cached' = FALSE
  /\ UNCHANGED <<nodeState, isValid, listingFailed>>

UnlabelNode ==
  /\ CleanerStep("unlabel", {"uncordon"})
  /\ labelled' = FALSE
  /\ UNCHANGED <<cordoned, cached, isValid, listingFailed>>

\* The daemon ends here if it was an exception that made it uncordon the node.
UncordonNode ==
  /\ CleanerStep("uncordon", {"idle", "start"})
  /\ cordoned' = FALSE
  /\ UNCHANGED <<labelled, cached, isValid, listingFailed>>

CleanerDaemon ==
  \/ StartCleaner \/ StartNode \/ LabelNode \/ CordonNode \/ CreateCleanupPod \/ ListCaches
  \/ LookForPods \/ ClearCache \/ UnlabelNode \/ UncordonNode

CleanerFails ==
  /\ cleanerFailures < MaxCleanerFailures
  /\ cleanerFailures' = cleanerFailures + 1
  /\ UNCHANGED <<nodeState, podState, cached, isValid, listingFailed>>

\* A command fails under node_cleanup_pod, which then uncordons the node.
CommandFails ==
  /\ cleanerPhase \in {"label", "cordon", "create", "list", "clear"}
  /\ cleanerPhase' = "unlabel"
  /\ UNCHANGED halfUncordoned
  /\ CleanerFails

\* One of the commands that uncordon the node fails, or the pod dies.
CleanerDies ==
  /\ cleanerPhase \notin {"start", "idle"}
  /\ cleanerPhase' = "start"
  /\ halfUncordoned' = (halfUncordoned \/ cleanerPhase = "uncordon")
  /\ CleanerFails

CleanerNext == WorkerMoves \/ CleanerDaemon \/ CommandFails \/ CleanerDies

CleanerSpec == CleanerInit /\ [][CleanerNext]_cleanerVars

-----------------------------------------------------------------------------
(* Properties *)

\* "Cleanup unused cache data": a cache goes only while the worker has no pod
\* on the node, and not even one that was scheduled after the cleaner looked;
\* except where no hostname of the worker was available, as while it is being
\* deployed, or where the pods could not be listed.
UsedCacheKept ==
  [][cached /\ ~cached' => ~podOnNode \/ isValid \/ listingFailed]_cleanerVars

\* A node the cleaner cordoned can be told from others after it died: it has
\* the label, which is put on first and taken off last but for the cordon.
CordonIsFound == cordoned => labelled \/ cleanerPhase = "uncordon" \/ halfUncordoned

\* The node is not left cordoned, whatever fails, unless between taking the
\* label off and uncordoning: then nothing tells the node from one cordoned by
\* its administrators.
NodeUncordoned == cordoned ~> ~cordoned \/ halfUncordoned
=============================================================================
