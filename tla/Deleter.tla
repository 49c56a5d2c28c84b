------------------------------ MODULE Deleter ------------------------------
(***************************************************************************)
(* The deleter daemon (deleter.py): it goes through a snapshot of the      *)
(* ordered deletions.  The worker's keys, the order among them, are        *)
(* deleted first, and its deployment after that (slow: kubectl and MinIO). *)
(***************************************************************************)
EXTENDS WorkerState

VARIABLES
  deleterPhase,   \* where in run_single_iteration the daemon is
  deletions,      \* the orders of the snapshot still to carry out
  deleteJob       \* the deployment being deleted, if any

deleterVars == <<deleterPhase, deletions, deleteJob>>

DeleterTypeOK ==
  /\ deleterPhase \in {"idle", "delete"}
  /\ deletions \in [Workers -> {"none", "allow_cancel", "no_cancel"}]
  /\ deleteJob \subseteq [worker : Workers, data : BOOLEAN, step : {"namespace", "data"}]

DeleterInit ==
  /\ deleterPhase = "idle"
  /\ deletions = [w \in Workers |-> "none"]
  /\ deleteJob = {}

-----------------------------------------------------------------------------
\* IsDataDeletion told by the order's value in place of the key for the data,
\* or true of every order.
IsFinalDeletion(w) == deletions[w] = "no_cancel"

IsAnyDeletion(w) == deletions[w] # "none"

\* CWM ordered the worker's data deleted, and not only its deployment.
IsDataDeletion(w) == w \in forceDeleteData

DeleterStart ==
  /\ deleterPhase = "idle"
  /\ deleterPhase' = "delete"
  /\ deletions' = forceDelete
  /\ UNCHANGED <<deleteJob, stateVars>>

\* Whether the order can be cancelled is read from the snapshot: by now the
\* key may hold an order that cannot.
CancelDelete(w) ==
  /\ deleterPhase = "delete" /\ deleteJob = {}
  /\ deletions[w] = "allow_cancel"
  /\ deletions' = [deletions EXCEPT ![w] = "none"]
  /\ \E config \in ConfigById(w) :
       /\ CacheConfig(w, config)
       /\ IsWaitingForDeployment(w, WorkerHostnames(w, config))
  /\ forceDelete' = [forceDelete EXCEPT ![w] = "none"]
  /\ UNCHANGED <<deleterPhase, deleteJob, hostnameKeys, cachedWorkerId, flowKeys,
                 forceUpdate, forceDeleteData, cluster>>

\* delete, up to the deletion of the deployment.
DeleteKeys(w) ==
  /\ deleterPhase = "delete" /\ deleteJob = {}
  /\ deletions[w] # "none"
  /\ deletions' = [deletions EXCEPT ![w] = "none"]
  /\ \E config \in ConfigById(w) :
       LET H == WorkerHostnames(w, config)
       IN  /\ deletions[w] = "allow_cancel" => ~IsWaitingForDeployment(w, H)
           /\ DelHostnameKeys(H, hostnameError, errorAttempt, TRUE, TRUE)
           /\ cachedWorkerId' = cachedWorkerId \ H
  /\ DelWorkerKeys(w)
  /\ CacheConfig(w, "none")
  /\ deleteJob' = {[worker |-> w, data |-> IsDataDeletion(w), step |-> "namespace"]}
  /\ UNCHANGED <<deleterPhase, throttled, forceDeleteData, cluster>>

\* deployments_manager.delete: the namespace, then the data if so ordered.
DeleteNamespace(job) ==
  /\ job \in deleteJob
  /\ job.step = "namespace"
  /\ deleteJob' = IF job.data THEN {[job EXCEPT !.step = "data"]} ELSE {}
  /\ deployments' = deployments \ {job.worker}
  /\ UNCHANGED <<deleterPhase, deletions, hostnameKeys, cacheKeys, flowKeys, orderKeys,
                 forceDeleteData, storage>>

\* The MinIO user and bucket, and then the order to delete them.
DeleteData(job) ==
  /\ job \in deleteJob
  /\ job.step = "data"
  /\ deleteJob' = {}
  /\ storage' = storage \ {job.worker}
  /\ forceDeleteData' = forceDeleteData \ {job.worker}
  /\ UNCHANGED <<deleterPhase, deletions, hostnameKeys, cacheKeys, flowKeys, orderKeys,
                 deployments>>

\* It raises, its current half done or not: no order is renewed, but the one
\* to delete the data stays.
DeleteRaises(job) ==
  /\ job \in deleteJob
  /\ deleteJob' = {}
  /\ \/ /\ job.step = "namespace"
        /\ deployments' \in {deployments, deployments \ {job.worker}}
        /\ UNCHANGED storage
     \/ /\ job.step = "data"
        /\ storage' \in {storage, storage \ {job.worker}}
        /\ UNCHANGED deployments
  /\ UNCHANGED <<deleterPhase, deletions, hostnameKeys, cacheKeys, flowKeys,
                 orderKeys, forceDeleteData>>

DeleterFinish ==
  /\ deleterPhase = "delete"
  /\ \A w \in Workers : deletions[w] = "none"
  /\ deleteJob = {}
  /\ deleterPhase' = "idle"
  /\ UNCHANGED <<deletions, deleteJob, stateVars>>

DeleterCrash ==
  /\ deleterPhase # "idle"
  /\ deleterPhase' = "idle"
  /\ deletions' = [w \in Workers |-> "none"]
  /\ deleteJob' = {}
  /\ UNCHANGED stateVars

DeleterStep ==
  \/ DeleterStart
  \/ \E w \in Workers : CancelDelete(w) \/ DeleteKeys(w)
  \/ \E job \in deleteJob : DeleteNamespace(job) \/ DeleteData(job) \/ DeleteRaises(job)
  \/ DeleterFinish
=============================================================================
