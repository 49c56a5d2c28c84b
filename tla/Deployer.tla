------------------------------ MODULE Deployer ------------------------------
(***************************************************************************)
(* The deployer daemon (deployer.py): it goes through a snapshot of the    *)
(* workers ready for deployment, preprocesses each, then starts a          *)
(* subprocess for each, at most MaxParallel at a time, and waits for all   *)
(* of them.  A subprocess preprocesses the worker again, deploys it (slow: *)
(* MinIO and kubectl) and records the outcome.                             *)
(***************************************************************************)
EXTENDS WorkerState

CONSTANT MaxParallel  \* config.DEPLOYER_MAX_PARALLEL_DEPLOY_PROCESSES

\* With a limit of 1 there are no subprocesses: not modelled.
ASSUME MaxParallelAssumption == MaxParallel \in Nat \ {0, 1}

VARIABLES
  deployerPhase,    \* where in run_single_iteration the daemon is
  deployerListed,   \* workers of the snapshot still to preprocess
  deployerQueue,    \* workers whose subprocess is still to be started
  deploying         \* what the subprocess of each worker is about to do

deployerVars == <<deployerPhase, deployerListed, deployerQueue, deploying>>

DeployerTypeOK ==
  /\ deployerPhase \in {"idle", "preprocess", "deploy"}
  /\ deployerListed \subseteq Workers
  /\ deployerQueue \subseteq Workers
  /\ deploying \in [Workers -> {"none", "preprocess", "deploy", "cdn", "deployed", "failed"}]

DeployerInit ==
  /\ deployerPhase = "idle"
  /\ deployerListed = {}
  /\ deployerQueue = {}
  /\ deploying = [w \in Workers |-> "none"]

Deploying == {w \in Workers : deploying[w] # "none"}

\* IsPickable with retries not waited for.
IsNotDeployed(w) == waiting[w] # "complete"

\* iterate_worker_ids_ready_for_deployment passes over a worker that waits for
\* its deployment to complete, or for its retry.
IsPickable(w) == ~IsAwaited(w)

IsUpdateOrdered(w) == w \in forceUpdate

IsHostnameQueued(w) ==
  \E h \in initialize \cap (Listed \union Subdomains) : WorkerOf[h] = w

\* is_valid_worker_hostnames_for_deployment.
IsDeploymentWanted(w) == IsUpdateOrdered(w) \/ IsHostnameQueued(w)

\* HasAttemptsLeft, off by one.
HasOneAttemptLeft(w) == deployAttempt[w] <= MaxDeployAttempts

HasAttemptsLeft(w) == deployAttempt[w] < MaxDeployAttempts

\* deploy_worker_preprocess: the worker fails without a config and leaves the
\* flow when nobody wants it deployed any more.
Preprocess(w, config) ==
  /\ config \in ConfigById(w)
  /\ \/ /\ config = "error"
        /\ SetWorkerError(w, config)
     \/ /\ config # "error" /\ ~IsDeploymentWanted(w)
        /\ ready' = ready \ {w}
        /\ CacheConfig(w, config)
        /\ UNCHANGED <<hostnameKeys, cachedWorkerId, deployAttempt, waiting, orderKeys>>
     \/ /\ config # "error" /\ IsDeploymentWanted(w)
        /\ CacheConfig(w, config)
        /\ UNCHANGED <<hostnameKeys, cachedWorkerId, flowKeys, orderKeys>>

-----------------------------------------------------------------------------
DeployerStart ==
  /\ deployerPhase = "idle"
  /\ deployerPhase' = "preprocess"
  /\ deployerListed' = ready
  /\ UNCHANGED <<deployerQueue, deploying, stateVars>>

\* Whatever the result of the preprocessing, a subprocess will be started for
\* the worker.
DeployerPreprocess(w) ==
  /\ deployerPhase = "preprocess"
  /\ w \in deployerListed
  /\ deployerListed' = deployerListed \ {w}
  /\ IF IsPickable(w)
     THEN /\ deployerQueue' = deployerQueue \union {w}
          /\ \E config \in VolumeConfigs : Preprocess(w, config)
          /\ UNCHANGED <<forceDeleteData, cluster>>
     ELSE UNCHANGED <<deployerQueue, stateVars>>
  /\ UNCHANGED <<deployerPhase, deploying>>

DeployerProcess ==
  /\ deployerPhase = "preprocess"
  /\ deployerListed = {}
  /\ deployerPhase' = "deploy"
  /\ UNCHANGED <<deployerListed, deployerQueue, deploying, stateVars>>

\* Multiprocessor.process: it returns, so that the next worker is started,
\* only while fewer than MaxParallel subprocesses run.
StartDeployWorker(w) ==
  /\ deployerPhase = "deploy"
  /\ w \in deployerQueue
  /\ Cardinality(Deploying) < MaxParallel
  /\ deployerQueue' = deployerQueue \ {w}
  /\ deploying' = [deploying EXCEPT ![w] = "preprocess"]
  /\ UNCHANGED <<deployerPhase, deployerListed, stateVars>>

DeployWorkerPreprocess(w) ==
  /\ deploying[w] = "preprocess"
  /\ \E config \in VolumeConfigs :
       /\ Preprocess(w, config)
       /\ deploying' = [deploying EXCEPT ![w] =
            IF config # "error" /\ IsDeploymentWanted(w) THEN "deploy" ELSE "none"]
  /\ UNCHANGED <<deployerPhase, deployerListed, deployerQueue, forceDeleteData, cluster>>

\* deploy_minio: the MinIO user and bucket are made.
DeployMinio(w) ==
  /\ deploying[w] = "deploy"
  /\ deploying' = [deploying EXCEPT ![w] = "cdn"]
  /\ storage' = storage \union {w}
  /\ UNCHANGED <<deployerPhase, deployerListed, deployerQueue, hostnameKeys,
                 cacheKeys, flowKeys, orderKeys, forceDeleteData, deployments>>

\* The namespace is made for a worker with a cache, deleted for one without.
ChangeNamespace(w) ==
  deployments' = IF w \in Uncached THEN deployments \ {w} ELSE deployments \union {w}

DeployCdn(w) ==
  /\ deploying[w] = "cdn"
  /\ deploying' = [deploying EXCEPT ![w] = "deployed"]
  /\ ChangeNamespace(w)
  /\ UNCHANGED <<deployerPhase, deployerListed, deployerQueue, hostnameKeys,
                 cacheKeys, flowKeys, orderKeys, forceDeleteData, storage>>

\* deploy raises, its current half done or not.
DeployFails(w) ==
  /\ deploying' = [deploying EXCEPT ![w] = "failed"]
  /\ \/ /\ deploying[w] = "deploy"
        /\ storage' \in {storage, storage \union {w}}
        /\ UNCHANGED deployments
     \/ /\ deploying[w] = "cdn"
        /\ UNCHANGED deployments \/ ChangeNamespace(w)
        /\ UNCHANGED storage
  /\ UNCHANGED <<deployerPhase, deployerListed, deployerQueue, hostnameKeys,
                 cacheKeys, flowKeys, orderKeys, forceDeleteData>>

\* An exception before deploy (the deployment config cannot be built) ends the
\* subprocess, and no attempt is counted.
DeployWorkerRaises(w) ==
  /\ deploying[w] = "deploy"
  /\ deploying' = [deploying EXCEPT ![w] = "none"]
  /\ UNCHANGED <<deployerPhase, deployerListed, deployerQueue, stateVars>>

WaitForDeployment(w) ==
  /\ deploying[w] = "deployed"
  /\ deploying' = [deploying EXCEPT ![w] = "none"]
  /\ waiting' = [waiting EXCEPT ![w] = "complete"]
  /\ SetLastAction(w)
  /\ UNCHANGED <<deployerPhase, deployerListed, deployerQueue, hostnameKeys, cachedWorkerId,
                 ready, deployAttempt, orderKeys, forceDeleteData, cluster>>

\* A failed deployment is retried, once the waiter removes the waiting key,
\* until its attempts are used up.
RetryOrGiveUp(w) ==
  /\ deploying[w] = "failed"
  /\ deploying' = [deploying EXCEPT ![w] = "none"]
  /\ \/ /\ ~HasAttemptsLeft(w)
        /\ \E config \in ConfigById(w) : SetWorkerError(w, config)
     \/ /\ HasAttemptsLeft(w)
        /\ deployAttempt' = [deployAttempt EXCEPT ![w] = @ + 1]
        /\ waiting' = [waiting EXCEPT ![w] = "error"]
        /\ SetLastAction(w)
        /\ UNCHANGED <<hostnameKeys, cachedWorkerId, ready, orderKeys>>
  /\ UNCHANGED <<deployerPhase, deployerListed, deployerQueue, forceDeleteData, cluster>>

DeployerFinish ==
  /\ deployerPhase = "deploy"
  /\ deployerQueue = {} /\ Deploying = {}
  /\ deployerPhase' = "idle"
  /\ UNCHANGED <<deployerListed, deployerQueue, deploying, stateVars>>

\* The daemon's pod dies, and its subprocesses with it.
DeployerCrash ==
  /\ deployerPhase # "idle"
  /\ deployerPhase' = "idle"
  /\ deployerListed' = {}
  /\ deployerQueue' = {}
  /\ deploying' = [w \in Workers |-> "none"]
  /\ UNCHANGED stateVars

DeployWorkerStep(w) ==
  \/ DeployWorkerPreprocess(w)
  \/ DeployWorkerRaises(w)
  \/ DeployMinio(w)
  \/ DeployCdn(w)
  \/ DeployFails(w)
  \/ WaitForDeployment(w)
  \/ RetryOrGiveUp(w)

DeployerStep ==
  \/ DeployerStart
  \/ \E w \in Workers : DeployerPreprocess(w)
  \/ DeployerProcess
  \/ \E w \in Workers : StartDeployWorker(w)
  \/ \E w \in Workers : DeployWorkerStep(w)
  \/ DeployerFinish
=============================================================================
