---------------------------- MODULE Initializer ----------------------------
(***************************************************************************)
(* The initializer daemon (initializer.py): each iteration goes through a  *)
(* snapshot of the forced updates, then through a snapshot of the          *)
(* hostnames waiting for initialization.  Each item is one step that looks *)
(* its volume config up (an HTTP call) and reads the flow keys, and one    *)
(* that acts on what was read; a hostname that fails takes a third, which  *)
(* looks its worker up to fail the rest of it.                             *)
(***************************************************************************)
EXTENDS WorkerState

VARIABLES
  initPhase,      \* where in run_single_iteration the daemon is
  initWorkers,    \* forced updates of the snapshot still to read
  initHostnames,  \* waiting hostnames of the snapshot still to read
  hostnamesForcedUpdate,  \* hostnames_forced_update of the flow manager
  forcedJob,      \* the forced update read and not yet acted upon, if any
  hostnameJob,    \* the hostname read and not yet acted upon, if any
  failedJob       \* the one marked failed, and its worker not yet, if any

initializerVars == <<initPhase, initWorkers, initHostnames,
                     hostnamesForcedUpdate, forcedJob, hostnameJob, failedJob>>

InitializerTypeOK ==
  /\ initPhase \in {"idle", "forced", "hostnames"}
  /\ initWorkers \subseteq Workers
  /\ initHostnames \subseteq Hostnames
  /\ hostnamesForcedUpdate \subseteq Hostnames
  /\ forcedJob \subseteq [worker : Workers, config : VolumeConfigs]
  /\ hostnameJob \subseteq [hostname : Hostnames, config : VolumeConfigs]
  /\ failedJob \subseteq [hostname : Hostnames, config : VolumeConfigs]

InitializerInit ==
  /\ initPhase = "idle"
  /\ initWorkers = {}
  /\ initHostnames = {}
  /\ hostnamesForcedUpdate = {}
  /\ forcedJob = {}
  /\ hostnameJob = {}
  /\ failedJob = {}

\* IsInFlow with the ready key overlooked.
IsPastDeployer(w) == IsAwaited(w)

\* The worker is handled by the deployer or the waiter.
IsInFlow(w) == w \in ready \/ IsAwaited(w)

\* IsRetried, off by one.
IsRetriedOnceMore(attempts) == attempts <= MaxErrorAttempts

\* Another attempt is made after the given number of failed ones.
IsRetried(attempts) == attempts < MaxErrorAttempts

\* A config whose zone this cluster serves; a gateway config is one only for
\* the hostname that asked.
IsValidZone(config, byHostname) ==
  config = "valid" \/ (byHostname /\ config = "gateway")

-----------------------------------------------------------------------------
InitializerStart ==
  /\ initPhase = "idle"
  /\ initPhase' = "forced"
  /\ initWorkers' = forceUpdate
  /\ hostnamesForcedUpdate' = {}
  /\ UNCHANGED <<initHostnames, forcedJob, hostnameJob, failedJob, stateVars>>

\* iterate_volume_configs_forced_update: the config is fetched anew, and a
\* failure replaces a good config in the cache.
ReadForcedUpdate(w) ==
  /\ initPhase = "forced"
  /\ forcedJob = {}
  /\ w \in initWorkers
  /\ initWorkers' = initWorkers \ {w}
  /\ \E config \in ApiAnswers :
       /\ CacheConfig(w, config)
       /\ hostnamesForcedUpdate' =
            IF config = "error"
            THEN hostnamesForcedUpdate
            ELSE hostnamesForcedUpdate \union {h \in Listed : WorkerOf[h] = w}
       /\ forcedJob' = IF IsInFlow(w) THEN {} ELSE {[worker |-> w, config |-> config]}
  /\ UNCHANGED <<initPhase, initHostnames, hostnameJob, failedJob, hostnameKeys,
                 cachedWorkerId, flowKeys, orderKeys, forceDeleteData, cluster>>

\* initialize_worker without a hostname: a config of no valid zone, a failed
\* one included, orders a deletion that cannot be cancelled.
ForcedUpdate(job) ==
  LET w == job.worker
      isDeleted == forceDelete[w] = "no_cancel"
      isValid == IsValidZone(job.config, FALSE)
  IN  /\ job \in forcedJob
      /\ forcedJob' = {}
      /\ \/ /\ isDeleted
            /\ UNCHANGED <<ready, orderKeys, volumeConfig>>
         \/ /\ ~isDeleted /\ ~isValid
            /\ forceUpdate' = forceUpdate \ {w}
            /\ forceDelete' = [forceDelete EXCEPT ![w] = "no_cancel"]
            /\ SetLastAction(w)
            /\ UNCHANGED ready
         \/ /\ ~isDeleted /\ isValid
            /\ ready' = ready \union {w}
            /\ SetLastAction(w)
            /\ UNCHANGED orderKeys
      /\ UNCHANGED <<initPhase, initWorkers, initHostnames, hostnamesForcedUpdate,
                     hostnameJob, failedJob, hostnameKeys, cachedWorkerId, deployAttempt,
                     waiting, forceDeleteData, cluster>>

StartHostnames ==
  /\ initPhase = "forced"
  /\ initWorkers = {} /\ forcedJob = {}
  /\ initPhase' = "hostnames"
  /\ initHostnames' = initialize
  /\ UNCHANGED <<initWorkers, hostnamesForcedUpdate, forcedJob, hostnameJob, failedJob,
                 stateVars>>

\* iterate_volume_config_hostnames_waiting_for_initialization: hostnames of
\* the forced updates are passed over without a lookup.
ReadHostname(h) ==
  LET w == WorkerOf[h]
  IN  /\ initPhase = "hostnames"
      /\ hostnameJob = {} /\ failedJob = {}
      /\ h \in initHostnames
      /\ initHostnames' = initHostnames \ {h}
      /\ IF h \in hostnamesForcedUpdate
         THEN UNCHANGED <<hostnameJob, cacheKeys>>
         ELSE \E config \in ConfigByHostname(h) :
                /\ CacheHostnameConfig(h, config)
                /\ hostnameJob' =
                     IF config # "error" /\ (IsInFlow(w) \/ w \in forceUpdate)
                     THEN {}
                     ELSE {[hostname |-> h, config |-> config]}
      /\ UNCHANGED <<initPhase, initWorkers, hostnamesForcedUpdate, forcedJob, failedJob,
                     hostnameKeys, flowKeys, orderKeys, forceDeleteData, cluster>>

\* No config for the hostname: it is left waiting, to be tried again, until
\* its attempts are used up.
HostnameConfigFailed(job) ==
  LET h == job.hostname
      attempts == [errorAttempt EXCEPT ![h] = @ + 1]
  IN  /\ job \in hostnameJob
      /\ job.config = "error"
      /\ hostnameJob' = {}
      /\ \/ /\ IsRetried(attempts[h])
            /\ errorAttempt' = attempts
            /\ UNCHANGED <<initialize, available, hostnameError, throttled, cachedWorkerId,
                           failedJob>>
         \/ /\ ~IsRetried(attempts[h])
            /\ MarkHostname(h, attempts)
            /\ failedJob' = {job}
      /\ UNCHANGED <<initPhase, initWorkers, initHostnames, hostnamesForcedUpdate,
                     forcedJob, volumeConfig, flowKeys, orderKeys, forceDeleteData, cluster>>

\* initialize_worker for a hostname.
InitializeHostname(job) ==
  LET h == job.hostname
      w == WorkerOf[h]
      isDeleted == forceDelete[w] = "no_cancel"
      isValid == IsValidZone(job.config, TRUE) /\ h \in Listed \union Subdomains
  IN  /\ job \in hostnameJob
      /\ job.config # "error"
      /\ hostnameJob' = {}
      /\ \/ /\ isDeleted
            /\ UNCHANGED <<hostnameKeys, cacheKeys, ready, failedJob>>
         \/ /\ ~isDeleted /\ ~isValid
            /\ MarkHostname(h, errorAttempt)
            /\ failedJob' = {job}
            /\ UNCHANGED <<volumeConfig, ready>>
         \/ /\ ~isDeleted /\ isValid
            /\ ready' = ready \union {w}
            /\ SetLastAction(w)
            /\ UNCHANGED <<hostnameKeys, cachedWorkerId, failedJob>>
      /\ UNCHANGED <<initPhase, initWorkers, initHostnames, hostnamesForcedUpdate,
                     forcedJob, deployAttempt, waiting, orderKeys, forceDeleteData, cluster>>

\* The rest of set_worker_error_by_hostname: the worker is looked up by the
\* hostname, and when that finds it, all of it is marked failed.  Only
\* initialize_worker names the worker to set_last_action.
MarkRestOfWorker(job) ==
  LET h == job.hostname
      w == WorkerOf[h]
  IN  /\ job \in failedJob
      /\ failedJob' = {}
      /\ \/ /\ "error" \in ConfigByHostname(h)
            /\ IF job.config = "error" THEN UNCHANGED volumeConfig ELSE SetLastAction(w)
            /\ UNCHANGED <<hostnameKeys, cachedWorkerId, flowKeys, orderKeys>>
         \/ \E config \in ConfigByHostname(h) \ {"error"} :
              MarkWorker(w, config, cachedWorkerId \union {h}, FALSE)
      /\ UNCHANGED <<initPhase, initWorkers, initHostnames, hostnamesForcedUpdate,
                     forcedJob, hostnameJob, forceDeleteData, cluster>>

InitializerFinish ==
  /\ initPhase = "hostnames"
  /\ initHostnames = {} /\ hostnameJob = {} /\ failedJob = {}
  /\ initPhase' = "idle"
  /\ hostnamesForcedUpdate' = {}
  /\ UNCHANGED <<initWorkers, initHostnames, forcedJob, hostnameJob, failedJob, stateVars>>

\* The daemon's pod dies: its snapshots are lost, the keys stay.
InitializerCrash ==
  /\ initPhase # "idle"
  /\ initPhase' = "idle"
  /\ initWorkers' = {}
  /\ initHostnames' = {}
  /\ hostnamesForcedUpdate' = {}
  /\ forcedJob' = {}
  /\ hostnameJob' = {}
  /\ failedJob' = {}
  /\ UNCHANGED stateVars

InitializerStep ==
  \/ InitializerStart
  \/ \E w \in Workers : ReadForcedUpdate(w)
  \/ \E job \in forcedJob : ForcedUpdate(job)
  \/ StartHostnames
  \/ \E h \in Hostnames : ReadHostname(h)
  \/ \E job \in hostnameJob : HostnameConfigFailed(job) \/ InitializeHostname(job)
  \/ \E job \in failedJob : MarkRestOfWorker(job)
  \/ InitializerFinish
=============================================================================
