--------------------------- MODULE DeploymentFlow ---------------------------
(***************************************************************************)
(* The deployment flow: the initializer, deployer, waiter and deleter      *)
(* daemons, and the throttler and the Redis cleaner, which write the keys  *)
(* of the same hostnames, each in a pod of its own, with the updater's     *)
(* orders and the requests of cwm-worker-ingress as their environment.     *)
(* They interact through the keys of WorkerState alone.                    *)
(***************************************************************************)
EXTENDS Initializer, Deployer, Waiter, Deleter, Throttler, RedisCleaner

CONSTANTS
  OrderKinds,  \* the orders the updater may give, "throttle" and "clean"
  MaxOrders,   \* bound on the updater's orders, throttlings and cleanings
  MaxCrashes   \* bound on the number of daemon restarts

ASSUME BoundsAssumption == MaxOrders \in Nat /\ MaxCrashes \in Nat

VARIABLES
  orders,      \* orders given so far
  crashes,     \* restarts so far
  dataOrders,  \* history: workers whose data CWM ordered deleted
  updateDue    \* history: workers ordered updated and not deployed since

daemonVars == <<initializerVars, deployerVars, waiterVars, deleterVars, throttlerVars,
                cleanerListed>>
environmentVars == <<orders, crashes, dataOrders, updateDue>>
vars == <<stateVars, daemonVars, environmentVars>>

TypeOK ==
  /\ StateTypeOK
  /\ InitializerTypeOK
  /\ DeployerTypeOK
  /\ WaiterTypeOK
  /\ DeleterTypeOK
  /\ ThrottlerTypeOK
  /\ CleanerTypeOK
  /\ orders \in 0 .. MaxOrders
  /\ crashes \in 0 .. MaxCrashes
  /\ dataOrders \subseteq Workers
  /\ updateDue \subseteq Workers

Init ==
  /\ StateInit
  /\ InitializerInit
  /\ DeployerInit
  /\ WaiterInit
  /\ DeleterInit
  /\ ThrottlerInit
  /\ CleanerInit
  /\ orders = 0
  /\ crashes = 0
  /\ dataOrders = {}
  /\ updateDue = {}

-----------------------------------------------------------------------------
(* The environment *)

\* cwm-worker-ingress: a request for a hostname that is neither available nor
\* failed asks for its initialization.
Request(h) ==
  /\ h \notin available \union hostnameError
  /\ initialize' = initialize \union {h}
  /\ UNCHANGED <<available, hostnameError, throttled, errorAttempt, cacheKeys, flowKeys,
                 orderKeys, forceDeleteData, cluster, daemonVars, environmentVars>>

Order(kind) ==
  /\ kind \in OrderKinds
  /\ orders < MaxOrders
  /\ orders' = orders + 1

\* check_update_release, the CWM API having reported the instance gone.
OrderDelete(w) ==
  /\ Order("delete")
  /\ w \in storage
  /\ forceDeleteData' = forceDeleteData \union {w}
  /\ forceDelete' = [forceDelete EXCEPT ![w] = "no_cancel"]
  /\ dataOrders' = dataOrders \union {w}
  /\ UNCHANGED <<hostnameKeys, cacheKeys, flowKeys, forceUpdate, cluster,
                 daemonVars, crashes, updateDue>>

\* The CWM API having reported the instance updated, released or not.
OrderUpdate(w) ==
  /\ Order("update")
  /\ forceUpdate' = forceUpdate \union {w}
  /\ updateDue' = updateDue \union {w}
  /\ UNCHANGED <<hostnameKeys, cacheKeys, flowKeys, forceDelete, forceDeleteData,
                 cluster, daemonVars, crashes, dataOrders>>

\* Nothing reported for a released instance: one without requests for a while
\* is deleted, any other is updated from time to time.
OrderRoutineDelete(w) ==
  /\ Order("routine_delete")
  /\ w \in storage
  /\ \E config \in ConfigById(w) : CacheConfig(w, config)
  /\ forceDelete' = [forceDelete EXCEPT ![w] = "allow_cancel"]
  /\ UNCHANGED <<hostnameKeys, cachedWorkerId, flowKeys, forceUpdate, forceDeleteData,
                 cluster, daemonVars, crashes, dataOrders, updateDue>>

OrderRoutineUpdate(w) ==
  /\ Order("routine_update")
  /\ w \in storage
  /\ \E config \in ConfigById(w) : CacheConfig(w, config)
  /\ forceUpdate' = forceUpdate \union {w}
  /\ UNCHANGED <<hostnameKeys, cachedWorkerId, flowKeys, forceDelete, forceDeleteData,
                 cluster, daemonVars, crashes, dataOrders, updateDue>>

Environment ==
  \/ \E h \in Hostnames : Request(h)
  \/ \E w \in Workers :
       \/ OrderDelete(w)
       \/ OrderUpdate(w)
       \/ OrderRoutineDelete(w)
       \/ OrderRoutineUpdate(w)

-----------------------------------------------------------------------------
(* The daemons *)

InitializerNext ==
  /\ InitializerStep
  /\ UNCHANGED <<deployerVars, waiterVars, deleterVars, throttlerVars, cleanerListed,
                 environmentVars>>

\* A deployment that starts now uses the config ordered so far.
DeployerNext ==
  /\ DeployerStep
  /\ updateDue' = updateDue \ {w \in Workers : deploying[w] # "deploy" /\ deploying'[w] = "deploy"}
  /\ UNCHANGED <<initializerVars, waiterVars, deleterVars, throttlerVars, cleanerListed,
                 orders, crashes, dataOrders>>

WaiterNext ==
  /\ WaiterStep
  /\ UNCHANGED <<initializerVars, deployerVars, deleterVars, throttlerVars, cleanerListed,
                 environmentVars>>

DeleterNext ==
  /\ DeleterStep
  /\ UNCHANGED <<initializerVars, deployerVars, waiterVars, throttlerVars, cleanerListed,
                 environmentVars>>

ThrottlerNext ==
  /\ \/ /\ Order("throttle")
        /\ \E w \in Workers : ThrottleStart(w)
     \/ /\ \E w \in Workers : ThrottleMark(w) \/ ThrottleStop(w)
        /\ UNCHANGED orders
  /\ UNCHANGED <<initializerVars, deployerVars, waiterVars, deleterVars, cleanerListed,
                 crashes, dataOrders, updateDue>>

CleanerNext ==
  /\ \/ /\ Order("clean")
        /\ CleanerStart
     \/ /\ \E h \in Hostnames : CleanHostname(h)
        /\ UNCHANGED orders
  /\ UNCHANGED <<initializerVars, deployerVars, waiterVars, deleterVars, throttlerVars,
                 crashes, dataOrders, updateDue>>

Crash ==
  /\ crashes < MaxCrashes
  /\ crashes' = crashes + 1
  /\ \/ InitializerCrash /\ UNCHANGED <<deployerVars, waiterVars, deleterVars, throttlerVars, cleanerListed>>
     \/ DeployerCrash /\ UNCHANGED <<initializerVars, waiterVars, deleterVars, throttlerVars, cleanerListed>>
     \/ WaiterCrash /\ UNCHANGED <<initializerVars, deployerVars, deleterVars, throttlerVars, cleanerListed>>
     \/ DeleterCrash /\ UNCHANGED <<initializerVars, deployerVars, waiterVars, throttlerVars, cleanerListed>>
     \/ ThrottlerCrash /\ UNCHANGED <<initializerVars, deployerVars, waiterVars, deleterVars, cleanerListed>>
     \/ CleanerCrash /\ UNCHANGED <<initializerVars, deployerVars, waiterVars, deleterVars, throttlerVars>>
  /\ UNCHANGED <<orders, dataOrders, updateDue>>

Next ==
  \/ Environment
  \/ InitializerNext
  \/ DeployerNext
  \/ WaiterNext
  \/ DeleterNext
  \/ ThrottlerNext
  \/ CleanerNext
  \/ Crash

Spec == Init /\ [][Next]_vars

-----------------------------------------------------------------------------
(* Fairness *)

WaiterOutcome(step) ==
  /\ step
  /\ UNCHANGED <<initializerVars, deployerVars, deleterVars, throttlerVars, cleanerListed,
                 environmentVars>>

\* Every daemon of the flow loops for ever; the throttler and the cleaner may
\* act, and nothing waits for them.  The delays the waiter measures start at a
\* fixed time, so a check that recurs finds them over in the end.
Fairness ==
  /\ WF_vars(InitializerNext)
  /\ WF_vars(DeployerNext)
  /\ WF_vars(WaiterNext)
  /\ WF_vars(DeleterNext)
  /\ \A w \in Workers :
       /\ SF_vars(WaiterOutcome(TimedOut(w)))
       /\ SF_vars(WaiterOutcome(CheckForError(w) /\ waiting'[w] = "none"))

\* A deployment that is tried again and again does not end for ever before
\* MinIO and Kubernetes are asked.
DeploymentTried(w) ==
  DeployerNext /\ deploying[w] = "deploy" /\ deploying'[w] # "none"

\* Assumed of the cluster: deployment configs can be built, and the nginx of a
\* namespace that exists runs in the end.
ClusterFairness ==
  \A w \in Workers :
    /\ SF_vars(DeploymentTried(w))
    /\ SF_vars(WaiterOutcome(IsReady(w)))

FairSpec == Spec /\ Fairness

ReadyClusterSpec == FairSpec /\ ClusterFairness

-----------------------------------------------------------------------------
(* Properties *)

\* A worker is not deployed again while a deployment of it awaits its check
\* or its retry: from the moment the deployer picks a worker until it has
\* recorded the outcome, no waiting key exists.  The deployer only looks at
\* the key when it picks the worker, long before it deploys.
DeployerExcludesWaiting ==
  \A w \in Workers : w \in deployerQueue \/ deploying[w] # "none" => waiting[w] = "none"

\* A hostname that failed is not queued for initialization: the keys are set
\* by four processes, and a hostname with both would be deployed again behind
\* its error page.
FailedIsNotQueued == initialize \cap hostnameError = {}

\* A hostname is not available and failed at once, although the waiter
\* publishes a worker's hostnames some time after it collected them.  Only a
\* throttled one may be: del_worker_hostname_keys keeps its mark when its
\* worker, ordered updated meanwhile, is made available again.
FailedIsNotAvailable == available \cap hostnameError \subseteq throttled

\* The initializer does not mark a worker ready that is: the timeouts of the
\* waiter start at the time the mark was set, and would start anew.  It acts
\* on what it read before it looked other things up.
NotReadyTwice ==
  /\ \A job \in forcedJob : job.worker \notin ready
  /\ \A job \in hostnameJob : job.config # "error" => WorkerOf[job.hostname] \notin ready

\* The attempts to get a hostname's config stop at WORKER_ERROR_MAX_ATTEMPTS,
\* whatever the initializer's snapshots are when its worker fails, is deleted
\* or becomes available meanwhile.
ErrorAttemptsBounded == \A h \in Hostnames : errorAttempt[h] <= MaxErrorAttempts

\* Data is only ever deleted when CWM ordered it: a deletion for lack of
\* requests, or for an invalid zone, leaves the bucket alone.
DataDeletedOnlyIfOrdered ==
  [][\A w \in storage \ storage' : w \in dataOrders]_vars

\* Deleting a worker's keys leaves none of its listed hostnames available,
\* so that no request is routed to the deployment about to be deleted.
DeletionTakesHostnamesDown ==
  [][\A job \in deleteJob' \ deleteJob :
       job.step = "namespace" =>
         \A h \in Listed : WorkerOf[h] = job.worker => h \notin available']_vars

\* "worker is forced to delete but the deletion cannot be canceled"
\* (initializer.py): such an order ends only by the deleter carrying it out.
DeletionCannotBeCanceled ==
  [][\A w \in Workers :
       forceDelete[w] = "no_cancel" /\ forceDelete'[w] # "no_cancel" =>
         \E job \in deleteJob' : job.worker = w]_vars

\* test_deleter_cancel_if_worker_deployment: a deletion that can be cancelled
\* is, while the worker is deployed or made available.
RoutineDeletionSparesDeployment ==
  [][\A w \in Workers :
       deletions[w] = "allow_cancel" /\ (\E job \in deleteJob' \ deleteJob : job.worker = w) =>
         checking[w] = "none"]_vars

\* "worker is already waiting for deployment to complete, no need to
\* initialize" (deployment_flow_manager.py): the deployment that completes
\* is one made after the update was ordered.
UpdateReachesDeployment ==
  [][\A w \in Workers :
       checking[w] = "complete" /\ checking'[w] = "publish" => w \notin updateDue]_vars

\* A request ends: its hostname becomes available or fails, unless its worker
\* is deleted meanwhile.
RequestAnswered ==
  \A h \in Hostnames :
    h \in initialize ~> \/ h \in available \union hostnameError
                        \/ \E job \in deleteJob : job.worker = WorkerOf[h]

\* An ordered update is given up or carried out: the key does not stay, with
\* its worker passed over in every iteration for ever.
UpdatesConsumed == \A w \in Workers : w \in forceUpdate ~> w \notin forceUpdate

\* TIMEOUT_WAITING_FOR_DEPLOYMENT: no worker waits for its deployment to
\* complete for ever.
WaitingEnds == \A w \in Workers : waiting[w] = "complete" ~> waiting[w] # "complete"
-----------------------------------------------------------------------------
(* What the flow implements *)

\* A hostname that is available is served, whatever else its keys say; one
\* that failed is not initialized.
HostnameStatus ==
  [h \in Hostnames |->
     IF h \in available THEN "available"
     ELSE IF h \in hostnameError THEN "failed"
     ELSE IF h \in initialize THEN "queued"
     ELSE "idle"]

Lifecycle ==
  INSTANCE HostnameLifecycle WITH
    status <- HostnameStatus,
    approved <- {w \in Workers : checking[w] \in {"complete", "publish"}}

\* The daemons together keep to the life of a hostname: however their steps
\* on its keys fall together, it becomes available only by a check that found
\* its worker ready, and is not queued while it is failed or available.
ImplementsLifecycle == Lifecycle!LifecycleSpec
=============================================================================
