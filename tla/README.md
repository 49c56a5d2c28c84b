# Verification of cwm-worker-operator

cwm-worker-operator runs the workers of a MinIO hosting platform on
Kubernetes: it deploys a worker (a CWM *instance*, identified by its worker id
and living in a namespace of its own) when a request for one of its hostnames
arrives, deletes it when it is idle or gone, and keeps metrics, caches, DNS
records and alerts in order. This directory holds TLA+ models of the deployment
flow and of the daemons around it, the TLC configurations that check them, and
TLAPS proofs about them.

## 1. Inventory

The program is a set of daemons. Each runs in a Kubernetes Deployment of its
own with one replica (`helm/templates/_helper_deployment.tpl`), loops over
`run_single_iteration` for ever (`daemon.py`), and shares three Redis
databases with the others (`domains_config.py`): *ingress* (hostname keys, also
used by cwm-worker-ingress), *internal* and *metrics*. Nothing else is shared
and no transaction is ever used; every Redis command is a step of its own, and
between the commands of one handler lie HTTP calls to the CWM API, `kubectl`
subprocesses and MinIO calls that take seconds.

| Component | State it keeps | Operations | What is hard | What makes it correct |
|---|---|---|---|---|
| Shared keys, `domains_config.py` | hostname, worker, order, metrics keys; the volume config cache | groups of `set`/`delete`; lookups through the cache | no atomicity; failures are cached; one group drops keys of others | keys of a hostname and of its worker never contradict each other |
| Initializer, `initializer.py` | two snapshots, `hostnames_forced_update` | forced updates, then waiting hostnames; retries | acts on what it read before an HTTP call | every request ends; attempts are bounded; a worker is marked ready once |
| Deployer, `deployer.py` | a snapshot, a subprocess per worker | preprocess, deploy, retry or give up | picks long before it deploys; partial deployments | no deployment while one awaits its check; retries are bounded |
| Waiter, `waiter.py` | a snapshot, a subprocess per worker | check, time out, publish hostnames | publishes in two halves; exceptions | waiting ends; what is published is deployed |
| Deleter, `deleter.py` | a snapshot with `allow_cancel` | cancel, or delete keys and then the deployment | order dropped before it is carried out; stale snapshot | orders are carried out; data goes only when ordered; hostnames go first |
| Updater, `updater.py` | the cursor of CWM updates | orders updates and deletions; sends metrics | cursor stored before its updates are applied; overwrites orders | every CWM update leads to an order |
| Multiprocessor, `multiprocessor.py` | running subprocesses | start, wait for a slot, finalize | full pipe; one failure ends the daemon | the limit holds; it ends |
| Throttler, `throttler.py` | last check and expiry per worker | mark a worker failed for a while | competes with the flow for `hostname:error` | a throttled worker stays down until its expiry |
| Metrics updater, Kafka streamer | aggregated metrics, counters, offsets | aggregate, count, commit | take out and put back; commit after counting | nothing is lost, nothing counted twice |
| Nodes checker, `nodes_checker.py` | health keys, DNS records and checks | recreate what differs, delete the rest | several calls, any may fail | converges to the healthy nodes |
| Redis cleaner | - | delete old errors | worker in the flow again; a mark of the throttler on the same key | errors end, throttle marks stay |
| Alerter, `logs.py` | alert list, throttle (in memory) | pop, send, hold back | popped before it is sent; a restart forgets the throttle | no alert is held back without a notice of it |
| Workers checker | health per worker, capped lists in local storage | observe, compute durations, alert | a list cut to its limit; failing checks | an alert for each lasting bad state, at its time |
| Cleaner, clear cacher | labels and cordons of nodes; last clear per worker | clear caches of nodes and pods | looked, then deleted; a node left cordoned; requests while one is carried out | a cache in use stays; nodes are uncordoned; a requested clear is carried out |
| NAS checker | a key per node and NAS | start pods, probe, record, prune | pods named by list places; leftovers | what is recorded healthy was reachable; records come true |
| Disk usage updater | a key per worker | measure | - | - |
| Web UI, CLI, metrics, MinIO auth plugin, Helm chart | - | - | - | - |

`PROJECT.json` lists every component with its status, and under `hazards` the
places in the code where the things in the column "hard" bite.

### The deployment flow

The core of the program, and of this project, is the flow of a worker through
four daemons, told by its keys alone:

    cwm-worker-ingress            initializer           deployer              waiter
    hostname:initialize  ------>  ready_for_deployment  waiting_for_          hostname:available
                                                        deployment  ------>   (flow keys deleted)
    updater: force_update ----^        ^                     |
    updater: force_delete -> deleter   '---- retry: waiting = "error", later deleted

Every failure ends in `hostname:error` for the worker's hostnames, which
cwm-worker-ingress answers requests with. Two more daemons write that key: the
throttler sets it to `THROTTLED` and takes it off when the period is over, and
the Redis cleaner deletes old ones, but for `THROTTLED`.

## 2. Modules

| Module | Models | Notes |
|---|---|---|
| `WorkerState` | the keys, the volume config cache, the groups of key changes, the cluster | no next-state relation of its own |
| `Initializer` | `initializer.py`, `InitializerDeploymentFlowManager` | EXTENDS `WorkerState` |
| `Deployer` | `deployer.py`, `DeployerDeploymentFlowManager`, `Multiprocessor` | EXTENDS `WorkerState` |
| `Waiter` | `waiter.py`, `WaiterDeploymentFlowManager`, `set_worker_available` | EXTENDS `WorkerState` |
| `Deleter` | `deleter.py`, `DeploymentsManager.delete` | EXTENDS `WorkerState` |
| `Throttler` | `throttler.py` as a daemon of the flow | EXTENDS `WorkerState` |
| `RedisCleaner` | `redis_cleaner.py` as a daemon of the flow | EXTENDS `WorkerState` |
| `DeploymentFlow` | the six composed, with requests, orders and crashes | the specification, its fairness and its properties |
| `HostnameLifecycle` | what a client sees of hostnames: idle, queued, failed, available | abstract; `DeploymentFlow` implements it (`ImplementsLifecycle`) |
| `MCDeploymentFlow` | - | the instances the `.cfg` files use |
| `DeploymentFlowProofs` | - | type correctness |
| `DeploymentFlowSafety` | - | safety properties that hold with any API |
| `HostnameProofs` | - | the refinement, and the two properties that need the API |
| `Updater` | `updater.py` without its metrics | stands alone; CWM and the flow are its environment |
| `UpdaterProofs` | - | its types and `UpdatesAccountedFor` |
| `NodesChecker` | `nodes_checker.py` with the Route53 and node calls of `deployments_manager.py` | Kubernetes nodes are its environment |
| `NasChecker` | `nas_checker.py`, `check_nodes_nas` | nodes and NAS servers are its environment |
| `KafkaStreamer` | `kafka_streamer.py` | on one partition |
| `MetricsPipeline` | `metrics_updater.py` and `updater.send_agg_metrics` | one worker |
| `Throttling` | `throttler.py`, `redis_cleaner.py` | the period of a throttling, on one worker, with the flow by its effect on its hostnames |
| `WorkersChecker` | `workers_checker.py`, `common.local_storage_json_last_items_append` | one worker |
| `Alerter` | `alerter.py`, `logs.alert` | |
| `CacheCleaner` | `cleaner.py`, `NodeCleanupPod`, cordoning | one node, one cache, a worker that comes and goes |
| `ClearCacher` | `clear_cacher.py` | one worker with several Nginx pods |
| `Multiprocessor` | `multiprocessor.py` with pipes | one daemon |
| `Services` | - | the ten composed, their fairness |
| `MCServices` | - | their instance |
| `NodesProofs` | - | what is proved of the nodes and the NAS checkers |
| `MetricsProofs` | - | ... of the Kafka streamer and the metrics |
| `WorkersCheckerProofs` | - | ... of the workers checker and the pool |
| `ServicesProofs` | - | ... of the throttler, the cleaner, the alerter and the clear cacher, and of the ten together |

A daemon's module has a variable for each thing the daemon remembers between
its steps (a snapshot, a subprocess, what it looked up) and an action for each
stretch of code between two slow calls; `...Crash` is the death of its pod,
which loses those variables and keeps the keys. `DeploymentFlow` interleaves
the daemons' steps.

`HostnameLifecycle` is related to the flow by `HostnameStatus`, which reads a
hostname's status off its keys, and by `approved`, which holds the workers whose
publication is under way: the waiter found them ready and has not yet made their
hostnames available. That a hostname becomes available only so, once per check,
and is queued only when it is neither failed nor available, is what the flow
promises whatever its daemons do to each other in between.

The ten modules from `NodesChecker` on share no variable. `Services` puts them
side by side: in each behaviour one component (`studied`) is at work and the
others rest in their initial state. As no step of one reads or writes what is
another's, this loses no behaviour of any of them, and the states of the
composition are the union of theirs and not the product. `ServicesImplementEach`
(section 5) proves that what holds of one alone holds of it in `Services`. Where daemons do meet
on the same keys, they are composed: the throttler and the Redis cleaner with
the flow, the metrics updater and the updater in `MetricsPipeline`. The
throttler is modelled twice, for two questions. `Throttling` asks what becomes
of a mark, with the period, its end and a failed lookup, the flow being anything
that writes these keys. In `DeploymentFlow` it is one of the daemons, and the
question is what it does to the flow: which of a hostname's keys can be there at
once, with `throttled` for those of `hostname:error` that are `THROTTLED`, which
`del_worker_hostname_keys` keeps (`domains_config.py:659`).

### Abstractions

* *Keys.* A key that exists or not is a set; `waiting_for_deployment` and
  `force_delete` keep their values. A worker's `hostname:ingress:hostname`
  goes with `hostname:available`: the code sets and deletes them side by side.
  Keys nobody in the flow reads (`last_deployment_flow`, `health`,
  `last_clear_cache`) are left out, except that `set_last_action` looks the
  worker's hostnames up, and so may fill the volume config cache.
* *Steps.* Redis commands of one handler without a slow call between them are
  one step. Two groups are split although nothing slow lies between: the
  deletion of the flow keys and the publication in `set_worker_available`,
  because other processes act on what they see in between. Likewise
  `set_worker_error_by_hostname` marks its hostname (`MarkHostname`) and, after
  a lookup by HTTP, the rest of the worker (`MarkRestOfWorker`).
* *Volume configs.* A config is `valid` (a zone of this cluster, or a gateway
  by its own type), `gateway` (another zone, served here for the hostname that
  asked), `elsewhere` or `error`. Which answer the API gives is chosen anew at
  every call from `ApiAnswers`; the cache keeps what it keeps in the code,
  failures included. The hostnames of an instance do not change: those its
  config lists are `Listed`, those a label below one `Subdomains`, and the
  instance the API names for a hostname is `WorkerOf`.
* *Time.* A timeout or a delay has passed or not, by choice.
* *Cluster.* A worker has a namespace (`deployments`) and MinIO storage
  (`storage`), or not; a call that raises has done its part or not.
* *Updater.* `Updater` has seconds, since the cursor counts them, and the CWM
  updates as a set of instances and times: CWM answers a query with all of them
  from its start on, and answers with errors for an instance that is gone. The
  subprocesses do not raise (`check_update_release` catches what Redis or CWM
  raises, and then gives no order). `OrderRoutine` gives any of the orders that
  the time since the last update and the last request could lead to. In
  `DeploymentFlow` the same orders come at any time.
* *Nodes checker.* An address is a number, 0 that of a node that is gone. A call
  to Route53 or Kubernetes is a step, and may fail. A health check without a
  name (the tag is set by a call of its own) is never found again and is left
  out; it costs money and nothing else. `movedBack` collects the nodes that come
  back to the address of the record they have.
* *NAS checker.* A pod is named by the places of its node and server in two
  lists, that of the nodes in any order; `hasLeftovers` says that pods were there
  when an iteration made its own.
* *Kafka streamer.* A message counts for a namespace, for none, or cannot be
  parsed. Offsets are places in the topic. The five counters of a namespace are
  one.
* *Metrics.* A sample is its time.
* *Throttler and Redis cleaner in the flow.* `ThrottleStop` is possible from the
  moment there is an expiry, and `CleanHostname` may find any hostname of its
  snapshot old enough or not. The cleaner's `is_worker_available` only matters
  by what it leaves in the cache: whichever way it answers, the hostname is
  deleted by one of the two functions in time.
* *Throttling.* Whether enough requests came, and how the flow comes to publish
  or fail the worker, is left to chance; the period ends at any time.
* *Workers checker.* A health is the set of conditions it tells of, and seconds
  are counted.
* *Alerter.* The list of alerts is its length; the throttle's window is in
  seconds.
* *Cleaner and clear cacher.* A `kubectl` command is a step, and may fail.
* *Multiprocessor.* Output comes in pieces, of which a pipe holds
  `PipeCapacity`.
* *Not modelled.* A limit of one subprocess, with which the deployer, the
  waiter and the updater run their work in the daemon; a retry delay that
  restarts because the clock does; Redis failures; changes of an instance's
  hostnames; several partitions of a topic; the conversions between worker ids
  and namespaces (one to one on the ids there are); key summaries; the delete
  command and other hand-made changes through the command line or the web UI
  (deletions of keys by an administrator). The disk usage updater (a sequence of
  shell commands that writes a number per worker), the Prometheus metrics
  (observations), the MinIO auth plugin (a handler without state) and the Helm
  chart have nothing to interleave or to keep consistent.

Read but not modelled, since no property depends on it: the releases that
`iterate_all_releases` yields carry no `"namespace"`, which
`metrics_updater.py:79` and `workers_checker.py:21` read; `get_kube_metrics` and
`get_health` raise `NotImplementedError`, and the checker takes a failing
`get_health` for missing pods; the Redis cleaner's deletion of a worker's keys
(`redis_cleaner.py:26`) names the worker by an id in bytes and meets no key.

## 3. Runs

`OrderKinds` names the orders a run has, and `MaxOrders` bounds their number, the
beginnings of throttlings (`throttle`) and of the cleaner's loops (`clean`)
counted in, `MaxCrashes` the restarts
(`MaxClock` and `MaxRestarts` the seconds and restarts of `Updater`),
`MaxErrorAttempts` and `MaxDeployAttempts` are the code's limits (5 and 10),
made small. Nothing else of the flow is bounded: requests arrive for ever.

| Run | Instance | Shows |
|---|---|---|
| `flow_orders` | 1 worker, 1 hostname, any two of: a deletion ordered by CWM or for lack of requests, a routine update, a throttling, a cleaning | types; `FailedIsNotAvailable`; `DeletionTakesHostnamesDown`; `DataDeletedOnlyIfOrdered` |
| `flow_failures` | 1 worker, 1 hostname, any API answer, a routine update or deletion, a throttling or a cleaning, a restart | `ErrorAttemptsBounded`; `DataDeletedOnlyIfOrdered` |
| `flow_hostnames` | 1 worker, a listed hostname, one below it, a foreign one; lookups may fail | `FailedIsNotQueued`; `NotReadyTwice`; `ImplementsLifecycle` |
| `flow_workers` | 2 workers, one without a cache (its namespace is deleted by its deployment, so that it never becomes ready), a restart | `DeployerExcludesWaiting` |
| `flow_requests` | 1 worker, 1 hostname, an update; liveness | `RequestAnswered`; `UpdatesConsumed` |
| `updates` | 1 instance, 4 seconds, two restarts, a first query 1 second back; liveness | types; `UpdatesAccountedFor`; `UpdatesOrdered` |
| `cancelled_deletion` | an ordered deletion | violates `DeletionCannotBeCanceled` |
| `lost_update` | an ordered update | violates `UpdateReachesDeployment` |
| `deletion_while_published` | a routine deletion | violates `RoutineDeletionSparesDeployment` |
| `waiting_for_ever` | a routine deletion; liveness | violates `WaitingEnds` |
| `services` | the ten components, see below; liveness | the properties of the next table |
| `throttled_for_ever` | two throttlings, a restart, an API that may fail; liveness | violates `ThrottleAlwaysEnds` |

Why these bounds are enough: the keys of different workers only meet in the
snapshots and in the limit on subprocesses, so one worker shows what its
daemons do to each other, and two show the queueing; two orders are needed for
one to overwrite or outlive another (in `flow_orders` a routine deletion also
follows one with data that failed), and for a throttled worker to be updated; one crash for a snapshot to be lost while
other daemons go on; three hostnames for one of each kind; one retry and one
attempt more than that to reach both sides of each limit. `flow_requests`
has one hostname, which is as much as liveness can be checked for in time: there
the waiter's subprocess never finds its key gone (`CheckRaises`; it does in
`flow_orders` and `flow_hostnames`), and the limit on subprocesses holds nobody
back. Four seconds are
enough for an update before the first query's window, one that is reported, one
that comes while the cursor is stored and one after it; two instances meet only
in the limit on subprocesses, and their updates in the maximum that becomes the
cursor, which one instance's updates reach too. The properties that are proved
(section 5) do not depend on the bounds.

What `services` checks, and at which bounds:

| Component | Instance | Properties |
|---|---|---|
| all | | `ServicesTypeOK` |
| `NodesChecker` | 2 nodes, 2 addresses, 2 changes at any time, 1 failure at any call | `DnsConsistent`: one check and one record per node, never another node's check. `IterationAchieves`: an iteration that goes through leaves what it read, whatever earlier ones left. `NodesConverge`: keys, checks and records come to be those of the cluster |
| `NasChecker` | 2 nodes, 1 server, 1 change, 2 failures | `HealthyWasReachable`: a pair recorded healthy was reachable during the iteration. `HealthComesTrue` |
| `KafkaStreamer` | 2 namespaces, 2 messages of any kind, 2 failures | `CountedBeforeGone`, `CountedOncePerFailure`, `RequestsCounted` |
| `MetricsPipeline` | 4 seconds, 2 samples kept, 1 sent at a time, failures unbounded | `SamplesAccountedFor`: a sample that CWM did not get was lost by a named failure |
| `Throttling` | a listed hostname and one below it, 2 throttlings, 1 restart, API may fail | `ThrottleEnds`, `ThrottleKept`; `MarkHasExpiry`: no hostname is throttled with nothing to end it |
| `WorkersChecker` | 2 conditions with different delays, 3 items, 3 seconds, 1 failure | `AlertedInTime`: an alert if and only if the condition held that long at every check, with deletions of the worker passed over |
| `Alerter` | a window of 2 seconds, 5 seconds, 4 alerts, 1 failure | `HeldAlertsAnnounced`: no alert is held back without one before it and a notice |
| `CacheCleaner` | 3 moves of pods, 2 failures | `UsedCacheKept`, `NodeUncordoned`; `CordonIsFound`: a node it cordoned has the label by which it is found again |
| `ClearCacher` | 2 pods, 4 seconds, 1 failure | `ClearRequestServed`; `RequestIsDue`: a request for which no pod was cleared is not taken for served |
| `Multiprocessor` | 3 tasks with 0 to 2 pieces of output, 2 slots, a pipe that holds 1 | `PoolBounded`, `PoolResult`, `PoolEnds`; `PoolNotStuck`: the daemon and its processes do not wait for each other |

Two nodes are needed for a check to be given to the wrong one, two changes for
one to move away and back; a second failure, in the NAS checker and the cleaner, for one to follow the first one's
repair; two messages and two failures for a redelivered message to be behind a
committed one; one sample more than is kept and sent for one to be pushed out;
one more second and item than the longer delay for a break to be seen or to have
left the list; a window that opens, closes and opens again for the alerter;
three moves for a pod to come, go and come back between two looks; one task more
than slots. Deadlock is not checked in this run, since the cleaner has nothing to
do on a node that was left cordoned, and daemons at the end of the clock and of
the bounds may have nothing to do either.

Two properties are checked, and proved, with an API that always answers, and do
not hold otherwise: a failed lookup is cached and lists no hostnames, so
`FailedIsNotAvailable` and `DeletionTakesHostnamesDown` fail when `ApiAnswers`
holds `"error"`: the deleter then leaves the worker's hostnames available. No
document claims the contrary. `FailedIsNotAvailable` also needs that a deployment
is tried more than once (`MaxDeployAttempts` of at least 1; the code has 10): a
first failure then goes through the waiter, which is busy publishing, and cannot
set the error behind its back.

Even so a *throttled* hostname may be available: nothing in the flow of an
ordered update reads `hostname:error`, so a throttled worker that is updated is
deployed and published, and its mark stays (`domains_config.py:659`) until the
throttler takes it off. `flow_orders` reaches that state, and
`FailedIsNotAvailable` names it: what is available and failed is throttled.

### What the violations show

1. *`cancelled_deletion`.* The initializer refuses to start a worker that is
   ordered deleted, "so we cancel the deployment until delete will occur". But
   an order given later, while the worker is being checked, is deleted with the
   worker's other keys by `set_worker_available` or `set_worker_error`. (With
   routine deletions in the instance the property fails sooner: one that comes
   after the order, `updater.py:82`, or before it, in the deleter's snapshot,
   makes the deleter cancel. The run is kept without, so as to show the former.)
2. *`lost_update`.* In the same way an update ordered while the worker waits
   for its deployment is deleted when that deployment, of the earlier config,
   completes. The initializer passed over the order since the worker was
   "already waiting for deployment to complete".
3. *`deletion_while_published`.* `set_worker_available` deletes the keys by
   which `is_worker_waiting_for_deployment` knows that the worker is busy
   before it makes the hostnames available. A routine deletion in between is
   not cancelled.
4. *`waiting_for_ever`.* `is_ready` raises when the worker's nginx cannot be
   reached, and the handler around the whole check skips the timeout.
5. *`throttled_for_ever`.* "All worker keys will be deleted allowing it to be
   accessed again" (`tests/test_throttler.py:142`). When the period is over and
   the worker's config cannot be looked up, or an earlier failure is cached,
   `del_worker_keys` finds no hostnames to unmark, and goes on to delete the
   expiry: the throttler never comes to the worker again, and the Redis cleaner
   leaves throttled errors alone. `ThrottleEnds` says that this is the only way.

### What the updater may lose

`UpdatesAccountedFor` and `UpdatesOrdered` say that an update of CWM leads to an
order, with four exceptions, which `excused` collects where they arise:

* it is of a second of which an update was already reported: the next query
  starts a second later (`updater.py:134`);
* it is older than the window of the first query (`updater.py:136`);
* the daemon restarts after the cursor was stored and before its subprocess ended
  (`updater.py:149`);
* its instance is gone and has no release when the releases are listed
  (`updater.py:218`), which also holds of one that is being deployed.

No document rules these out, so they are stated as exceptions and not as
findings; the properties say that there are no others.

### Exceptions of the other components

In the same way the properties of the other components name what the code gives
up, each in a history variable that is set where it arises:

* a message polled and not yet counted when the streamer is interrupted is
  `discarded`; one that cannot be parsed stays in the way for ever
  (`kafka_streamer.py`);
* a sample taken out of Redis when a query fails is `lost`, one that is pushed
  out of a full list is `skipped`, and only after as many samples without a send
  as a send takes (`metrics_updater.py`);
* a record may keep the id of a deleted health check where its node is back at
  the old address after a failure between the two deletions (`movedBack`);
* leftovers of an earlier iteration carry names of this one's pods
  (`hasLeftovers`), and then a pair may be judged by another's pod;
* a cache goes though the worker has a pod when none of its hostnames is
  available (`isValid`), as during its deployment, or when `kubectl` fails to
  list the pods (`listingFailed`);
* a node whose label was taken off and which was not uncordoned stays cordoned
  (`halfUncordoned`);
* a clear requested in the second of another's clearing counts as carried out
  (`sameSecond`), and one cleared pod counts for all of the worker's;
* a failure of a throttled worker overwrites the mark (`FailWorker`), and the
  Redis cleaner may then delete the failure before the period is over: `ThrottleKept`
  says that no deletion takes off a mark;
* a subprocess that prints more than its pipe holds never ends, and the daemon
  waits for it (`output`).

## 4. Fairness

* *Weak fairness of each daemon* (`Fairness`): `daemon.py` loops for ever and
  Kubernetes restarts what ends. The throttler and the cleaner get none in the
  flow, where nothing waits for them.
* *Strong fairness of the waiter's two delays*: both are measured from a fixed
  time, so a check that is made again and again finds them over in the end.
* *`ClusterFairness`*, for `flow_requests` and `waiting_for_ever`: a deployment
  that is tried again and again reaches MinIO and Kubernetes in the end, and
  the nginx of a namespace that exists answers in the end. This is assumed of
  the cluster, not of the code. Where it does not hold the code retries without
  counting an attempt (`deployer.py:126`), and requests stay unanswered.

`UpdatesOrdered` needs weak fairness of the updater alone: its steps never wait
for anybody.

`ServicesFairness` has weak fairness of each daemon, for the reasons above, and of
each subprocess (`ProcessStep`); of `ThrottleExpires`, since time passes; and of
`RenewConfig`, since every daemon that reads a worker's config after its cache
expired reads it from CWM. `PollMessage` has strong fairness: a poll may time out
although a message is there, but not every time. The environment (nodes that
change, messages, alerts, requests, failures) has none.

`RequestAnswered` is checked without deletions and without crashes: with a
routine deletion a worker may wait for ever (run `waiting_for_ever`), and when
the waiter dies between the two halves of `set_worker_available` the hostname
is neither queued nor available until its next request.

## 5. Proofs

A theorem is of the specification of its component (`Spec` of `DeploymentFlow`
and of `Updater`, `NodesSpec`, `StreamerSpec` and so on, without fairness), for
all values of the constants that the assumptions of its module allow: any
numbers of workers, hostnames, nodes, orders, failures and crashes, any limits
and windows, and any API answers, but where a theorem says otherwise. The
run `services` checks the ten components in `Services`, and `ServicesSafe` states
their safety properties there.

| Theorem | Argument |
|---|---|
| `TypeCorrect` | `TypeOK` is inductive; one lemma per group of key changes and per daemon. The one conjunct that could fail is the bound on `deployAttempt`: it is read by the step that counts. |
| `DeployerExcludesWaitingHolds` | `DeployerInv` adds that a subprocess runs only in the deployment phase and for a worker off the queue. Then a worker is on the queue, or has a subprocess, from the time it was seen not to wait; every other process only deletes waiting keys (`WaitingCleared`), and its own subprocess sets the key as it ends. |
| `NotReadyTwiceHolds` | `InitializerInv` adds that what is read in a half of the iteration is acted upon in it, so that the one job there is belongs to the only worker the initializer may mark. The other daemons only delete ready keys. |
| `FailedIsNotQueuedHolds`, `ErrorAttemptsBoundedHolds` | `HostnameInv` adds `AttemptsLeft`: whoever may still be tried (not failed, on the snapshot, or looked up) has attempts left, and the hostname looked up is off the snapshot, so it is not counted twice. Every step but a failed lookup keeps or resets an attempt number, and resets it with the error key (`HostnameKeysKept`). `FailedIsNotQueued` is what makes a new snapshot satisfy it. |
| `DataDeletedOnlyIfOrderedHolds` | `DataInv` follows the order from the key to the deleter's job. |
| `UpdaterProofs!TypeCorrect` | `TypeOK` is inductive. |
| `UpdatesAccountedForHolds` | `UpdaterInv` adds what makes the stored cursor safe: the answer holds every update that led to no order, up to its latest (`CheckInv`); the cursor becomes the time of one of the answer (`LastUpdateInv`), so that what CWM adds meanwhile is later; and each update of the answer has an operation when the releases are listed (`OperationInv`), so that it is on one of the two lists. |
| `ImplementsLifecycleHolds` | Step simulation: each action of the flow is a step of `HostnameLifecycle` or changes nothing it sees. `WaiterInv` adds what the publication needs: a check runs only while the waiter is in its checking phase, and what it publishes are hostnames of the worker it checked, so that the publication is that of an approved worker. |
| `DeletionTakesHostnamesDownHolds` | For an API that never answers with an error. `AnswersCached`: no cache then holds a failure, so the deleter finds all listed hostnames when it deletes their keys. |
| `FailedIsNotAvailableHolds` | For an API that serves every instance (`AnswersServed`), hostnames that are all listed or below a listed one, and at least one retry. What is being published is not failed (`PublishedNotFailed`). The deployer is the one other process that fails a worker, and only after a retry; it works on workers that do not wait (`DeployerInv`), and one under check that does not wait any more has lost its attempts with its keys (`CheckedIsFresh`). The initializer fails nobody (`NoneFails`). The throttler does, and what it marks is the exception; no step but its own or a new failure changes `throttled`. |
| `StreamerTypeCorrect`, `NodesTypeCorrect`, `NasTypeCorrect`, `CheckTypeCorrect` | The component's type invariant is inductive. |
| `CountedBeforeGoneHolds`, `CountedOncePerFailureHolds` | `StreamerInv`: what the consumer is past is counted or in `agg_data` (`GoneInv`), which holds nothing that is committed (`AggDataInv`), and a message that is not committed has been counted no more often than there were failures, until this commit counts it (`CountInv`). |
| `PoolBoundedHolds`, `PoolResultHolds` | `PoolInv`: what the daemon takes for active includes what runs, and a slot is free whenever it is about to start a task (`SlotsFree`); what it has completed has ended (`CompletedHaveEnded`). A response is handled when, and only when, a task joins `completed`. |
| `ThrottleKeptHolds` | `StopsWhenOver`: the throttler unmarks only with the expiry over, which nobody else touches. |
| `UsedCacheKeptHolds` | `LookIsCurrent`: between the look for pods and the deletion the node is cordoned, so a worker that had no pod has none. |
| `HeldAlertsAnnouncedHolds` | `AlerterInv`: what the throttle remembers was sent or is about to be (`ThrottleIsTrue`), and no later than now. |
| `SamplesAccountedForHolds` | For a `SendLimit` of at most `SampleLimit` (10 and 20 in the code). The lists are windows of the samples (`WindowsInv`): in order, with all samples between their ends. Then of the samples up to the last send, those with more than `SampleLimit - SendLimit` from them to its end were sent (`OldestSent`), and a sample that leaves a full list, with fewer than `SendLimit` taken since, is one of them, by counting. |
| `DnsConsistentHolds` | `DnsInv`: what an iteration found is all there is but for what it made (`FoundIsCurrent`), one named check per node among what is found and what there is (`OnePerNode`), ids belong to one node for ever (`IdsOwned`), and one record is made at a time (`OneJob`). |
| `IterationAchievesHolds` | `IterationInv`, on top of `DnsInv`: keys follow the nodes read (`KeysFollow`); a check or record looked at is as it should be or on the list of what is made anew (`LookedAt`); what belongs to others than healthy nodes was found, and then is on the list of what is deleted (`OthersLeave`); a healthy node whose turn is over is served, or its record is about to be made for a check there is (`ServedInTurn`); and a record without its check is of an address its node no longer has, or is back at, after a failure or during the iteration that deleted the check (`LinksBreak`), so that it is made anew, or is the exception the property names. |
| `HealthyWasReachableHolds` | `NasInv`: places are given to one node each (`Orders`), so a pod that answers for a pair is on its node, unless pods of that name were there before. |
| `AlertedInTimeHolds` | `CheckInv`: the items are the newest of what was observed, in order, and what has left the list is older than all of them (`NewestKept`), of which there are then as many as are kept (`MoreThanKept`). The loop over them is a fold, of which the prover knows nothing; that it is defined for lists of every length (`LoopExists`), item by item (`DurationHasCourse`), and where it stops, is shown by the least number for which it would not be (`LeastNumber`, from the library's `WFMin`), which takes no induction theorem. |
| `MarkHasExpiryHolds` | `ThrottleMarks`: the throttler sets the expiry before it marks, and deletes it after it unmarked; a config that is found names every hostname that can be marked. |
| `CordonIsFoundHolds` | `CordonInv`: the label is on from before the cordon, and taken off only in the step before it is lifted. |
| `RequestIsDueHolds` | `ClearInv`: all times are past ones, and the time that will be stored was taken before the first pod is cleared. |
| `PoolNotStuckHolds` | `OutputKept`: until a process has ended, what it printed is in its pipe and the rest unwritten, so that one that cannot go on prints more than the pipe holds (`ActiveIsAwaited`). |
| `ServicesImplementEach` | A step of `Services` is a step of each component or leaves its variables, so a behaviour of all is one of each. |
| `ServicesTypeCorrect`, `ServicesSafe` | The theorems above, by `ServicesImplementEach`: all safety properties of the ten components, invariants and action properties, hold in their composition, for a `SendLimit` of at most `SampleLimit`. |

Only model-checked: liveness (`RequestAnswered`, `UpdatesConsumed`,
`UpdatesOrdered`, `NodesConverge`, `HealthComesTrue`, `RequestsCounted`,
`ThrottleEnds`, `NodeUncordoned`, `ClearRequestServed`, `PoolEnds`), which is out
of the proof system's reach. Every invariant and every action property of a passing
run is proved.

## 6. Plan

*Done*: the deployment flow and its refinement of `HostnameLifecycle`; the updater
and its cursor; the throttler and the Redis cleaner; the pool of subprocesses; the
metrics from Kafka and Prometheus to CWM; the nodes and NAS checkers; the alerter,
the workers checker, the cleaner and the clear cacher; proofs of every
type invariant and safety property, and that the composition of the services keeps
them.

*Left*, in this order:

1. The delete command (by hostname, with metrics), as one more actor of the flow,
   and several partitions of the Kafka topic, which share the consumer.
2. Changes of an instance's hostnames during its deployment.
3. Pure functions: the conversions between worker ids and namespace names
   (`common.py`), against reference definitions.
