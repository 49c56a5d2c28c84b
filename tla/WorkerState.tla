---------------------------- MODULE WorkerState ----------------------------
(***************************************************************************)
(* The state the daemons of cwm-worker-operator share: the keys they keep  *)
(* in Redis (domains_config.py) and the cluster they change.  A key that   *)
(* only exists or not is a set of the hostnames or workers that have it;   *)
(* a key with a value is a function.  Every Redis command is a round-trip  *)
(* of its own: the operators here are the groups of commands a handler     *)
(* issues without any slow call (API, kubectl, MinIO) between them.        *)
(***************************************************************************)
EXTENDS Naturals, FiniteSets

CONSTANTS
  Workers,            \* CWM instance ids
  Hostnames,          \* hostnames requests arrive for
  WorkerOf,           \* the instance the CWM API answers for each hostname
  Listed,             \* hostnames named in their instance's volume config
  Subdomains,         \* hostnames one label below a listed one
  Uncached,           \* workers whose config disables the Minio cache
  ApiAnswers,         \* what a CWM API call may answer, see VolumeConfigs
  MaxErrorAttempts,   \* config.WORKER_ERROR_MAX_ATTEMPTS
  MaxDeployAttempts   \* config.DEPLOYER_MAX_ATTEMPT_NUMBERS

\* "valid": a config in this cluster's zone; "gateway": one of another zone
\* that is served here through a gateway when a hostname asks for it;
\* "elsewhere": one of another zone; "error": no usable config, id is None.
VolumeConfigs == {"valid", "gateway", "elsewhere", "error"}

ASSUME ConstantsAssumption ==
  /\ WorkerOf \in [Hostnames -> Workers]
  /\ Listed \subseteq Hostnames
  /\ Subdomains \subseteq Hostnames
  /\ Uncached \subseteq Workers
  /\ ApiAnswers \subseteq VolumeConfigs
  /\ MaxErrorAttempts \in Nat \ {0}
  /\ MaxDeployAttempts \in Nat

VARIABLES
  initialize,       \* hostname:initialize
  available,        \* hostname:available, with hostname:ingress:hostname
  hostnameError,    \* hostname:error
  throttled,        \* those of hostname:error that are THROTTLED
  errorAttempt,     \* hostname:error_attempt_number
  cachedWorkerId,   \* worker:volume:config:hostname_worker_id
  volumeConfig,     \* worker:volume:config
  ready,            \* worker:opstatus:ready_for_deployment
  deployAttempt,    \* worker:opstatus:deployment_error_attempt
  waiting,          \* worker:opstatus:waiting_for_deployment
  forceUpdate,      \* worker:force_update
  forceDelete,      \* worker:force_delete
  forceDeleteData,  \* worker:force_delete_data
  deployments,      \* workers whose Kubernetes namespace exists
  storage           \* workers whose MinIO user and bucket exist

hostnameKeys == <<initialize, available, hostnameError, throttled, errorAttempt>>
cacheKeys == <<cachedWorkerId, volumeConfig>>
flowKeys == <<ready, deployAttempt, waiting>>
orderKeys == <<forceUpdate, forceDelete>>
cluster == <<deployments, storage>>
stateVars == <<hostnameKeys, cacheKeys, flowKeys, orderKeys,
               forceDeleteData, cluster>>

HostnameTypeOK ==
  /\ initialize \subseteq Hostnames
  /\ available \subseteq Hostnames
  /\ hostnameError \subseteq Hostnames
  /\ throttled \subseteq hostnameError
  /\ errorAttempt \in [Hostnames -> Nat]

CacheTypeOK ==
  /\ cachedWorkerId \subseteq Hostnames
  /\ volumeConfig \in [Workers -> VolumeConfigs \union {"none"}]

WorkerTypeOK ==
  /\ ready \subseteq Workers
  /\ deployAttempt \in [Workers -> 0 .. MaxDeployAttempts]
  /\ waiting \in [Workers -> {"none", "complete", "error"}]
  /\ forceUpdate \subseteq Workers
  /\ forceDelete \in [Workers -> {"none", "allow_cancel", "no_cancel"}]

ClusterTypeOK ==
  /\ forceDeleteData \subseteq Workers
  /\ deployments \subseteq Workers
  /\ storage \subseteq Workers

StateTypeOK == HostnameTypeOK /\ CacheTypeOK /\ WorkerTypeOK /\ ClusterTypeOK

StateInit ==
  /\ initialize = {}
  /\ available = {}
  /\ hostnameError = {}
  /\ throttled = {}
  /\ errorAttempt = [h \in Hostnames |-> 0]
  /\ cachedWorkerId = {}
  /\ volumeConfig = [w \in Workers |-> "none"]
  /\ ready = {}
  /\ deployAttempt = [w \in Workers |-> 0]
  /\ waiting = [w \in Workers |-> "none"]
  /\ forceUpdate = {}
  /\ forceDelete = [w \in Workers |-> "none"]
  /\ forceDeleteData = {}
  /\ deployments = {}
  /\ storage = {}

-----------------------------------------------------------------------------
(* The volume config cache *)

\* The configs a lookup by worker id may return: the cached one, a cached
\* failure included, or else whatever the API answers.
ConfigById(w) ==
  IF volumeConfig[w] = "none" THEN ApiAnswers ELSE {volumeConfig[w]}

\* A lookup by worker id leaves its answer in the cache.
CacheConfig(w, answer) == volumeConfig' = [volumeConfig EXCEPT ![w] = answer]

\* A lookup by hostname goes through the cache only when both the hostname's
\* worker id and that worker's config are cached.
IsCachedHostname(h) == h \in cachedWorkerId /\ volumeConfig[WorkerOf[h]] # "none"

ConfigByHostname(h) ==
  IF IsCachedHostname(h) THEN {volumeConfig[WorkerOf[h]]} ELSE ApiAnswers

\* A failed API call for a hostname names no worker and caches nothing.
CacheHostnameConfig(h, answer) ==
  IF answer = "error"
  THEN UNCHANGED cacheKeys
  ELSE /\ cachedWorkerId' = cachedWorkerId \union {h}
       /\ CacheConfig(WorkerOf[h], answer)

\* The hostnames a handler of w goes through, given w's volume config: those
\* the config lists, and those below one of them that have a key in the
\* ingress Redis.  A failed config lists none.
WorkerHostnames(w, answer) ==
  IF answer = "error"
  THEN {}
  ELSE {h \in Hostnames :
          /\ WorkerOf[h] = w
          /\ \/ h \in Listed
             \/ /\ h \in Subdomains
                /\ h \in initialize \union hostnameError \union available}

-----------------------------------------------------------------------------
(* Groups of key changes *)

\* The waiter handles the worker: its deployment is to complete, or its retry
\* to be due.
IsAwaited(w) == waiting[w] # "none"

\* DelHostnameKeys with a mistake each: the available key stays, or the
\* initialize key does where the hostname is marked failed.
DelKeysButAvailable(H, failed, attempts, withError, withAvailable) ==
  /\ initialize' = initialize \ H
  /\ UNCHANGED available
  /\ hostnameError' = IF withError THEN failed \ (H \ throttled) ELSE failed
  /\ errorAttempt' = attempts

DelKeysButInitialize(H, failed, attempts, withError, withAvailable) ==
  /\ initialize' = IF withError THEN initialize \ H ELSE initialize
  /\ available' = IF withAvailable THEN available \ H ELSE available
  /\ hostnameError' = IF withError THEN failed \ (H \ throttled) ELSE failed
  /\ errorAttempt' = attempts

\* ... or the initialize key stays altogether.
DelKeysButQueue(H, failed, attempts, withError, withAvailable) ==
  /\ UNCHANGED initialize
  /\ available' = IF withAvailable THEN available \ H ELSE available
  /\ hostnameError' = IF withError THEN failed \ (H \ throttled) ELSE failed
  /\ errorAttempt' = attempts

\* ... or every error stays as a THROTTLED one does.
DelKeysButErrors(H, failed, attempts, withError, withAvailable) ==
  /\ initialize' = initialize \ H
  /\ available' = IF withAvailable THEN available \ H ELSE available
  /\ hostnameError' = failed
  /\ errorAttempt' = attempts

\* del_worker_hostname_keys for the hostnames H, without with_throttle: failed
\* and attempts are the values of hostname:error and of
\* hostname:error_attempt_number at that moment, withError and withAvailable
\* the arguments of the call.  A THROTTLED error stays.
DelHostnameKeys(H, failed, attempts, withError, withAvailable) ==
  /\ initialize' = initialize \ H
  /\ available' = IF withAvailable THEN available \ H ELSE available
  /\ hostnameError' = IF withError THEN failed \ (H \ throttled) ELSE failed
  /\ errorAttempt' = [h \in Hostnames |->
                        IF withError /\ h \in H THEN 0 ELSE attempts[h]]

\* The worker keys that del_worker_keys deletes whatever its arguments.
DelWorkerKeys(w) ==
  /\ ready' = ready \ {w}
  /\ deployAttempt' = [deployAttempt EXCEPT ![w] = 0]
  /\ waiting' = [waiting EXCEPT ![w] = "none"]
  /\ forceUpdate' = forceUpdate \ {w}
  /\ forceDelete' = [forceDelete EXCEPT ![w] = "none"]

\* ... and with it, as _throttle_stop calls it: the THROTTLED errors go too.
DelThrottledKeys(H) ==
  /\ initialize' = initialize \ H
  /\ available' = available \ H
  /\ hostnameError' = hostnameError \ H
  /\ throttled' = throttled \ H
  /\ errorAttempt' = [h \in Hostnames |-> IF h \in H THEN 0 ELSE errorAttempt[h]]

\* set_worker_error: every hostname of w gets the error, and w leaves the
\* deployment flow.  cached is hostname_worker_id after the lookup that
\* answered; isThrottle tells whether the error is THROTTLED.
MarkWorker(w, answer, cached, isThrottle) ==
  LET H == WorkerHostnames(w, answer)
  IN  /\ DelHostnameKeys(H, hostnameError \union H, errorAttempt, FALSE, TRUE)
      /\ throttled' = IF isThrottle THEN throttled \union H ELSE throttled \ H
      /\ cachedWorkerId' = cached \ H
      /\ DelWorkerKeys(w)
      /\ CacheConfig(w, answer)

\* As the deployer and the waiter call it, when w fails.
SetWorkerError(w, answer) == MarkWorker(w, answer, cachedWorkerId, FALSE)

\* set_last_action looks the worker's hostnames up: the flow keys it sets are
\* left out, the config it may fetch on the way is not.
SetLastAction(w) == \E answer \in ConfigById(w) : CacheConfig(w, answer)

\* set_worker_error_by_hostname, up to the lookup of the worker: h is marked
\* failed and its keys deleted, its cached worker id too, so that the lookup
\* asks the API.
MarkHostname(h, attempts) ==
  /\ DelHostnameKeys({h}, hostnameError \union {h}, attempts, FALSE, TRUE)
  /\ throttled' = throttled \ {h}
  /\ cachedWorkerId' = cachedWorkerId \ {h}

\* is_worker_waiting_for_deployment, given the hostnames of w.
IsWaitingForDeployment(w, H) ==
  IsAwaited(w) \/ w \in ready \/ H \cap initialize # {}
=============================================================================
