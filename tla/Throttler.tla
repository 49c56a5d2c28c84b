----------------------------- MODULE Throttler -----------------------------
(***************************************************************************)
(* The throttler daemon (throttler.py) as the deployment flow meets it: it *)
(* marks the hostnames of a worker with too many requests, and takes the   *)
(* marks off when the worker's expiry is over.  Requests are not counted   *)
(* and time is left to chance; see Throttling for the expiry itself.       *)
(***************************************************************************)
EXTENDS WorkerState

VARIABLES
  throttledExpiry,  \* worker:throttled:expiry
  throttleJob       \* the worker whose expiry is set and hostnames not marked

throttlerVars == <<throttledExpiry, throttleJob>>

ThrottlerTypeOK ==
  /\ throttledExpiry \subseteq Workers
  /\ throttleJob \subseteq Workers

ThrottlerInit ==
  /\ throttledExpiry = {}
  /\ throttleJob = {}

\* check_worker_throttle: only workers with an ingress hostname are checked.
ThrottleStart(w) ==
  /\ throttleJob = {}
  /\ \E h \in available : WorkerOf[h] = w
  /\ throttledExpiry' = throttledExpiry \union {w}
  /\ throttleJob' = {w}
  /\ UNCHANGED stateVars

\* The rest of _throttle_start: the worker's hostnames are looked up, and it
\* leaves the deployment flow as if it had failed.
ThrottleMark(w) ==
  /\ w \in throttleJob
  /\ throttleJob' = {}
  /\ \E config \in ConfigById(w) : MarkWorker(w, config, cachedWorkerId, TRUE)
  /\ UNCHANGED <<throttledExpiry, forceDeleteData, cluster>>

\* _throttle_stop: all the keys of the worker go, its orders among them.
ThrottleStop(w) ==
  /\ throttleJob = {}
  /\ w \in throttledExpiry
  /\ throttledExpiry' = throttledExpiry \ {w}
  /\ \E config \in ConfigById(w) :
       /\ DelThrottledKeys(WorkerHostnames(w, config))
       /\ cachedWorkerId' = cachedWorkerId \ WorkerHostnames(w, config)
  /\ DelWorkerKeys(w)
  /\ CacheConfig(w, "none")
  /\ UNCHANGED <<throttleJob, forceDeleteData, cluster>>

ThrottlerCrash ==
  /\ throttleJob # {}
  /\ throttleJob' = {}
  /\ UNCHANGED <<throttledExpiry, stateVars>>
=============================================================================
