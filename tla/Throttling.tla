----------------------------- MODULE Throttling -----------------------------
(***************************************************************************)
(* The throttler (throttler.py) and the Redis cleaner (redis_cleaner.py)   *)
(* at work on the hostnames of one worker, which the deployment flow       *)
(* deploys, fails, publishes and deletes at the same time.  All of them    *)
(* write hostname:error.  Times are left to chance, request counts too.    *)
(***************************************************************************)
EXTENDS Naturals

CONSTANTS
  ListedHostnames,     \* the hostnames of the worker's volume config
  OtherHostnames,      \* hostnames one label below a listed one
  ThrottleAnswers,     \* what the CWM API may answer: "valid", "error"
  MaxThrottles,        \* bound on the throttlings
  MaxThrottlerCrashes  \* bound on the throttler's restarts

ASSUME ThrottlingAssumption ==
  /\ ThrottleAnswers \subseteq {"valid", "error"}
  /\ MaxThrottles \in Nat /\ MaxThrottlerCrashes \in Nat

VARIABLES
  errorKey,        \* hostname:error: a failure, THROTTLED or none
  served,          \* hostname:available and hostname:ingress:hostname
  throttleExpiry,  \* worker:throttled:expiry, not reached or reached
  throttleChecked, \* worker:last_throttle_check exists
  cachedConfig,    \* worker:volume:config
  throttlerPhase,  \* where in run_single_iteration the throttler is
  flowPhase,       \* where in the deployment flow the worker is
  toPublish,       \* the hostnames the waiter is about to make available
  throttles,       \* throttlings so far
  throttlerCrashes,
  lookupFailed     \* history: a throttling ended without a config

throttleKeys == <<throttleExpiry, throttleChecked>>
flowState == <<flowPhase, toPublish>>
throttlingBounds == <<throttles, throttlerCrashes>>
throttlingVars == <<errorKey, served, throttleKeys, cachedConfig, throttlerPhase, flowState,
                    throttlingBounds, lookupFailed>>

ThrottledHostnames == ListedHostnames \union OtherHostnames

ThrottlingTypeOK ==
  /\ errorKey \in [ThrottledHostnames -> {"none", "failed", "throttled"}]
  /\ served \subseteq ThrottledHostnames /\ toPublish \subseteq ThrottledHostnames
  /\ throttleExpiry \in {"none", "running", "over"}
  /\ cachedConfig \in {"none", "valid", "error"}
  /\ throttlerPhase \in {"check", "mark", "expiry", "stop"}
  /\ flowPhase \in {"idle", "flow", "publish"}
  /\ throttles \in 0 .. MaxThrottles /\ throttlerCrashes \in 0 .. MaxThrottlerCrashes
  /\ throttleChecked \in BOOLEAN /\ lookupFailed \in BOOLEAN

ThrottlingInit ==
  /\ errorKey = [h \in ThrottledHostnames |-> "none"]
  /\ served = {} /\ toPublish = {}
  /\ throttleExpiry = "none" /\ throttleChecked = FALSE
  /\ cachedConfig = "none"
  /\ throttlerPhase = "check" /\ flowPhase = "idle"
  /\ throttles = 0 /\ throttlerCrashes = 0
  /\ lookupFailed = FALSE

\* A lookup by worker id: a cached failure is an answer too.
IsAnswer(answer) == answer \in IF cachedConfig = "none" THEN ThrottleAnswers ELSE {cachedConfig}

\* iterate_worker_hostnames.
HostnamesOf(answer) ==
  IF answer = "error"
  THEN {}
  ELSE ListedHostnames \union {h \in OtherHostnames : errorKey[h] # "none" \/ h \in served}

\* DelErrors with a mistake each: whoever deletes a hostname's keys unmarks
\* it, or nobody does.
DelAllErrors(H, withThrottle) ==
  errorKey' = [h \in ThrottledHostnames |-> IF h \in H THEN "none" ELSE errorKey[h]]

DelOtherErrors(H, withThrottle) ==
  errorKey' = [h \in ThrottledHostnames |->
                 IF h \in H /\ errorKey[h] # "throttled" THEN "none" ELSE errorKey[h]]

\* del_worker_hostname_keys with_error: only with_throttle takes the mark off.
DelErrors(H, withThrottle) ==
  errorKey' = [h \in ThrottledHostnames |->
                 IF h \in H /\ (withThrottle \/ errorKey[h] # "throttled") THEN "none" ELSE errorKey[h]]

\* set_worker_error: the hostnames get the error, whatever it was before.
SetError(H, error) ==
  /\ errorKey' = [h \in ThrottledHostnames |-> IF h \in H THEN error ELSE errorKey[h]]
  /\ served' = served \ H

\* The flow keys are deleted: the daemons stop, or are past looking at them.
FlowMayStop == flowPhase' \in {flowPhase, "idle"} /\ toPublish' = IF flowPhase' = "idle" THEN {} ELSE toPublish

-----------------------------------------------------------------------------
(* The throttler *)

\* check_worker_throttle, for a worker with an ingress hostname: the first
\* check only takes the number of requests down.
CheckThrottle ==
  /\ throttlerPhase = "check"
  /\ \/ throttlerPhase' = "expiry" /\ UNCHANGED <<throttleKeys, throttles>>
     \/ /\ served # {}
        /\ throttleChecked' = TRUE
        /\ throttlerPhase' = "expiry"
        /\ UNCHANGED <<throttleExpiry, throttles>>
     \/ /\ served # {} /\ throttleChecked
        /\ throttles < MaxThrottles
        /\ throttles' = throttles + 1
        /\ throttleExpiry' = "running"
        /\ throttlerPhase' = "mark"
        /\ UNCHANGED throttleChecked
  /\ UNCHANGED <<errorKey, served, cachedConfig, flowState, throttlerCrashes, lookupFailed>>

\* _throttle_start, once the hostnames are known.
MarkThrottled ==
  /\ throttlerPhase = "mark"
  /\ throttlerPhase' = "expiry"
  /\ \E answer \in ThrottleAnswers \union {cachedConfig} :
       /\ IsAnswer(answer)
       /\ cachedConfig' = answer
       /\ SetError(HostnamesOf(answer), "throttled")
  /\ FlowMayStop
  /\ UNCHANGED <<throttleKeys, throttlingBounds, lookupFailed>>

CheckExpiry ==
  /\ throttlerPhase = "expiry"
  /\ throttlerPhase' = IF throttleExpiry = "over" THEN "stop" ELSE "check"
  /\ UNCHANGED <<errorKey, served, throttleKeys, cachedConfig, flowState, throttlingBounds, lookupFailed>>

\* _throttle_stop: the hostnames are looked up, and the expiry is deleted
\* whether that names any or not.
StopThrottle ==
  /\ throttlerPhase = "stop"
  /\ throttlerPhase' = "check"
  /\ \E answer \in ThrottleAnswers \union {cachedConfig} :
       /\ IsAnswer(answer)
       /\ DelErrors(HostnamesOf(answer), TRUE)
       /\ served' = served \ HostnamesOf(answer)
       /\ lookupFailed' = (lookupFailed \/ answer = "error")
  /\ cachedConfig' = "none"
  /\ throttleExpiry' = "none"
  /\ throttleChecked' = FALSE
  /\ FlowMayStop
  /\ UNCHANGED throttlingBounds

ThrottlerDaemon == CheckThrottle \/ MarkThrottled \/ CheckExpiry \/ StopThrottle

ThrottlerCrash ==
  /\ throttlerPhase # "check"
  /\ throttlerCrashes < MaxThrottlerCrashes
  /\ throttlerCrashes' = throttlerCrashes + 1
  /\ throttlerPhase' = "check"
  /\ UNCHANGED <<errorKey, served, throttleKeys, cachedConfig, flowState, throttles, lookupFailed>>

\* THROTTLER_THROTTLE_PERIOD_SECONDS pass.
ThrottleExpires ==
  /\ throttleExpiry = "running"
  /\ throttleExpiry' = "over"
  /\ UNCHANGED <<errorKey, served, throttleChecked, cachedConfig, throttlerPhase, flowState,
                 throttlingBounds, lookupFailed>>

-----------------------------------------------------------------------------
(* The Redis cleaner *)

IsWorkerServed(answer) == HostnamesOf(answer) # {} /\ HostnamesOf(answer) \subseteq served

\* cleanup_hostname_error.  The keys it deletes of the worker are named by the
\* id in bytes, which no worker has.
CleanFailed(h) ==
  /\ errorKey[h] = "failed"
  /\ \E answer \in ThrottleAnswers \union {cachedConfig} :
       IsAnswer(answer) /\ cachedConfig' = answer /\ ~IsWorkerServed(answer)
  /\ DelErrors({h}, FALSE)
  /\ served' = served \ {h}
  /\ UNCHANGED <<throttleKeys, throttlerPhase, flowState, throttlingBounds, lookupFailed>>

\* handle_hostname_error_any, also for a hostname with an attempt number.
CleanAny(h) ==
  /\ DelErrors({h}, FALSE)
  /\ served' = served \ {h}
  /\ UNCHANGED <<throttleKeys, cachedConfig, throttlerPhase, flowState, throttlingBounds, lookupFailed>>

RedisCleanerStep == \E h \in ThrottledHostnames : CleanFailed(h) \/ CleanAny(h)

-----------------------------------------------------------------------------
(* The deployment flow, by its effect on these keys *)

FlowStart ==
  /\ flowPhase = "idle"
  /\ flowPhase' = "flow"
  /\ UNCHANGED <<errorKey, served, throttleKeys, cachedConfig, throttlerPhase, toPublish,
                 throttlingBounds, lookupFailed>>

\* set_worker_available in its two halves.
LeaveFlow ==
  /\ flowPhase = "flow"
  /\ flowPhase' = "publish"
  /\ \E answer \in ThrottleAnswers \union {cachedConfig} :
       /\ IsAnswer(answer)
       /\ cachedConfig' = answer
       /\ toPublish' = HostnamesOf(answer)
       /\ DelErrors(HostnamesOf(answer), FALSE)
  /\ UNCHANGED <<served, throttleKeys, throttlerPhase, throttlingBounds, lookupFailed>>

Publish ==
  /\ flowPhase = "publish"
  /\ flowPhase' = "idle"
  /\ served' = served \union toPublish
  /\ toPublish' = {}
  /\ UNCHANGED <<errorKey, throttleKeys, cachedConfig, throttlerPhase, throttlingBounds, lookupFailed>>

FailWorker ==
  /\ flowPhase = "flow"
  /\ flowPhase' = "idle"
  /\ \E answer \in ThrottleAnswers \union {cachedConfig} :
       /\ IsAnswer(answer)
       /\ cachedConfig' = answer
       /\ SetError(HostnamesOf(answer), "failed")
  /\ UNCHANGED <<throttleKeys, throttlerPhase, toPublish, throttlingBounds, lookupFailed>>

\* The deleter.
DeleteWorker ==
  /\ \E answer \in ThrottleAnswers \union {cachedConfig} :
       /\ IsAnswer(answer)
       /\ DelErrors(HostnamesOf(answer), FALSE)
       /\ served' = served \ HostnamesOf(answer)
  /\ cachedConfig' = "none"
  /\ FlowMayStop
  /\ UNCHANGED <<throttleKeys, throttlerPhase, throttlingBounds, lookupFailed>>

ThrottlingFlow == FlowStart \/ LeaveFlow \/ Publish \/ FailWorker \/ DeleteWorker

ThrottlingNext == ThrottlerDaemon \/ ThrottlerCrash \/ ThrottleExpires \/ RedisCleanerStep \/ ThrottlingFlow

ThrottlingSpec == ThrottlingInit /\ [][ThrottlingNext]_throttlingVars

\* The throttler loops for ever, and time passes.
ThrottlingFairSpec ==
  ThrottlingSpec /\ WF_throttlingVars(ThrottlerDaemon) /\ WF_throttlingVars(ThrottleExpires)

-----------------------------------------------------------------------------
(* Properties *)

\* "all worker keys will be deleted allowing it to be accessed again"
\* (test_throttler.py): no hostname stays throttled.
ThrottleAlwaysEnds ==
  \A h \in ThrottledHostnames : errorKey[h] = "throttled" ~> errorKey[h] # "throttled"

\* So it is as long as the worker's config is found when the period is over,
\* with the throttler restarted between the expiry and the marks, and with
\* hostnames marked that are no longer served, or served again by the flow.
ThrottleEnds ==
  \A h \in ThrottledHostnames :
    errorKey[h] = "throttled" ~> errorKey[h] # "throttled" \/ lookupFailed

\* No hostname is throttled without an expiry that will end it, whoever
\* deleted keys or crashed meanwhile, unless the config was not found when the
\* period was over: the expiry is then deleted, and the marks are not.
MarkHasExpiry ==
  \A h \in ThrottledHostnames :
    errorKey[h] = "throttled" => throttleExpiry # "none" \/ lookupFailed

\* No deletion takes the mark off a throttled hostname before its period is
\* over, be it by the waiter, the deleter, the cleaner or the throttler.  A
\* failure of its worker overwrites the mark: what is then deleted is a failure.
ThrottleKept ==
  [][\A h \in ThrottledHostnames :
       errorKey[h] = "throttled" /\ errorKey'[h] = "none" => throttleExpiry = "over"]_throttlingVars
=============================================================================
