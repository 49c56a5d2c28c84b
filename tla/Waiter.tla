------------------------------- MODULE Waiter -------------------------------
(***************************************************************************)
(* The waiter daemon (waiter.py): it goes through a snapshot of the        *)
(* workers waiting for their deployment, then starts a subprocess for      *)
(* each, at most MaxChecks at a time, and waits for all of them.           *)
(***************************************************************************)
EXTENDS WorkerState

CONSTANT MaxChecks  \* config.WAITER_MAX_PARALLEL_DEPLOY_PROCESSES

\* With a limit of 1 there are no subprocesses: not modelled.
ASSUME MaxChecksAssumption == MaxChecks \in Nat \ {0, 1}

VARIABLES
  waiterPhase,   \* where in run_single_iteration the daemon is
  waiterListed,  \* workers of the snapshot still to look at
  waiterQueue,   \* workers whose subprocess is still to be started
  checking,      \* what the subprocess of each worker is about to do
  publishing     \* the hostnames each subprocess is about to publish

waiterVars == <<waiterPhase, waiterListed, waiterQueue, checking, publishing>>

WaiterTypeOK ==
  /\ waiterPhase \in {"idle", "list", "check"}
  /\ waiterListed \subseteq Workers
  /\ waiterQueue \subseteq Workers
  /\ checking \in [Workers -> {"none", "check", "probe", "timeout", "complete", "publish"}]
  /\ publishing \in [Workers -> SUBSET Hostnames]

WaiterInit ==
  /\ waiterPhase = "idle"
  /\ waiterListed = {}
  /\ waiterQueue = {}
  /\ checking = [w \in Workers |-> "none"]
  /\ publishing = [w \in Workers |-> {}]

Checking == {w \in Workers : checking[w] # "none"}

Goto(w, step) == checking' = [checking EXCEPT ![w] = step]

-----------------------------------------------------------------------------
WaiterStart ==
  /\ waiterPhase = "idle"
  /\ waiterPhase' = "list"
  /\ waiterListed' = {w \in Workers : IsAwaited(w)}
  /\ UNCHANGED <<waiterQueue, checking, publishing, stateVars>>

\* A worker that waits without being ready is not deployed any more.
WaiterIterate(w) ==
  /\ waiterPhase = "list"
  /\ w \in waiterListed
  /\ waiterListed' = waiterListed \ {w}
  /\ IF w \in ready
     THEN waiterQueue' = waiterQueue \union {w} /\ UNCHANGED waiting
     ELSE waiting' = [waiting EXCEPT ![w] = "none"] /\ UNCHANGED waiterQueue
  /\ UNCHANGED <<waiterPhase, checking, publishing, hostnameKeys,
                 cacheKeys, ready, deployAttempt, orderKeys, forceDeleteData, cluster>>

WaiterProcess ==
  /\ waiterPhase = "list"
  /\ waiterListed = {}
  /\ waiterPhase' = "check"
  /\ UNCHANGED <<waiterListed, waiterQueue, checking, publishing, stateVars>>

StartCheck(w) ==
  /\ waiterPhase = "check"
  /\ w \in waiterQueue
  /\ Cardinality(Checking) < MaxChecks
  /\ waiterQueue' = waiterQueue \ {w}
  /\ Goto(w, "check")
  /\ UNCHANGED <<waiterPhase, waiterListed, publishing, stateVars>>

\* check_deployment_complete, the waiting key gone since the snapshot: .get()
\* returns None, .decode() raises, and the subprocess exits with an error,
\* for which finalize ends the daemon: see WaiterFinish.
CheckRaises(w) ==
  /\ checking[w] = "check"
  /\ ~IsAwaited(w)
  /\ Goto(w, "none")
  /\ UNCHANGED <<waiterPhase, waiterListed, waiterQueue, publishing, stateVars>>

CheckWithoutConfig(w) ==
  /\ checking[w] = "check"
  /\ IsAwaited(w)
  /\ "error" \in ConfigById(w)
  /\ SetWorkerError(w, "error")
  /\ Goto(w, "none")
  /\ UNCHANGED <<waiterPhase, waiterListed, waiterQueue, publishing,
                 forceDeleteData, cluster>>

\* The retry delay may or may not be over: it is measured from the time the
\* worker became ready, or from now when that key is gone.
CheckForError(w) ==
  /\ checking[w] = "check"
  /\ waiting[w] = "error"
  /\ \E config \in ConfigById(w) \ {"error"} : CacheConfig(w, config)
  /\ Goto(w, "none")
  /\ \/ waiting' = [waiting EXCEPT ![w] = "none"]
     \/ UNCHANGED waiting
  /\ UNCHANGED <<waiterPhase, waiterListed, waiterQueue, publishing,
                 hostnameKeys, cachedWorkerId, ready, deployAttempt, orderKeys,
                 forceDeleteData, cluster>>

CheckForComplete(w) ==
  /\ checking[w] = "check"
  /\ waiting[w] = "complete"
  /\ \E config \in ConfigById(w) \ {"error"} : CacheConfig(w, config)
  /\ Goto(w, "probe")
  /\ UNCHANGED <<waiterPhase, waiterListed, waiterQueue, publishing,
                 hostnameKeys, cachedWorkerId, flowKeys, orderKeys, forceDeleteData, cluster>>

\* is_ready: it answers False without the bucket, raises when kubectl cannot
\* exec into the worker's nginx, and a running nginx may or may not list it.
IsReady(w) ==
  /\ checking[w] = "probe"
  /\ w \in storage /\ w \in deployments
  /\ Goto(w, "complete")
  /\ UNCHANGED <<waiterPhase, waiterListed, waiterQueue, publishing, stateVars>>

IsNotReady(w) ==
  /\ checking[w] = "probe"
  /\ w \in storage => w \in deployments
  /\ Goto(w, "timeout")
  /\ UNCHANGED <<waiterPhase, waiterListed, waiterQueue, publishing, stateVars>>

\* The exception is caught outside the timeout check, which is skipped.
IsReadyRaises(w) ==
  /\ checking[w] = "probe"
  /\ w \in storage
  /\ Goto(w, "none")
  /\ UNCHANGED <<waiterPhase, waiterListed, waiterQueue, publishing, stateVars>>

WithinTimeout(w) ==
  /\ checking[w] = "timeout"
  /\ Goto(w, "none")
  /\ UNCHANGED <<waiterPhase, waiterListed, waiterQueue, publishing, stateVars>>

TimedOut(w) ==
  /\ checking[w] = "timeout"
  /\ \E config \in ConfigById(w) : SetWorkerError(w, config)
  /\ Goto(w, "none")
  /\ UNCHANGED <<waiterPhase, waiterListed, waiterQueue, publishing,
                 forceDeleteData, cluster>>

\* set_worker_available, first half: the hostnames are collected and the keys
\* of the deployment flow deleted, a deletion that was ordered meanwhile too.
LeaveFlow(w) ==
  /\ checking[w] = "complete"
  /\ \E config \in ConfigById(w) :
       LET H == WorkerHostnames(w, config)
       IN  /\ publishing' = [publishing EXCEPT ![w] = H]
           /\ DelHostnameKeys(H, hostnameError, errorAttempt, TRUE, FALSE)
           /\ cachedWorkerId' = cachedWorkerId \ H
           /\ DelWorkerKeys(w)
           /\ CacheConfig(w, config)
  /\ Goto(w, "publish")
  /\ UNCHANGED <<waiterPhase, waiterListed, waiterQueue, throttled, forceDeleteData, cluster>>

\* Second half: the collected hostnames are made available.
Publish(w) ==
  /\ checking[w] = "publish"
  /\ available' = available \union publishing[w]
  /\ publishing' = [publishing EXCEPT ![w] = {}]
  /\ SetLastAction(w)
  /\ Goto(w, "none")
  /\ UNCHANGED <<waiterPhase, waiterListed, waiterQueue, initialize,
                 hostnameError, throttled, errorAttempt, cachedWorkerId, flowKeys, orderKeys,
                 forceDeleteData, cluster>>

\* Multiprocessor.finalize raises when a subprocess failed, which ends the
\* daemon; Kubernetes starts it again, and it begins a new iteration as it
\* does after a normal one.
WaiterFinish ==
  /\ waiterPhase = "check"
  /\ waiterQueue = {} /\ Checking = {}
  /\ waiterPhase' = "idle"
  /\ UNCHANGED <<waiterListed, waiterQueue, checking, publishing, stateVars>>

WaiterCrash ==
  /\ waiterPhase # "idle"
  /\ waiterPhase' = "idle"
  /\ waiterListed' = {}
  /\ waiterQueue' = {}
  /\ checking' = [w \in Workers |-> "none"]
  /\ publishing' = [w \in Workers |-> {}]
  /\ UNCHANGED stateVars

CheckStep(w) ==
  \/ CheckRaises(w)
  \/ CheckWithoutConfig(w)
  \/ CheckForError(w)
  \/ CheckForComplete(w)
  \/ IsReady(w)
  \/ IsNotReady(w)
  \/ IsReadyRaises(w)
  \/ WithinTimeout(w)
  \/ TimedOut(w)
  \/ LeaveFlow(w)
  \/ Publish(w)

WaiterStep ==
  \/ WaiterStart
  \/ \E w \in Workers : WaiterIterate(w)
  \/ WaiterProcess
  \/ \E w \in Workers : StartCheck(w)
  \/ \E w \in Workers : CheckStep(w)
  \/ WaiterFinish
=============================================================================
