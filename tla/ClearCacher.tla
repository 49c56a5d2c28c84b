----------------------------- MODULE ClearCacher -----------------------------
(***************************************************************************)
(* The clear cacher (clear_cacher.py) and one worker with its Nginx pods:  *)
(* it compares the time of the user's last request to clear the cache, in  *)
(* the volume config, with the time it last cleared one of them.  Times    *)
(* are in seconds, and much may happen in one.                             *)
(***************************************************************************)
EXTENDS Naturals

CONSTANTS
  NginxPods,
  MaxClearClock,     \* bound on the time
  MaxClearFailures   \* bound on failed commands and restarts

ASSUME ClearAssumption == MaxClearClock \in Nat \ {0} /\ MaxClearFailures \in Nat

VARIABLES
  clearClock,
  wantedClear,     \* the time of the user's last request, 0 without one
  requestedClear,  \* clear_cache of the cached volume config
  lastClear,       \* worker:last_clear_cache, 0 without one
  clearPhase,      \* where in clear_cache_node the clear cacher is
  podsTodo,        \* the pods it has still to come to
  clearPod,        \* the pod it is at
  clearedAt,       \* now
  clearFailures,
  stalePods,       \* history: pods not cleared since the last request
  sameSecond       \* history: a pod was cleared and then a request came in one second

clearHistory == <<stalePods, sameSecond>>
clearVars == <<clearClock, wantedClear, requestedClear, lastClear, clearPhase, podsTodo, clearPod,
               clearedAt, clearFailures, clearHistory>>

ClearTimes == 0 .. MaxClearClock

ClearTypeOK ==
  /\ clearClock \in ClearTimes /\ wantedClear \in ClearTimes /\ requestedClear \in ClearTimes
  /\ lastClear \in ClearTimes /\ clearedAt \in ClearTimes
  /\ clearPhase \in {"list", "exec", "store"}
  /\ podsTodo \subseteq NginxPods /\ clearPod \subseteq NginxPods /\ stalePods \subseteq NginxPods
  /\ clearFailures \in 0 .. MaxClearFailures
  /\ sameSecond \in BOOLEAN

ClearInit ==
  /\ clearClock = 1 /\ clearedAt = 0
  /\ wantedClear = 0 /\ requestedClear = 0 /\ lastClear = 0
  /\ clearPhase = "list" /\ podsTodo = {} /\ clearPod = {}
  /\ clearFailures = 0
  /\ stalePods = {} /\ sameSecond = FALSE

ClearTick ==
  /\ clearClock < MaxClearClock
  /\ clearClock' = clearClock + 1
  /\ UNCHANGED <<wantedClear, requestedClear, lastClear, clearPhase, podsTodo, clearPod, clearedAt,
                 clearFailures, clearHistory>>

RequestClear ==
  /\ wantedClear' = clearClock
  /\ stalePods' = NginxPods
  /\ sameSecond' = (clearClock \in {lastClear, clearedAt})
  /\ UNCHANGED <<clearClock, requestedClear, lastClear, clearPhase, podsTodo, clearPod, clearedAt,
                 clearFailures>>

\* Some daemon has the volume config read from CWM again.
RenewConfig ==
  /\ requestedClear' = wantedClear
  /\ UNCHANGED <<clearClock, wantedClear, lastClear, clearPhase, podsTodo, clearPod, clearedAt,
                 clearFailures, clearHistory>>

-----------------------------------------------------------------------------
ClearUnchanged == UNCHANGED <<clearClock, wantedClear, requestedClear>>

\* An iteration over the nodes, and the worker's pods on them.
ListPods ==
  /\ clearPhase = "list" /\ podsTodo = {}
  /\ podsTodo' = NginxPods
  /\ ClearUnchanged
  /\ UNCHANGED <<lastClear, clearPhase, clearPod, clearedAt, clearFailures, clearHistory>>

IsClearDue == requestedClear # 0 /\ (lastClear = 0 \/ lastClear < requestedClear)

\* The request is looked up and compared, and the time taken.
CheckPod(p) ==
  /\ clearPhase = "list"
  /\ podsTodo' = podsTodo \ {p}
  /\ IF IsClearDue
     THEN clearPhase' = "exec" /\ clearPod' = {p} /\ clearedAt' = clearClock
     ELSE UNCHANGED <<clearPhase, clearPod, clearedAt>>
  /\ ClearUnchanged
  /\ UNCHANGED <<lastClear, clearFailures, clearHistory>>

ExecRm ==
  /\ clearPhase = "exec"
  /\ clearPhase' = "store"
  /\ stalePods' = stalePods \ clearPod
  /\ ClearUnchanged
  /\ UNCHANGED <<lastClear, podsTodo, clearPod, clearedAt, clearFailures, sameSecond>>

\* The time the cache counts as cleared at, with a mistake: when it is stored.
TimeOfStore == clearClock

TimeOfClear == clearedAt

StoreLastClear ==
  /\ clearPhase = "store"
  /\ clearPhase' = "list"
  /\ lastClear' = TimeOfClear
  /\ clearPod' = {} /\ clearedAt' = 0
  /\ ClearUnchanged
  /\ UNCHANGED <<podsTodo, clearFailures, clearHistory>>

ClearDaemon == ListPods \/ ExecRm \/ StoreLastClear \/ \E p \in podsTodo : CheckPod(p)

\* The command or Redis fails, which is caught, or the pod dies.
ClearFails ==
  /\ clearPhase # "list"
  /\ clearFailures < MaxClearFailures
  /\ clearFailures' = clearFailures + 1
  /\ clearPhase' = "list"
  /\ podsTodo' \in {podsTodo, {}}
  /\ clearPod' = {} /\ clearedAt' = 0
  /\ ClearUnchanged
  /\ UNCHANGED <<lastClear, clearHistory>>

ClearNext == ClearTick \/ RequestClear \/ RenewConfig \/ ClearDaemon \/ ClearFails

ClearSpec == ClearInit /\ [][ClearNext]_clearVars

-----------------------------------------------------------------------------
(* Properties *)

\* A request that no pod was cleared for yet is later than what the cache
\* counts, or is about to count, as cleared at: it is not taken for served.
\* The exception are requests in the second of a clear.
RequestIsDue ==
  stalePods = NginxPods /\ wantedClear # 0 =>
    \/ sameSecond
    \/ lastClear < wantedClear /\ (clearPhase = "store" => clearedAt < wantedClear)

\* After a request a pod is cleared, also when the request came while another
\* one was carried out; unless it came in the second of that other one.  It is
\* one pod: the others then count as cleared too.
ClearRequestServed == stalePods = NginxPods ~> stalePods # NginxPods \/ sameSecond
=============================================================================
