------------------------ MODULE DeploymentFlowSafety ------------------------
(* Proofs that the safety properties of DeploymentFlow hold for all values   *)
(* of its constants.  Each rests on an inductive invariant that adds what    *)
(* the processes concerned remember between their steps.                     *)
EXTENDS DeploymentFlowProofs

USE DEF stateVars, hostnameKeys, cacheKeys, flowKeys, orderKeys, cluster, vars, daemonVars,
        environmentVars, initializerVars, deployerVars, waiterVars, deleterVars, throttlerVars

-----------------------------------------------------------------------------
(* A worker is not deployed while it awaits its check or its retry *)

\* A subprocess runs only in the deployment phase, and for a worker that is
\* off the queue: what it records about the worker concerns no queued one.
DeployingPhase ==
  \A w \in Workers :
    deploying[w] # "none" => deployerPhase = "deploy" /\ w \notin deployerQueue

DeployerInv == TypeOK /\ DeployingPhase /\ DeployerExcludesWaiting

\* An operator on flow keys deletes the waiting key of its worker or keeps it.
WaitingCleared == \A w \in Workers : waiting'[w] \in {waiting[w], "none"}

\* Deleting a worker's keys never makes it wait.
LEMMA DelWorkerKeysClears ==
  ASSUME WorkerTypeOK, NEW w \in Workers, DelWorkerKeys(w)
  PROVE  WaitingCleared
BY DEF DelWorkerKeys, WorkerTypeOK, WaitingCleared

\* Nor does marking it failed or throttled.
LEMMA MarkWorkerClears ==
  ASSUME WorkerTypeOK, NEW w \in Workers, NEW answer, NEW cached, NEW isThrottle,
         MarkWorker(w, answer, cached, isThrottle)
  PROVE  WaitingCleared
BY DelWorkerKeysClears DEF MarkWorker

\* The preprocessing of a worker never makes one wait.
LEMMA PreprocessClears ==
  ASSUME WorkerTypeOK, NEW w \in Workers, NEW config, Preprocess(w, config)
  PROVE  WaitingCleared
<1>1. CASE SetWorkerError(w, config)
  BY <1>1, MarkWorkerClears DEF SetWorkerError
<1>2. CASE waiting' = waiting
  BY <1>2 DEF WaitingCleared
<1> QED BY <1>1, <1>2 DEF Preprocess, flowKeys

\* The initializer never makes a worker wait.
LEMMA InitializerClears ==
  ASSUME WorkerTypeOK, InitializerTypeOK, InitializerStep \/ InitializerCrash
  PROVE  WaitingCleared
<1>1. CASE UNCHANGED waiting
  BY <1>1 DEF WaitingCleared
<1>2. ASSUME NEW w \in Workers, ReadForcedUpdate(w)
      PROVE  UNCHANGED waiting
  BY <1>2 DEF ReadForcedUpdate
<1>3. ASSUME NEW job \in forcedJob, ForcedUpdate(job)
      PROVE  UNCHANGED waiting
  BY <1>3 DEF ForcedUpdate
<1>4. ASSUME NEW h \in Hostnames, ReadHostname(h)
      PROVE  UNCHANGED waiting
  BY <1>4 DEF ReadHostname
<1>5. CASE InitializerStart \/ StartHostnames \/ InitializerFinish \/ InitializerCrash
  BY <1>1, <1>5 DEF InitializerStart, StartHostnames, InitializerFinish, InitializerCrash
<1>6. ASSUME NEW job \in hostnameJob, HostnameConfigFailed(job) \/ InitializeHostname(job)
      PROVE  UNCHANGED waiting
  BY <1>6 DEF HostnameConfigFailed, InitializeHostname
<1>7. ASSUME NEW job \in failedJob, MarkRestOfWorker(job)
      PROVE  WaitingCleared
  <2>1. WorkerOf[job.hostname] \in Workers
    BY ConstantsAssumption DEF InitializerTypeOK
  <2> QED BY <1>1, <1>7, <2>1, MarkWorkerClears DEF MarkRestOfWorker
<1> QED
  BY <1>1, <1>2, <1>3, <1>4, <1>5, <1>6, <1>7 DEF InitializerStep

\* The waiter never makes a worker wait.
LEMMA WaiterClears ==
  ASSUME WorkerTypeOK, WaiterStep \/ WaiterCrash
  PROVE  WaitingCleared
<1>1. CASE UNCHANGED waiting
  BY <1>1 DEF WaitingCleared
<1>2. CASE WaiterStart \/ WaiterProcess \/ WaiterFinish \/ WaiterCrash
  BY <1>1, <1>2 DEF WaiterStart, WaiterProcess, WaiterFinish, WaiterCrash
<1>3. ASSUME NEW w \in Workers, WaiterIterate(w)
      PROVE  WaitingCleared
  BY <1>3 DEF WaiterIterate, WaitingCleared, WorkerTypeOK
<1>4. ASSUME NEW w \in Workers, StartCheck(w)
      PROVE  UNCHANGED waiting
  BY <1>4 DEF StartCheck
<1>5. ASSUME NEW w \in Workers, CheckStep(w)
      PROVE  WaitingCleared
  <2>1. CASE CheckWithoutConfig(w) \/ TimedOut(w) \/ LeaveFlow(w)
    BY <2>1, DelWorkerKeysClears, MarkWorkerClears
    DEF CheckWithoutConfig, TimedOut, LeaveFlow, SetWorkerError
  <2>2. CASE CheckForError(w)
    BY <2>2 DEF CheckForError, WaitingCleared, WorkerTypeOK
  <2>3. CASE \/ CheckRaises(w) \/ CheckForComplete(w) \/ IsReady(w) \/ IsNotReady(w)
             \/ IsReadyRaises(w) \/ WithinTimeout(w) \/ Publish(w)
    BY <1>1, <2>3
    DEF CheckRaises, CheckForComplete, IsReady, IsNotReady, IsReadyRaises, WithinTimeout, Publish
  <2> QED BY <1>5, <2>1, <2>2, <2>3 DEF CheckStep
<1> QED
  BY <1>1, <1>2, <1>3, <1>4, <1>5 DEF WaiterStep

\* The deleter never makes a worker wait.
LEMMA DeleterClears ==
  ASSUME WorkerTypeOK, DeleterStep \/ DeleterCrash
  PROVE  WaitingCleared
<1>1. CASE UNCHANGED waiting
  BY <1>1 DEF WaitingCleared
<1>2. ASSUME NEW w \in Workers, DeleteKeys(w)
      PROVE  WaitingCleared
  BY <1>2, DelWorkerKeysClears DEF DeleteKeys
<1>3. ASSUME NEW w \in Workers, CancelDelete(w)
      PROVE  UNCHANGED waiting
  BY <1>3 DEF CancelDelete
<1>4. ASSUME NEW job \in deleteJob,
             DeleteNamespace(job) \/ DeleteData(job) \/ DeleteRaises(job)
      PROVE  UNCHANGED waiting
  BY <1>4 DEF DeleteNamespace, DeleteData, DeleteRaises
<1>5. CASE DeleterStart \/ DeleterFinish \/ DeleterCrash
  BY <1>1, <1>5 DEF DeleterStart, DeleterFinish, DeleterCrash
<1> QED
  BY <1>1, <1>2, <1>3, <1>4, <1>5 DEF DeleterStep

\* Neither the throttler nor the Redis cleaner makes a worker wait.
LEMMA ThrottlerClears ==
  ASSUME WorkerTypeOK, NEW w \in Workers,
         ThrottleStart(w) \/ ThrottleMark(w) \/ ThrottleStop(w) \/ ThrottlerCrash
  PROVE  WaitingCleared
<1>1. CASE ThrottleStart(w) \/ ThrottlerCrash
  BY <1>1 DEF ThrottleStart, ThrottlerCrash, WaitingCleared
<1>2. CASE ThrottleMark(w)
  BY <1>2, MarkWorkerClears DEF ThrottleMark
<1>3. CASE ThrottleStop(w)
  BY <1>3, DelWorkerKeysClears DEF ThrottleStop
<1> QED BY <1>1, <1>2, <1>3

\* The cleaner deletes no worker key at all.
LEMMA CleanerClears ==
  ASSUME CleanerStart \/ (\E h \in Hostnames : CleanHostname(h)) \/ CleanerCrash
  PROVE  WaitingCleared /\ UNCHANGED ready
BY DEF CleanerStart, CleanHostname, CleanerCrash, WaitingCleared

\* The environment changes no flow key.
LEMMA EnvironmentClears ==
  ASSUME Environment
  PROVE  WaitingCleared /\ UNCHANGED ready
BY DEF Environment, Request, OrderDelete, OrderUpdate, OrderRoutineDelete, OrderRoutineUpdate,
       WaitingCleared

\* A process that makes no worker wait, beside the deployer's, cannot make a
\* worker wait that is being deployed.
LEMMA DeployerInvKept ==
  ASSUME DeployingPhase, DeployerExcludesWaiting, WaitingCleared, UNCHANGED deployerVars
  PROVE  DeployingPhase' /\ DeployerExcludesWaiting'
BY DEF DeployingPhase, DeployerExcludesWaiting, WaitingCleared

\* The deployer's own steps: a worker is queued only while it does not wait,
\* and it waits again only when its subprocess ends.
LEMMA DeployerInvStep ==
  ASSUME WorkerTypeOK, DeployerTypeOK, DeployingPhase, DeployerExcludesWaiting,
         DeployerStep \/ DeployerCrash
  PROVE  DeployingPhase' /\ DeployerExcludesWaiting'
<1> USE DEF DeployingPhase, DeployerExcludesWaiting, DeployerTypeOK, WorkerTypeOK
<1>1. CASE DeployerStart \/ DeployerProcess \/ DeployerFinish \/ DeployerCrash
  BY <1>1 DEF DeployerStart, DeployerProcess, DeployerFinish, DeployerCrash, Deploying
<1>2. ASSUME NEW w \in Workers, DeployerPreprocess(w)
      PROVE  DeployingPhase' /\ DeployerExcludesWaiting'
  <2>1. CASE IsPickable(w)
    <3>1. WaitingCleared
      BY <1>2, <2>1, PreprocessClears DEF DeployerPreprocess
    <3>2. waiting[w] = "none"
      BY <2>1 DEF IsPickable, IsAwaited
    <3> QED BY <1>2, <2>1, <3>1, <3>2 DEF DeployerPreprocess, WaitingCleared
  <2>2. CASE ~IsPickable(w)
    BY <1>2, <2>2 DEF DeployerPreprocess
  <2> QED BY <2>1, <2>2
<1>3. ASSUME NEW w \in Workers, StartDeployWorker(w)
      PROVE  DeployingPhase' /\ DeployerExcludesWaiting'
  BY <1>3 DEF StartDeployWorker
<1>4. ASSUME NEW w \in Workers, DeployWorkerPreprocess(w)
      PROVE  DeployingPhase' /\ DeployerExcludesWaiting'
  <2>1. WaitingCleared
    BY <1>4, PreprocessClears DEF DeployWorkerPreprocess
  <2>2. /\ deploying[w] = "preprocess"
        /\ deploying'[w] \in {"deploy", "none"}
        /\ \A v \in Workers \ {w} : deploying'[v] = deploying[v]
        /\ UNCHANGED <<deployerPhase, deployerQueue>>
    BY <1>4 DEF DeployWorkerPreprocess
  <2> QED BY <2>1, <2>2 DEF WaitingCleared
<1>5. ASSUME NEW w \in Workers,
             DeployWorkerRaises(w) \/ DeployMinio(w) \/ DeployCdn(w) \/ DeployFails(w)
      PROVE  DeployingPhase' /\ DeployerExcludesWaiting'
  BY <1>5 DEF DeployWorkerRaises, DeployMinio, DeployCdn, DeployFails
<1>6. ASSUME NEW w \in Workers, WaitForDeployment(w)
      PROVE  DeployingPhase' /\ DeployerExcludesWaiting'
  BY <1>6 DEF WaitForDeployment
<1>7. ASSUME NEW w \in Workers, RetryOrGiveUp(w)
      PROVE  DeployingPhase' /\ DeployerExcludesWaiting'
  <2>1. /\ deploying[w] = "failed"
        /\ deploying' = [deploying EXCEPT ![w] = "none"]
        /\ UNCHANGED <<deployerPhase, deployerQueue>>
    BY <1>7 DEF RetryOrGiveUp
  <2>2. \A v \in Workers \ {w} : waiting'[v] \in {waiting[v], "none"}
    <3>1. CASE \E config : SetWorkerError(w, config)
      BY <3>1, MarkWorkerClears DEF SetWorkerError, WaitingCleared
    <3>2. CASE waiting' = [waiting EXCEPT ![w] = "error"]
      BY <3>2
    <3> QED BY <1>7, <3>1, <3>2 DEF RetryOrGiveUp
  <2> QED BY <2>1, <2>2
<1> QED
  BY <1>1, <1>2, <1>3, <1>4, <1>5, <1>6, <1>7 DEF DeployerStep, DeployWorkerStep

\* Every step keeps DeployerInv.
LEMMA DeployerInvNext == DeployerInv /\ [Next]_vars => DeployerInv'
<1> SUFFICES ASSUME DeployerInv, [Next]_vars
             PROVE  DeployingPhase' /\ DeployerExcludesWaiting'
  BY TypeNext DEF DeployerInv
<1>0. /\ DeployingPhase /\ DeployerExcludesWaiting
      /\ WorkerTypeOK /\ InitializerTypeOK /\ DeployerTypeOK
  BY DEF DeployerInv, TypeOK, StateTypeOK
<1>1. CASE DeployerStep \/ DeployerCrash
  BY <1>0, <1>1, DeployerInvStep
<1>2. CASE WaitingCleared /\ UNCHANGED deployerVars
  BY <1>0, <1>2, DeployerInvKept
<1>3. CASE Environment
  <2>1. UNCHANGED deployerVars
    BY <1>3 DEF Environment, Request, OrderDelete, OrderUpdate, OrderRoutineDelete,
                OrderRoutineUpdate
  <2> QED BY <1>2, <1>3, <2>1, EnvironmentClears
<1>4. CASE InitializerNext \/ WaiterNext \/ DeleterNext
  BY <1>0, <1>2, <1>4, InitializerClears, WaiterClears, DeleterClears
  DEF InitializerNext, WaiterNext, DeleterNext
<1>5. CASE ThrottlerNext \/ CleanerNext
  BY <1>0, <1>2, <1>5, ThrottlerClears, CleanerClears DEF ThrottlerNext, CleanerNext
<1>6. CASE Crash
  <2>1. CASE ThrottlerCrash \/ CleanerCrash
    BY <1>2, <1>6, <2>1 DEF Crash, ThrottlerCrash, CleanerCrash, WaitingCleared
  <2> QED
    BY <1>0, <1>1, <1>2, <1>6, <2>1, InitializerClears, WaiterClears, DeleterClears DEF Crash
<1>7. CASE UNCHANGED vars
  BY <1>2, <1>7 DEF WaitingCleared
<1> QED
  BY <1>1, <1>3, <1>4, <1>5, <1>6, <1>7 DEF Next, DeployerNext

\* A worker is not deployed again while a deployment of it awaits its check or
\* its retry, however many workers and subprocesses there are and whichever
\* daemons restart.
THEOREM DeployerExcludesWaitingHolds == Spec => []DeployerExcludesWaiting
<1>1. Init => DeployerInv
  BY TypeInit
  DEF DeployerInv, DeployingPhase, DeployerExcludesWaiting, Init, StateInit, DeployerInit
<1>2. DeployerInv => DeployerExcludesWaiting
  BY DEF DeployerInv
<1> QED
  BY <1>1, <1>2, DeployerInvNext, PTL DEF Spec

-----------------------------------------------------------------------------
(* The initializer marks no worker ready that is *)

\* What was read in one half of the iteration is acted upon in that half.
JobPhases ==
  /\ forcedJob # {} => initPhase = "forced"
  /\ hostnameJob # {} => initPhase = "hostnames"

InitializerInv == TypeOK /\ JobPhases /\ NotReadyTwice

\* The other daemons only ever delete the ready key.
LEMMA DeployerReady ==
  ASSUME DeployerStep \/ DeployerCrash
  PROVE  ready' \subseteq ready
<1>1. ASSUME NEW w \in Workers, NEW config, Preprocess(w, config) \/ SetWorkerError(w, config)
      PROVE  ready' \subseteq ready
  BY <1>1 DEF Preprocess, SetWorkerError, MarkWorker, DelWorkerKeys
<1>2. ASSUME NEW w \in Workers,
             DeployerPreprocess(w) \/ DeployWorkerPreprocess(w) \/ RetryOrGiveUp(w)
      PROVE  ready' \subseteq ready
  BY <1>1, <1>2 DEF DeployerPreprocess, DeployWorkerPreprocess, RetryOrGiveUp
<1>3. CASE DeployerStart \/ DeployerProcess \/ DeployerFinish \/ DeployerCrash
  BY <1>3 DEF DeployerStart, DeployerProcess, DeployerFinish, DeployerCrash
<1>4. ASSUME NEW w \in Workers,
             \/ StartDeployWorker(w) \/ DeployWorkerRaises(w) \/ DeployMinio(w)
             \/ DeployCdn(w) \/ DeployFails(w) \/ WaitForDeployment(w)
      PROVE  UNCHANGED ready
  BY <1>4
  DEF StartDeployWorker, DeployWorkerRaises, DeployMinio, DeployCdn, DeployFails, WaitForDeployment
<1> QED BY <1>2, <1>3, <1>4 DEF DeployerStep, DeployWorkerStep

\* The waiter deletes the key of the workers it publishes or gives up.
LEMMA WaiterReady ==
  ASSUME WaiterStep \/ WaiterCrash
  PROVE  ready' \subseteq ready
<1>1. ASSUME NEW w \in Workers, CheckWithoutConfig(w) \/ TimedOut(w) \/ LeaveFlow(w)
      PROVE  ready' \subseteq ready
  BY <1>1 DEF CheckWithoutConfig, TimedOut, LeaveFlow, SetWorkerError, MarkWorker, DelWorkerKeys
<1>2. CASE WaiterStart \/ WaiterProcess \/ WaiterFinish \/ WaiterCrash
  BY <1>2 DEF WaiterStart, WaiterProcess, WaiterFinish, WaiterCrash
<1>3. ASSUME NEW w \in Workers,
             \/ WaiterIterate(w) \/ StartCheck(w) \/ CheckRaises(w) \/ CheckForError(w)
             \/ CheckForComplete(w) \/ IsReady(w) \/ IsNotReady(w) \/ IsReadyRaises(w)
             \/ WithinTimeout(w) \/ Publish(w)
      PROVE  UNCHANGED ready
  BY <1>3
  DEF WaiterIterate, StartCheck, CheckRaises, CheckForError, CheckForComplete, IsReady,
      IsNotReady, IsReadyRaises, WithinTimeout, Publish
<1> QED BY <1>1, <1>2, <1>3 DEF WaiterStep, CheckStep

\* The deleter deletes the key of the workers it deletes.
LEMMA DeleterReady ==
  ASSUME DeleterStep \/ DeleterCrash
  PROVE  ready' \subseteq ready
<1>1. ASSUME NEW w \in Workers, DeleteKeys(w)
      PROVE  ready' \subseteq ready
  BY <1>1 DEF DeleteKeys, DelWorkerKeys
<1>2. ASSUME NEW w \in Workers, CancelDelete(w)
      PROVE  UNCHANGED ready
  BY <1>2 DEF CancelDelete
<1>3. CASE DeleterStart \/ DeleterFinish \/ DeleterCrash
  BY <1>3 DEF DeleterStart, DeleterFinish, DeleterCrash
<1>4. ASSUME NEW job \in deleteJob,
             DeleteNamespace(job) \/ DeleteData(job) \/ DeleteRaises(job)
      PROVE  UNCHANGED ready
  BY <1>4 DEF DeleteNamespace, DeleteData, DeleteRaises
<1> QED BY <1>1, <1>2, <1>3, <1>4 DEF DeleterStep

\* The throttler deletes the key of the workers it marks or unmarks.
LEMMA ThrottlerReady ==
  ASSUME NEW w \in Workers, ThrottleStart(w) \/ ThrottleMark(w) \/ ThrottleStop(w)
  PROVE  ready' \subseteq ready
BY DEF ThrottleStart, ThrottleMark, ThrottleStop, MarkWorker, DelWorkerKeys

\* The initializer's own steps: what it reads is acted upon before anything
\* else is read, so the one worker it marks is one nobody else marks ready.
LEMMA InitializerInvStep ==
  ASSUME JobPhases, NotReadyTwice, InitializerStep \/ InitializerCrash
  PROVE  JobPhases' /\ NotReadyTwice'
<1> USE DEF JobPhases, NotReadyTwice
<1>1. CASE InitializerStart \/ StartHostnames \/ InitializerFinish \/ InitializerCrash
  BY <1>1 DEF InitializerStart, StartHostnames, InitializerFinish, InitializerCrash
<1>2. ASSUME NEW w \in Workers, ReadForcedUpdate(w)
      PROVE  JobPhases' /\ NotReadyTwice'
  BY <1>2 DEF ReadForcedUpdate, IsInFlow
<1>3. ASSUME NEW job \in forcedJob, ForcedUpdate(job)
      PROVE  JobPhases' /\ NotReadyTwice'
  BY <1>3 DEF ForcedUpdate
<1>4. ASSUME NEW h \in Hostnames, ReadHostname(h)
      PROVE  JobPhases' /\ NotReadyTwice'
  BY <1>4 DEF ReadHostname, IsInFlow
<1>5. ASSUME NEW job \in hostnameJob, HostnameConfigFailed(job) \/ InitializeHostname(job)
      PROVE  JobPhases' /\ NotReadyTwice'
  <2>1. hostnameJob' = {} /\ UNCHANGED <<initPhase, forcedJob>>
    BY <1>5 DEF HostnameConfigFailed, InitializeHostname
  <2> QED BY <1>5, <2>1
<1>6. ASSUME NEW job \in failedJob, MarkRestOfWorker(job)
      PROVE  JobPhases' /\ NotReadyTwice'
  <2>1. ready' \subseteq ready /\ UNCHANGED <<initPhase, forcedJob, hostnameJob>>
    BY <1>6 DEF MarkRestOfWorker, MarkWorker, DelWorkerKeys
  <2> QED BY <2>1
<1> QED BY <1>1, <1>2, <1>3, <1>4, <1>5, <1>6 DEF InitializerStep

\* Every step keeps InitializerInv.
LEMMA InitializerInvNext == InitializerInv /\ [Next]_vars => InitializerInv'
<1> SUFFICES ASSUME InitializerInv, [Next]_vars
             PROVE  JobPhases' /\ NotReadyTwice'
  BY TypeNext DEF InitializerInv
<1>0. JobPhases /\ NotReadyTwice
  BY DEF InitializerInv
<1>1. CASE InitializerStep \/ InitializerCrash
  BY <1>0, <1>1, InitializerInvStep
<1>2. CASE ready' \subseteq ready /\ UNCHANGED initializerVars
  BY <1>0, <1>2 DEF JobPhases, NotReadyTwice
<1>3. CASE Environment
  <2>1. UNCHANGED initializerVars
    BY <1>3 DEF Environment, Request, OrderDelete, OrderUpdate, OrderRoutineDelete,
                OrderRoutineUpdate
  <2> QED BY <1>2, <1>3, <2>1, EnvironmentClears
<1>4. CASE DeployerNext \/ WaiterNext \/ DeleterNext
  BY <1>2, <1>4, DeployerReady, WaiterReady, DeleterReady
  DEF DeployerNext, WaiterNext, DeleterNext
<1>5. CASE ThrottlerNext \/ CleanerNext
  BY <1>2, <1>5, ThrottlerReady, CleanerClears DEF ThrottlerNext, CleanerNext
<1>6. CASE Crash
  BY <1>1, <1>2, <1>6, DeployerReady, WaiterReady, DeleterReady
  DEF Crash, ThrottlerCrash, CleanerCrash
<1>7. CASE UNCHANGED vars
  BY <1>2, <1>7
<1> QED
  BY <1>1, <1>3, <1>4, <1>5, <1>6, <1>7 DEF Next, InitializerNext

\* The initializer acts on what it read a lookup earlier, and yet never marks
\* a worker ready anew.
THEOREM NotReadyTwiceHolds == Spec => []NotReadyTwice
<1>1. Init => InitializerInv
  BY TypeInit DEF InitializerInv, JobPhases, NotReadyTwice, Init, InitializerInit
<1>2. InitializerInv => NotReadyTwice
  BY DEF InitializerInv
<1> QED
  BY <1>1, <1>2, InitializerInvNext, PTL DEF Spec

-----------------------------------------------------------------------------
(* The hostname keys *)

\* What every step but a failed lookup by hostname does to them: none becomes
\* both queued and failed, an attempt number is kept or reset, and it is reset
\* with the error key.
HostnameKeysKept ==
  /\ initialize' \cap hostnameError' \subseteq initialize \cap hostnameError
  /\ \A h \in Hostnames :
       /\ errorAttempt'[h] \in {0, errorAttempt[h]}
       /\ h \in hostnameError \ hostnameError' => errorAttempt'[h] = 0

\* del_worker_hostname_keys deletes the initialize key of every hostname its
\* caller has marked failed.
LEMMA DelHostnameKeysKeeps ==
  ASSUME HostnameTypeOK, NEW H, NEW failed, NEW withError \in BOOLEAN, NEW withAvailable,
         hostnameError \subseteq failed, failed \subseteq hostnameError \union H,
         DelHostnameKeys(H, failed, errorAttempt, withError, withAvailable)
  PROVE  HostnameKeysKept
BY DEF DelHostnameKeys, HostnameKeysKept, HostnameTypeOK

\* Marking a worker failed or throttled is such a step.
LEMMA MarkWorkerKeeps ==
  ASSUME HostnameTypeOK, NEW w, NEW answer, NEW cached, NEW isThrottle,
         MarkWorker(w, answer, cached, isThrottle)
  PROVE  HostnameKeysKept
<1> DEFINE H == WorkerHostnames(w, answer)
           failed == hostnameError \union H
<1>1. DelHostnameKeys(H, failed, errorAttempt, FALSE, TRUE)
  BY DEF MarkWorker
<1>2. hostnameError \subseteq failed /\ failed \subseteq hostnameError \union H
  OBVIOUS
<1> HIDE DEF H, failed
<1> QED BY <1>1, <1>2, DelHostnameKeysKeeps

\* So is a step that changes none of these keys.
LEMMA UnchangedKeeps ==
  ASSUME UNCHANGED <<initialize, hostnameError, errorAttempt>>
  PROVE  HostnameKeysKept
BY DEF HostnameKeysKept

\* So is marking a hostname failed, when no attempt is counted.
LEMMA MarkHostnameKeeps ==
  ASSUME HostnameTypeOK, NEW h, MarkHostname(h, errorAttempt)
  PROVE  HostnameKeysKept
<1> DEFINE failed == hostnameError \union {h}
<1>1. DelHostnameKeys({h}, failed, errorAttempt, FALSE, TRUE)
  BY DEF MarkHostname
<1>2. hostnameError \subseteq failed /\ failed \subseteq hostnameError \union {h}
  OBVIOUS
<1> HIDE DEF failed
<1> QED BY <1>1, <1>2, DelHostnameKeysKeeps

\* So are requests, since only a hostname that did not fail is queued, and the
\* updater's orders.
LEMMA EnvironmentKeeps ==
  ASSUME Environment
  PROVE  HostnameKeysKept
<1>1. ASSUME NEW h \in Hostnames, Request(h)
      PROVE  HostnameKeysKept
  BY <1>1 DEF Request, HostnameKeysKept
<1>2. ASSUME NEW w \in Workers,
             \/ OrderDelete(w) \/ OrderUpdate(w)
             \/ OrderRoutineDelete(w) \/ OrderRoutineUpdate(w)
      PROVE  HostnameKeysKept
  BY <1>2, UnchangedKeeps
  DEF OrderDelete, OrderUpdate, OrderRoutineDelete, OrderRoutineUpdate
<1> QED BY <1>1, <1>2 DEF Environment

\* So are the steps of the deployer.
LEMMA DeployerKeeps ==
  ASSUME HostnameTypeOK, DeployerStep \/ DeployerCrash
  PROVE  HostnameKeysKept
<1>1. ASSUME NEW w \in Workers, NEW config, Preprocess(w, config)
      PROVE  HostnameKeysKept
  BY <1>1, MarkWorkerKeeps, UnchangedKeeps DEF Preprocess, SetWorkerError
<1>2. ASSUME NEW w \in Workers,
             DeployerPreprocess(w) \/ DeployWorkerPreprocess(w) \/ RetryOrGiveUp(w)
      PROVE  HostnameKeysKept
  BY <1>1, <1>2, MarkWorkerKeeps, UnchangedKeeps
  DEF DeployerPreprocess, DeployWorkerPreprocess, RetryOrGiveUp, SetWorkerError
<1>3. CASE DeployerStart \/ DeployerProcess \/ DeployerFinish \/ DeployerCrash
  BY <1>3, UnchangedKeeps DEF DeployerStart, DeployerProcess, DeployerFinish, DeployerCrash
<1>4. ASSUME NEW w \in Workers,
             \/ StartDeployWorker(w) \/ DeployWorkerRaises(w) \/ DeployMinio(w)
             \/ DeployCdn(w) \/ DeployFails(w) \/ WaitForDeployment(w)
      PROVE  HostnameKeysKept
  BY <1>4, UnchangedKeeps
  DEF StartDeployWorker, DeployWorkerRaises, DeployMinio, DeployCdn, DeployFails, WaitForDeployment
<1> QED BY <1>2, <1>3, <1>4 DEF DeployerStep, DeployWorkerStep

\* So are those of the waiter, for a worker given up and for one published.
LEMMA WaiterKeeps ==
  ASSUME HostnameTypeOK, WaiterStep \/ WaiterCrash
  PROVE  HostnameKeysKept
<1>1. ASSUME NEW w \in Workers, CheckWithoutConfig(w) \/ TimedOut(w)
      PROVE  HostnameKeysKept
  BY <1>1, MarkWorkerKeeps DEF CheckWithoutConfig, TimedOut, SetWorkerError
<1>2. ASSUME NEW w \in Workers, LeaveFlow(w)
      PROVE  HostnameKeysKept
  BY <1>2, DelHostnameKeysKeeps DEF LeaveFlow
<1>3. CASE WaiterStart \/ WaiterProcess \/ WaiterFinish \/ WaiterCrash
  BY <1>3, UnchangedKeeps DEF WaiterStart, WaiterProcess, WaiterFinish, WaiterCrash
<1>4. ASSUME NEW w \in Workers,
             \/ WaiterIterate(w) \/ StartCheck(w) \/ CheckRaises(w) \/ CheckForError(w)
             \/ CheckForComplete(w) \/ IsReady(w) \/ IsNotReady(w) \/ IsReadyRaises(w)
             \/ WithinTimeout(w) \/ Publish(w)
      PROVE  HostnameKeysKept
  BY <1>4, UnchangedKeeps
  DEF WaiterIterate, StartCheck, CheckRaises, CheckForError, CheckForComplete, IsReady,
      IsNotReady, IsReadyRaises, WithinTimeout, Publish
<1> QED BY <1>1, <1>2, <1>3, <1>4 DEF WaiterStep, CheckStep

\* So are those of the deleter.
LEMMA DeleterKeeps ==
  ASSUME HostnameTypeOK, DeleterStep \/ DeleterCrash
  PROVE  HostnameKeysKept
<1>1. ASSUME NEW w \in Workers, DeleteKeys(w)
      PROVE  HostnameKeysKept
  BY <1>1, DelHostnameKeysKeeps DEF DeleteKeys
<1>2. ASSUME NEW w \in Workers, CancelDelete(w)
      PROVE  HostnameKeysKept
  BY <1>2, UnchangedKeeps DEF CancelDelete
<1>3. CASE DeleterStart \/ DeleterFinish \/ DeleterCrash
  BY <1>3, UnchangedKeeps DEF DeleterStart, DeleterFinish, DeleterCrash
<1>4. ASSUME NEW job \in deleteJob,
             DeleteNamespace(job) \/ DeleteData(job) \/ DeleteRaises(job)
      PROVE  HostnameKeysKept
  BY <1>4, UnchangedKeeps DEF DeleteNamespace, DeleteData, DeleteRaises
<1> QED BY <1>1, <1>2, <1>3, <1>4 DEF DeleterStep

\* So are those of the throttler, which resets the attempts of the hostnames
\* it unmarks.
LEMMA ThrottlerKeeps ==
  ASSUME HostnameTypeOK, NEW w \in Workers, ThrottleStart(w) \/ ThrottleMark(w) \/ ThrottleStop(w)
  PROVE  HostnameKeysKept
<1>1. CASE ThrottleStart(w)
  BY <1>1, UnchangedKeeps DEF ThrottleStart
<1>2. CASE ThrottleMark(w)
  BY <1>2, MarkWorkerKeeps DEF ThrottleMark
<1>3. CASE ThrottleStop(w)
  <2>1. PICK H : DelThrottledKeys(H)
    BY <1>3 DEF ThrottleStop
  <2> QED BY <2>1 DEF DelThrottledKeys, HostnameKeysKept, HostnameTypeOK
<1> QED BY <1>1, <1>2, <1>3

\* So are those of the Redis cleaner.
LEMMA CleanerKeeps ==
  ASSUME HostnameTypeOK, CleanerStart \/ \E h \in Hostnames : CleanHostname(h)
  PROVE  HostnameKeysKept
<1>1. CASE CleanerStart
  BY <1>1, UnchangedKeeps DEF CleanerStart
<1>2. ASSUME NEW h \in Hostnames, CleanHostname(h)
      PROVE  HostnameKeysKept
  BY <1>2, DelHostnameKeysKeeps, UnchangedKeeps DEF CleanHostname
<1> QED BY <1>1, <1>2

-----------------------------------------------------------------------------
(* Failed hostnames are not queued, and attempts stop *)

\* A hostname that is still tried has attempts left: one that is not marked
\* failed, one of the initializer's snapshot, and the one it looked up, which
\* is off the snapshot by then.
AttemptsLeft ==
  /\ \A h \in Hostnames \ hostnameError : errorAttempt[h] < MaxErrorAttempts
  /\ \A h \in initHostnames : errorAttempt[h] < MaxErrorAttempts
  /\ \A job \in hostnameJob : /\ errorAttempt[job.hostname] < MaxErrorAttempts
                              /\ job.hostname \notin initHostnames

HostnameInv ==
  /\ InitializerInv
  /\ FailedIsNotQueued
  /\ ErrorAttemptsBounded
  /\ AttemptsLeft

\* Steps that count no attempt keep all three while the initializer stands
\* still, or is done with the hostname it looked up.
LEMMA HostnameInvKept ==
  ASSUME HostnameTypeOK, InitializerTypeOK, FailedIsNotQueued, ErrorAttemptsBounded,
         AttemptsLeft, HostnameKeysKept, UNCHANGED initHostnames, hostnameJob' \subseteq hostnameJob
  PROVE  FailedIsNotQueued' /\ ErrorAttemptsBounded' /\ AttemptsLeft'
<1>1. FailedIsNotQueued'
  BY DEF FailedIsNotQueued, HostnameKeysKept
<1>2. \A h \in Hostnames : errorAttempt'[h] <= errorAttempt[h]
  BY DEF HostnameKeysKept, HostnameTypeOK
<1>3. ErrorAttemptsBounded'
  BY <1>2, HostnameTypeOK, ConstantsAssumption
  DEF ErrorAttemptsBounded, HostnameKeysKept, HostnameTypeOK
<1>4. AttemptsLeft'
  <2>1. ASSUME NEW h \in Hostnames, errorAttempt[h] < MaxErrorAttempts
        PROVE  errorAttempt'[h] < MaxErrorAttempts
    BY <2>1, ConstantsAssumption DEF HostnameKeysKept, HostnameTypeOK
  <2>2. ASSUME NEW h \in Hostnames \ hostnameError'
        PROVE  errorAttempt'[h] < MaxErrorAttempts
    BY <2>1, <2>2, ConstantsAssumption DEF HostnameKeysKept, AttemptsLeft
  <2>3. \A job \in hostnameJob : job.hostname \in Hostnames
    BY DEF InitializerTypeOK
  <2> QED BY <2>1, <2>2, <2>3 DEF AttemptsLeft, InitializerTypeOK
<1> QED BY <1>1, <1>3, <1>4

\* The steps of the initializer: the last attempt of a hostname marks it failed.
LEMMA HostnameInvStep ==
  ASSUME HostnameTypeOK, InitializerTypeOK, JobPhases, FailedIsNotQueued,
         ErrorAttemptsBounded, AttemptsLeft, InitializerStep \/ InitializerCrash
  PROVE  FailedIsNotQueued' /\ ErrorAttemptsBounded' /\ AttemptsLeft'
<1>0. CASE HostnameKeysKept /\ UNCHANGED <<initHostnames, hostnameJob>>
  BY <1>0, HostnameInvKept
<1>1. CASE InitializerStart \/ InitializerFinish \/ InitializerCrash
  BY <1>1
  DEF InitializerStart, InitializerFinish, InitializerCrash, FailedIsNotQueued,
      ErrorAttemptsBounded, AttemptsLeft
<1>2. CASE StartHostnames
  BY <1>2
  DEF StartHostnames, JobPhases, FailedIsNotQueued, ErrorAttemptsBounded, AttemptsLeft,
      HostnameTypeOK
<1>3. ASSUME NEW w \in Workers, ReadForcedUpdate(w)
      PROVE  HostnameKeysKept /\ UNCHANGED <<initHostnames, hostnameJob>>
  BY <1>3, UnchangedKeeps DEF ReadForcedUpdate
<1>4. ASSUME NEW job \in forcedJob, ForcedUpdate(job)
      PROVE  HostnameKeysKept /\ UNCHANGED <<initHostnames, hostnameJob>>
  BY <1>4, UnchangedKeeps DEF ForcedUpdate
<1>5. ASSUME NEW h \in Hostnames, ReadHostname(h)
      PROVE  FailedIsNotQueued' /\ ErrorAttemptsBounded' /\ AttemptsLeft'
  <2>1. UNCHANGED <<initialize, hostnameError, errorAttempt>>
    BY <1>5 DEF ReadHostname
  <2>2. initHostnames' = initHostnames \ {h} /\ h \in initHostnames
    BY <1>5 DEF ReadHostname
  <2>3. \A job \in hostnameJob' : job.hostname = h
    BY <1>5 DEF ReadHostname
  <2> QED BY <2>1, <2>2, <2>3 DEF FailedIsNotQueued, ErrorAttemptsBounded, AttemptsLeft
<1>6. ASSUME NEW job \in hostnameJob, InitializeHostname(job)
      PROVE  FailedIsNotQueued' /\ ErrorAttemptsBounded' /\ AttemptsLeft'
  <2>1. HostnameKeysKept
    BY <1>6, MarkHostnameKeeps, UnchangedKeeps DEF InitializeHostname
  <2>2. hostnameJob' = {} /\ UNCHANGED initHostnames
    BY <1>6 DEF InitializeHostname
  <2> QED BY <2>1, <2>2, HostnameInvKept
<1>7. ASSUME NEW job \in hostnameJob, HostnameConfigFailed(job)
      PROVE  FailedIsNotQueued' /\ ErrorAttemptsBounded' /\ AttemptsLeft'
  <2> DEFINE h == job.hostname
             attempts == [errorAttempt EXCEPT ![h] = @ + 1]
  <2>1. /\ h \in Hostnames /\ h \notin initHostnames
        /\ errorAttempt[h] < MaxErrorAttempts
        /\ attempts \in [Hostnames -> Nat] /\ attempts[h] <= MaxErrorAttempts
        /\ \A g \in Hostnames \ {h} : attempts[g] = errorAttempt[g]
    BY ConstantsAssumption DEF AttemptsLeft, HostnameTypeOK, InitializerTypeOK
  <2>2. hostnameJob' = {} /\ UNCHANGED initHostnames
    BY <1>7 DEF HostnameConfigFailed
  <2>3. CASE IsRetried(attempts[h])
    <3>1. errorAttempt' = attempts /\ UNCHANGED <<initialize, hostnameError>>
      BY <1>7, <2>3 DEF HostnameConfigFailed
    <3>2. attempts[h] < MaxErrorAttempts
      BY <2>3 DEF IsRetried
    <3> HIDE DEF h, attempts
    <3> QED
      BY <2>1, <2>2, <3>1, <3>2 DEF FailedIsNotQueued, ErrorAttemptsBounded, AttemptsLeft,
                                    InitializerTypeOK
  <2>4. CASE ~IsRetried(attempts[h])
    <3>1. DelHostnameKeys({h}, hostnameError \union {h}, attempts, FALSE, TRUE)
      BY <1>7, <2>4 DEF HostnameConfigFailed, MarkHostname
    <3> HIDE DEF h, attempts
    <3>2. /\ initialize' = initialize \ {h}
          /\ hostnameError' = hostnameError \union {h}
          /\ \A g \in Hostnames : errorAttempt'[g] = attempts[g]
      BY <3>1 DEF DelHostnameKeys
    <3>3. FailedIsNotQueued'
      BY <3>2 DEF FailedIsNotQueued
    <3>4. ErrorAttemptsBounded'
      BY <2>1, <3>2 DEF ErrorAttemptsBounded
    <3>5. AttemptsLeft'
      BY <2>1, <2>2, <3>2 DEF AttemptsLeft, InitializerTypeOK
    <3> QED BY <3>3, <3>4, <3>5
  <2> QED BY <2>3, <2>4
<1>8. ASSUME NEW job \in failedJob, MarkRestOfWorker(job)
      PROVE  HostnameKeysKept /\ UNCHANGED <<initHostnames, hostnameJob>>
  BY <1>8, MarkWorkerKeeps, UnchangedKeeps DEF MarkRestOfWorker
<1> QED
  BY <1>0, <1>1, <1>2, <1>3, <1>4, <1>5, <1>6, <1>7, <1>8 DEF InitializerStep

\* Every step keeps HostnameInv.
LEMMA HostnameInvNext == HostnameInv /\ [Next]_vars => HostnameInv'
<1> SUFFICES ASSUME HostnameInv, [Next]_vars
             PROVE  FailedIsNotQueued' /\ ErrorAttemptsBounded' /\ AttemptsLeft'
  BY InitializerInvNext DEF HostnameInv
<1>0. /\ HostnameTypeOK /\ InitializerTypeOK
      /\ JobPhases /\ FailedIsNotQueued /\ ErrorAttemptsBounded /\ AttemptsLeft
  BY DEF HostnameInv, InitializerInv, TypeOK, StateTypeOK
<1>1. CASE InitializerStep \/ InitializerCrash
  BY <1>0, <1>1, HostnameInvStep
<1>2. CASE HostnameKeysKept /\ UNCHANGED initializerVars
  BY <1>0, <1>2, HostnameInvKept
<1>3. CASE Environment
  <2>1. UNCHANGED initializerVars
    BY <1>3 DEF Environment, Request, OrderDelete, OrderUpdate, OrderRoutineDelete,
                OrderRoutineUpdate
  <2> QED BY <1>2, <1>3, <2>1, EnvironmentKeeps
<1>4. CASE DeployerNext \/ WaiterNext \/ DeleterNext
  BY <1>0, <1>2, <1>4, DeployerKeeps, WaiterKeeps, DeleterKeeps
  DEF DeployerNext, WaiterNext, DeleterNext
<1>5. CASE ThrottlerNext \/ CleanerNext
  BY <1>0, <1>2, <1>5, ThrottlerKeeps, CleanerKeeps DEF ThrottlerNext, CleanerNext
<1>6. CASE Crash
  <2>1. CASE ThrottlerCrash \/ CleanerCrash
    BY <1>2, <1>6, <2>1, UnchangedKeeps DEF Crash, ThrottlerCrash, CleanerCrash
  <2> QED
    BY <1>0, <1>1, <1>2, <1>6, <2>1, DeployerKeeps, WaiterKeeps, DeleterKeeps DEF Crash
<1>7. CASE UNCHANGED vars
  BY <1>2, <1>7, UnchangedKeeps
<1> QED
  BY <1>1, <1>3, <1>4, <1>5, <1>6, <1>7 DEF Next, InitializerNext

\* HostnameInv holds at the start, hence always.
LEMMA HostnameInvHolds == Spec => []HostnameInv
<1>1. Init => HostnameInv
  BY TypeInit, ConstantsAssumption
  DEF HostnameInv, InitializerInv, JobPhases, NotReadyTwice, FailedIsNotQueued, ErrorAttemptsBounded, AttemptsLeft,
      Init, StateInit, InitializerInit
<1> QED
  BY <1>1, HostnameInvNext, PTL DEF Spec

\* A hostname that failed is never queued for initialization.
THEOREM FailedIsNotQueuedHolds == Spec => []FailedIsNotQueued
<1>1. HostnameInv => FailedIsNotQueued
  BY DEF HostnameInv
<1> QED
  BY <1>1, HostnameInvHolds, PTL

\* The attempts counted for a hostname never exceed WORKER_ERROR_MAX_ATTEMPTS.
THEOREM ErrorAttemptsBoundedHolds == Spec => []ErrorAttemptsBounded
<1>1. HostnameInv => ErrorAttemptsBounded
  BY DEF HostnameInv
<1> QED
  BY <1>1, HostnameInvHolds, PTL

-----------------------------------------------------------------------------
(* Data is deleted only if it was ordered *)

\* The deleter carries the order over from the key to its job, and both may
\* outlive what CWM says of the instance later.
DataOrdered ==
  /\ forceDeleteData \subseteq dataOrders
  /\ \A job \in deleteJob : /\ job.data => job.worker \in dataOrders
                            /\ job.step = "data" => job.data

DataInv == TypeOK /\ DataOrdered

\* The deleter deletes only data it has an order for.
LEMMA DeleterData ==
  ASSUME DeleterTypeOK, DataOrdered, DeleterStep \/ DeleterCrash, UNCHANGED dataOrders
  PROVE  DataOrdered' /\ \A w \in storage \ storage' : w \in dataOrders
<1>1. CASE DeleterStart \/ DeleterFinish \/ DeleterCrash
  BY <1>1 DEF DeleterStart, DeleterFinish, DeleterCrash, DataOrdered
<1>2. ASSUME NEW w \in Workers, CancelDelete(w)
      PROVE  DataOrdered' /\ UNCHANGED storage
  BY <1>2 DEF CancelDelete, DataOrdered
<1>3. ASSUME NEW w \in Workers, DeleteKeys(w)
      PROVE  DataOrdered' /\ UNCHANGED storage
  <2>1. UNCHANGED <<forceDeleteData, storage>>
    BY <1>3 DEF DeleteKeys
  <2> DEFINE job == [worker |-> w, data |-> w \in forceDeleteData, step |-> "namespace"]
  <2>2. deleteJob' = {job}
    BY <1>3 DEF DeleteKeys, IsDataDeletion
  <2>3. job.worker = w /\ job.step = "namespace" /\ (job.data => w \in forceDeleteData)
    OBVIOUS
  <2> HIDE DEF job
  <2> QED BY <2>1, <2>2, <2>3 DEF DataOrdered
<1>4. ASSUME NEW job \in deleteJob, DeleteNamespace(job)
      PROVE  DataOrdered' /\ UNCHANGED storage
  BY <1>4 DEF DeleteNamespace, DeleterTypeOK, DataOrdered
<1>5. ASSUME NEW job \in deleteJob, DeleteData(job) \/ DeleteRaises(job)
      PROVE  DataOrdered' /\ \A w \in storage \ storage' : w \in dataOrders
  BY <1>5 DEF DeleteData, DeleteRaises, DataOrdered
<1> QED BY <1>1, <1>2, <1>3, <1>4, <1>5 DEF DeleterStep

\* The initializer touches neither the data nor the orders to delete it.
LEMMA InitializerData ==
  ASSUME InitializerStep \/ InitializerCrash
  PROVE  UNCHANGED <<forceDeleteData, storage>>
BY DEF InitializerStep, InitializerCrash, InitializerStart, ReadForcedUpdate, ForcedUpdate,
       StartHostnames, ReadHostname, HostnameConfigFailed, InitializeHostname, MarkRestOfWorker,
       InitializerFinish

\* The waiter touches neither the data nor the orders to delete it.
LEMMA WaiterData ==
  ASSUME WaiterStep \/ WaiterCrash
  PROVE  UNCHANGED <<forceDeleteData, storage>>
BY DEF WaiterStep, WaiterCrash, CheckStep, WaiterStart, WaiterIterate, WaiterProcess, StartCheck,
       CheckRaises, CheckWithoutConfig, CheckForError, CheckForComplete, IsReady, IsNotReady,
       IsReadyRaises, WithinTimeout, TimedOut, LeaveFlow, Publish, WaiterFinish

\* Neither do the throttler and the Redis cleaner.
LEMMA ThrottlerData ==
  ASSUME ThrottlerNext \/ CleanerNext \/ ThrottlerCrash \/ CleanerCrash
  PROVE  UNCHANGED <<forceDeleteData, storage>>
BY DEF ThrottlerNext, CleanerNext, ThrottleStart, ThrottleMark, ThrottleStop, ThrottlerCrash,
       CleanerStart, CleanHostname, CleanerCrash

\* The deployer only ever makes storage.
LEMMA DeployerData ==
  ASSUME DeployerStep \/ DeployerCrash
  PROVE  UNCHANGED forceDeleteData /\ storage \subseteq storage'
<1>1. ASSUME NEW w \in Workers, DeployWorkerStep(w)
      PROVE  UNCHANGED forceDeleteData /\ storage \subseteq storage'
  BY <1>1
  DEF DeployWorkerStep, DeployWorkerPreprocess, DeployWorkerRaises, DeployMinio, DeployCdn,
      DeployFails, WaitForDeployment, RetryOrGiveUp
<1> QED
  BY <1>1
  DEF DeployerStep, DeployerCrash, DeployerStart, DeployerPreprocess, DeployerProcess,
      StartDeployWorker, DeployerFinish

\* An order to delete data is remembered as such.
LEMMA EnvironmentData ==
  ASSUME Environment
  PROVE  /\ UNCHANGED <<storage, deleteJob>>
         /\ dataOrders \subseteq dataOrders'
         /\ forceDeleteData' \subseteq forceDeleteData \union dataOrders'
BY DEF Environment, Request, OrderDelete, OrderUpdate, OrderRoutineDelete, OrderRoutineUpdate

\* Every step keeps DataInv and deletes only data ordered deleted.
LEMMA DataInvNext ==
  ASSUME DataInv, [Next]_vars
  PROVE  DataInv' /\ \A w \in storage \ storage' : w \in dataOrders
<1> SUFFICES DataOrdered' /\ \A w \in storage \ storage' : w \in dataOrders
  BY TypeNext DEF DataInv
<1>0. DeleterTypeOK /\ DataOrdered
  BY DEF DataInv, TypeOK
<1>1. CASE (DeleterStep \/ DeleterCrash) /\ UNCHANGED dataOrders
  BY <1>0, <1>1, DeleterData
<1>2. CASE UNCHANGED <<forceDeleteData, dataOrders, deleteJob>> /\ storage \subseteq storage'
  BY <1>0, <1>2 DEF DataOrdered
<1>3. CASE Environment
  BY <1>0, <1>3, EnvironmentData DEF DataOrdered
<1>4. CASE InitializerNext \/ WaiterNext \/ DeployerNext
  BY <1>2, <1>4, InitializerData, WaiterData, DeployerData
  DEF InitializerNext, WaiterNext, DeployerNext
<1>5. CASE ThrottlerNext \/ CleanerNext
  BY <1>2, <1>5, ThrottlerData DEF ThrottlerNext, CleanerNext
<1>6. CASE Crash
  BY <1>1, <1>2, <1>6, InitializerData, WaiterData, DeployerData, ThrottlerData DEF Crash
<1>7. CASE UNCHANGED vars
  BY <1>2, <1>7
<1> QED
  BY <1>1, <1>3, <1>4, <1>5, <1>6, <1>7 DEF Next, DeleterNext

\* No step deletes a worker's data unless CWM ordered it, whatever else had the
\* worker deleted and however often the deletion failed before.
THEOREM DataDeletedOnlyIfOrderedHolds == Spec => DataDeletedOnlyIfOrdered
<1>1. Init => DataInv
  BY TypeInit DEF DataInv, DataOrdered, Init, StateInit, DeleterInit
<1>2. DataInv /\ [Next]_vars => DataInv'
  BY DataInvNext
<1>3. DataInv /\ [Next]_vars => [\A w \in storage \ storage' : w \in dataOrders]_vars
  BY DataInvNext
<1> QED
  BY <1>1, <1>2, <1>3, PTL DEF Spec, DataDeletedOnlyIfOrdered
=============================================================================
