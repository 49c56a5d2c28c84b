--------------------------- MODULE HostnameProofs ---------------------------
(* Proofs of what DeploymentFlow promises of its hostnames: that it          *)
(* implements HostnameLifecycle, and, with an API that answers, that a       *)
(* hostname is available and failed only while throttled, and not left        *)
(* available by a deletion.                                                  *)
EXTENDS DeploymentFlowSafety

USE DEF stateVars, hostnameKeys, cacheKeys, flowKeys, orderKeys, cluster, vars, daemonVars,
        environmentVars, initializerVars, deployerVars, waiterVars, deleterVars, throttlerVars

-----------------------------------------------------------------------------
(* The changes of the hostname keys *)

HostnamesOfWorker(w) == {h \in Hostnames : WorkerOf[h] = w}

\* The workers a check found ready, as Lifecycle sees them.
Approved == {w \in Workers : checking[w] \in {"complete", "publish"}}

statusKeys == <<initialize, available, hostnameError>>

\* Some of the worker's hostnames are marked failed, throttled or not.
KeysFail(w) ==
  \E H \in SUBSET HostnamesOfWorker(w) :
    /\ initialize' = initialize \ H
    /\ available' = available \ H
    /\ hostnameError' = hostnameError \union H
    /\ throttled \ H \subseteq throttled'

\* Some of its hostnames lose their keys, the available key or not, and the
\* error or not.
KeysTakenOut(w) ==
  \E H \in SUBSET HostnamesOfWorker(w) :
    /\ initialize' = initialize \ H
    /\ available' = available \/ available' = available \ H
    /\ hostnameError \ H \subseteq hostnameError'
    /\ hostnameError' \subseteq hostnameError

\* What a step may do to the keys, beside its making hostnames available.
KeysKeptOrLost ==
  UNCHANGED statusKeys \/ \E w \in Workers : KeysFail(w) \/ KeysTakenOut(w)

\* Marking a worker fails hostnames of its own.
LEMMA MarkWorkerFails ==
  ASSUME NEW w \in Workers, NEW answer, NEW cached, NEW isThrottle,
         MarkWorker(w, answer, cached, isThrottle)
  PROVE  KeysFail(w)
<1> DEFINE H == WorkerHostnames(w, answer)
<1>1. H \in SUBSET HostnamesOfWorker(w)
  BY DEF WorkerHostnames, HostnamesOfWorker
<1>2. /\ initialize' = initialize \ H
      /\ available' = available \ H
      /\ hostnameError' = hostnameError \union H
      /\ throttled \ H \subseteq throttled'
  BY DEF MarkWorker, DelHostnameKeys
<1> HIDE DEF H
<1> QED BY <1>1, <1>2 DEF KeysFail

\* So does marking one of them.
LEMMA MarkHostnameFails ==
  ASSUME NEW h \in Hostnames, NEW attempts, MarkHostname(h, attempts)
  PROVE  KeysFail(WorkerOf[h])
<1>1. {h} \in SUBSET HostnamesOfWorker(WorkerOf[h])
  BY DEF HostnamesOfWorker
<1>2. /\ initialize' = initialize \ {h}
      /\ available' = available \ {h}
      /\ hostnameError' = hostnameError \union {h}
      /\ throttled \ {h} \subseteq throttled'
  BY DEF MarkHostname, DelHostnameKeys
<1> QED BY <1>1, <1>2 DEF KeysFail

\* The deletion of the keys of hostnames of one worker takes them out.
LEMMA DelHostnameKeysTakesOut ==
  ASSUME NEW w, NEW H \in SUBSET HostnamesOfWorker(w), NEW withAvailable \in BOOLEAN,
         DelHostnameKeys(H, hostnameError, errorAttempt, TRUE, withAvailable)
  PROVE  KeysTakenOut(w)
<1>1. /\ initialize' = initialize \ H
      /\ available' = available \/ available' = available \ H
      /\ hostnameError \ H \subseteq hostnameError'
      /\ hostnameError' \subseteq hostnameError
  BY DEF DelHostnameKeys
<1> QED BY <1>1 DEF KeysTakenOut

-----------------------------------------------------------------------------
(* The steps of the daemons on the hostname keys *)

\* The initializer marks workers failed, and touches no other hostname key.
LEMMA InitializerKeys ==
  ASSUME InitializerTypeOK, InitializerStep \/ InitializerCrash
  PROVE  KeysKeptOrLost
<1>1. CASE InitializerStart \/ StartHostnames \/ InitializerFinish \/ InitializerCrash
  BY <1>1
  DEF InitializerStart, StartHostnames, InitializerFinish, InitializerCrash, KeysKeptOrLost, statusKeys
<1>2. ASSUME NEW w \in Workers, ReadForcedUpdate(w)
      PROVE  KeysKeptOrLost
  BY <1>2 DEF ReadForcedUpdate, KeysKeptOrLost, statusKeys
<1>3. ASSUME NEW job \in forcedJob, ForcedUpdate(job)
      PROVE  KeysKeptOrLost
  BY <1>3 DEF ForcedUpdate, KeysKeptOrLost, statusKeys
<1>4. ASSUME NEW h \in Hostnames, ReadHostname(h)
      PROVE  KeysKeptOrLost
  BY <1>4 DEF ReadHostname, KeysKeptOrLost, statusKeys
<1>5. ASSUME NEW job \in hostnameJob, HostnameConfigFailed(job) \/ InitializeHostname(job)
      PROVE  KeysKeptOrLost
  <2>1. job.hostname \in Hostnames /\ WorkerOf[job.hostname] \in Workers
    BY ConstantsAssumption DEF InitializerTypeOK
  <2>2. UNCHANGED statusKeys \/ \E attempts : MarkHostname(job.hostname, attempts)
    BY <1>5 DEF HostnameConfigFailed, InitializeHostname, statusKeys
  <2> QED
    BY <2>1, <2>2, MarkHostnameFails DEF KeysKeptOrLost
<1>6. ASSUME NEW job \in failedJob, MarkRestOfWorker(job)
      PROVE  KeysKeptOrLost
  <2>1. WorkerOf[job.hostname] \in Workers
    BY ConstantsAssumption DEF InitializerTypeOK
  <2>2. \/ UNCHANGED statusKeys
        \/ \E answer, cached : MarkWorker(WorkerOf[job.hostname], answer, cached, FALSE)
    BY <1>6 DEF MarkRestOfWorker, statusKeys
  <2> QED
    BY <2>1, <2>2, MarkWorkerFails DEF KeysKeptOrLost
<1> QED
  BY <1>1, <1>2, <1>3, <1>4, <1>5, <1>6 DEF InitializerStep

\* Nor does the deployer.
LEMMA DeployerKeys ==
  ASSUME DeployerStep \/ DeployerCrash
  PROVE  KeysKeptOrLost
<1>1. ASSUME NEW w \in Workers, NEW config, Preprocess(w, config) \/ SetWorkerError(w, config)
      PROVE  KeysKeptOrLost
  <2>1. SetWorkerError(w, config) \/ UNCHANGED statusKeys
    BY <1>1 DEF Preprocess, statusKeys
  <2> QED BY <2>1, MarkWorkerFails DEF SetWorkerError, KeysKeptOrLost
<1>2. ASSUME NEW w \in Workers,
             DeployerPreprocess(w) \/ DeployWorkerPreprocess(w) \/ RetryOrGiveUp(w)
      PROVE  KeysKeptOrLost
  <2>1. \/ UNCHANGED statusKeys
        \/ \E config : Preprocess(w, config) \/ SetWorkerError(w, config)
    BY <1>2 DEF DeployerPreprocess, DeployWorkerPreprocess, RetryOrGiveUp, statusKeys
  <2> QED BY <1>1, <2>1 DEF KeysKeptOrLost
<1>3. CASE DeployerStart \/ DeployerProcess \/ DeployerFinish \/ DeployerCrash
  BY <1>3
  DEF DeployerStart, DeployerProcess, DeployerFinish, DeployerCrash, KeysKeptOrLost, statusKeys
<1>4. ASSUME NEW w \in Workers,
             \/ StartDeployWorker(w) \/ DeployWorkerRaises(w) \/ DeployMinio(w)
             \/ DeployCdn(w) \/ DeployFails(w) \/ WaitForDeployment(w)
      PROVE  KeysKeptOrLost
  BY <1>4
  DEF StartDeployWorker, DeployWorkerRaises, DeployMinio, DeployCdn, DeployFails,
      WaitForDeployment, KeysKeptOrLost, statusKeys
<1> QED BY <1>2, <1>3, <1>4 DEF DeployerStep, DeployWorkerStep

\* The deleter takes a worker's hostnames out.
LEMMA DeleterKeys ==
  ASSUME DeleterStep \/ DeleterCrash
  PROVE  KeysKeptOrLost
<1>1. ASSUME NEW w \in Workers, DeleteKeys(w)
      PROVE  KeysKeptOrLost
  <2>1. PICK config :
          DelHostnameKeys(WorkerHostnames(w, config), hostnameError, errorAttempt, TRUE, TRUE)
    BY <1>1 DEF DeleteKeys
  <2>2. WorkerHostnames(w, config) \in SUBSET HostnamesOfWorker(w)
    BY DEF WorkerHostnames, HostnamesOfWorker
  <2> QED BY <2>1, <2>2, DelHostnameKeysTakesOut DEF KeysKeptOrLost
<1>2. ASSUME NEW w \in Workers, CancelDelete(w)
      PROVE  KeysKeptOrLost
  BY <1>2 DEF CancelDelete, KeysKeptOrLost, statusKeys
<1>3. CASE DeleterStart \/ DeleterFinish \/ DeleterCrash
  BY <1>3 DEF DeleterStart, DeleterFinish, DeleterCrash, KeysKeptOrLost, statusKeys
<1>4. ASSUME NEW job \in deleteJob,
             DeleteNamespace(job) \/ DeleteData(job) \/ DeleteRaises(job)
      PROVE  KeysKeptOrLost
  BY <1>4 DEF DeleteNamespace, DeleteData, DeleteRaises, KeysKeptOrLost, statusKeys
<1> QED BY <1>1, <1>2, <1>3, <1>4 DEF DeleterStep

\* The throttler marks the hostnames of a worker and takes them out.
LEMMA ThrottlerKeys ==
  ASSUME NEW w \in Workers, ThrottleStart(w) \/ ThrottleMark(w) \/ ThrottleStop(w)
  PROVE  KeysKeptOrLost
<1>1. CASE ThrottleStart(w)
  BY <1>1 DEF ThrottleStart, KeysKeptOrLost, statusKeys
<1>2. CASE ThrottleMark(w)
  BY <1>2, MarkWorkerFails DEF ThrottleMark, KeysKeptOrLost
<1>3. CASE ThrottleStop(w)
  <2>1. PICK config : DelThrottledKeys(WorkerHostnames(w, config))
    BY <1>3 DEF ThrottleStop
  <2> DEFINE H == WorkerHostnames(w, config)
  <2>2. H \in SUBSET HostnamesOfWorker(w)
    BY DEF WorkerHostnames, HostnamesOfWorker
  <2>3. /\ initialize' = initialize \ H
        /\ available' = available \ H
        /\ hostnameError' = hostnameError \ H
    BY <2>1 DEF DelThrottledKeys
  <2> HIDE DEF H
  <2>4. KeysTakenOut(w)
    BY <2>2, <2>3 DEF KeysTakenOut
  <2> QED BY <2>4 DEF KeysKeptOrLost
<1> QED BY <1>1, <1>2, <1>3

\* The Redis cleaner takes hostnames out one by one.
LEMMA CleanerKeys ==
  ASSUME CleanerStart \/ \E h \in Hostnames : CleanHostname(h)
  PROVE  KeysKeptOrLost
<1>1. CASE CleanerStart
  BY <1>1 DEF CleanerStart, KeysKeptOrLost, statusKeys
<1>2. ASSUME NEW h \in Hostnames, CleanHostname(h)
      PROVE  KeysKeptOrLost
  <2>1. {h} \in SUBSET HostnamesOfWorker(WorkerOf[h]) /\ WorkerOf[h] \in Workers
    BY ConstantsAssumption DEF HostnamesOfWorker
  <2>2. \/ UNCHANGED statusKeys
        \/ DelHostnameKeys({h}, hostnameError, errorAttempt, TRUE, TRUE)
    BY <1>2 DEF CleanHostname, statusKeys
  <2> QED BY <2>1, <2>2, DelHostnameKeysTakesOut DEF KeysKeptOrLost
<1> QED BY <1>1, <1>2

-----------------------------------------------------------------------------
(* What the waiter remembers *)

\* A subprocess runs only while its iteration waits for it, for a worker off
\* the queue.
CheckingPhase ==
  \A w \in Workers :
    checking[w] # "none" => waiterPhase = "check" /\ w \notin waiterQueue

\* It makes hostnames of its own worker available.
PublishesOwn == \A w \in Workers : publishing[w] \subseteq HostnamesOfWorker(w)

WaiterInv == TypeOK /\ CheckingPhase /\ PublishesOwn

\* The waiter's own steps keep this.
LEMMA WaiterInvStep ==
  ASSUME WaiterTypeOK, CheckingPhase, PublishesOwn, WaiterStep \/ WaiterCrash
  PROVE  CheckingPhase' /\ PublishesOwn'
<1> USE DEF WaiterTypeOK, CheckingPhase, PublishesOwn, HostnamesOfWorker
<1>1. CASE WaiterStart \/ WaiterProcess \/ WaiterFinish \/ WaiterCrash
  BY <1>1 DEF WaiterStart, WaiterProcess, WaiterFinish, WaiterCrash, Checking
<1>2. ASSUME NEW w \in Workers, WaiterIterate(w) \/ StartCheck(w)
      PROVE  CheckingPhase' /\ PublishesOwn'
  BY <1>2 DEF WaiterIterate, StartCheck, Goto
<1>3. ASSUME NEW w \in Workers, LeaveFlow(w)
      PROVE  CheckingPhase' /\ PublishesOwn'
  <2>1. PICK config : publishing' = [publishing EXCEPT ![w] = WorkerHostnames(w, config)]
    BY <1>3 DEF LeaveFlow
  <2>2. WorkerHostnames(w, config) \subseteq HostnamesOfWorker(w)
    BY DEF WorkerHostnames
  <2> QED BY <1>3, <2>1, <2>2 DEF LeaveFlow, Goto
<1>4. ASSUME NEW w \in Workers, Publish(w)
      PROVE  CheckingPhase' /\ PublishesOwn'
  BY <1>4 DEF Publish, Goto
<1>5. ASSUME NEW w \in Workers,
             \/ CheckRaises(w) \/ CheckWithoutConfig(w) \/ CheckForError(w)
             \/ CheckForComplete(w) \/ IsReady(w) \/ IsNotReady(w) \/ IsReadyRaises(w)
             \/ WithinTimeout(w) \/ TimedOut(w)
      PROVE  CheckingPhase' /\ PublishesOwn'
  <2>1. \E step : Goto(w, step)
    BY <1>5
    DEF CheckRaises, CheckWithoutConfig, CheckForError, CheckForComplete, IsReady, IsNotReady,
        IsReadyRaises, WithinTimeout, TimedOut
  <2>2. checking[w] # "none" /\ UNCHANGED <<waiterPhase, waiterQueue, publishing>>
    BY <1>5
    DEF CheckRaises, CheckWithoutConfig, CheckForError, CheckForComplete, IsReady, IsNotReady,
        IsReadyRaises, WithinTimeout, TimedOut
  <2> QED BY <2>1, <2>2 DEF Goto
<1> QED
  BY <1>1, <1>2, <1>3, <1>4, <1>5 DEF WaiterStep, CheckStep

\* Nobody else changes what the waiter remembers.
LEMMA OthersKeepWaiterVars ==
  ASSUME \/ Environment \/ InitializerNext \/ DeployerNext \/ DeleterNext
         \/ ThrottlerNext \/ CleanerNext
         \/ Crash /\ ~WaiterCrash
  PROVE  UNCHANGED waiterVars
BY DEF Environment, Request, OrderDelete, OrderUpdate, OrderRoutineDelete, OrderRoutineUpdate,
       InitializerNext, DeployerNext, DeleterNext, ThrottlerNext, CleanerNext, Crash

\* Every step keeps WaiterInv.
LEMMA WaiterInvNext == WaiterInv /\ [Next]_vars => WaiterInv'
<1> SUFFICES ASSUME WaiterInv, [Next]_vars
             PROVE  CheckingPhase' /\ PublishesOwn'
  BY TypeNext DEF WaiterInv
<1>1. CASE WaiterNext \/ WaiterCrash
  BY <1>1, WaiterInvStep DEF WaiterInv, TypeOK, WaiterNext
<1>2. CASE UNCHANGED waiterVars
  BY <1>2 DEF WaiterInv, CheckingPhase, PublishesOwn
<1> QED
  BY <1>1, <1>2, OthersKeepWaiterVars DEF Next

\* It holds at the start, when the waiter remembers nothing.
LEMMA WaiterInvInit == Init => WaiterInv
BY TypeInit DEF WaiterInv, CheckingPhase, PublishesOwn, Init, WaiterInit

-----------------------------------------------------------------------------
(* The step simulation *)

USE DEF Lifecycle!lifecycleVars, Lifecycle!Assign, Lifecycle!OwnHostnames

\* The steps of Lifecycle that the groups of key changes are.
LEMMA KeysSimulated ==
  ASSUME KeysKeptOrLost, UNCHANGED Approved
  PROVE  [Lifecycle!LifecycleNext]_<<HostnameStatus, Approved>>
<1>1. UNCHANGED Approved
  OBVIOUS
<1>2. CASE UNCHANGED statusKeys
  BY <1>1, <1>2 DEF statusKeys, HostnameStatus
<1>3. ASSUME NEW w \in Workers, NEW F \in SUBSET HostnamesOfWorker(w),
             NEW I \in SUBSET HostnamesOfWorker(w),
             HostnameStatus' = [h \in Hostnames |-> IF h \in F THEN "failed"
                                                   ELSE IF h \in I THEN "idle"
                                                   ELSE HostnameStatus[h]]
      PROVE  Lifecycle!Withdraw(w)
  BY <1>1, <1>3 DEF Lifecycle!Withdraw, Approved, HostnamesOfWorker
<1>4. ASSUME NEW w \in Workers, KeysFail(w)
      PROVE  Lifecycle!Withdraw(w)
  <2>1. PICK H \in SUBSET HostnamesOfWorker(w) :
          /\ initialize' = initialize \ H
          /\ available' = available \ H
          /\ hostnameError' = hostnameError \union H
    BY <1>4 DEF KeysFail
  <2>2. HostnameStatus' = [h \in Hostnames |-> IF h \in H THEN "failed"
                                              ELSE IF h \in {} THEN "idle"
                                              ELSE HostnameStatus[h]]
    BY <2>1 DEF HostnameStatus
  <2> QED BY <1>3, <2>2
<1>5. ASSUME NEW w \in Workers, KeysTakenOut(w)
      PROVE  Lifecycle!Withdraw(w)
  <2>1. PICK H \in SUBSET HostnamesOfWorker(w) :
          /\ initialize' = initialize \ H
          /\ available' = available \/ available' = available \ H
          /\ hostnameError \ H \subseteq hostnameError'
          /\ hostnameError' \subseteq hostnameError
    BY <1>5 DEF KeysTakenOut
  <2> DEFINE G == H \ available'
             F == G \cap hostnameError'
             I == G \ hostnameError'
  <2>2. HostnameStatus' = [h \in Hostnames |-> IF h \in F THEN "failed"
                                              ELSE IF h \in I THEN "idle"
                                              ELSE HostnameStatus[h]]
    BY <2>1 DEF HostnameStatus
  <2>3. F \in SUBSET HostnamesOfWorker(w) /\ I \in SUBSET HostnamesOfWorker(w)
    OBVIOUS
  <2> HIDE DEF F, I
  <2> QED BY <1>3, <2>2, <2>3
<1> QED
  BY <1>2, <1>4, <1>5 DEF KeysKeptOrLost, Lifecycle!LifecycleNext

\* Each step of the waiter is one of Lifecycle or none: finding a worker ready
\* approves it, the first half of set_worker_available takes its hostnames out
\* and the second makes them available.
LEMMA WaiterSimulated ==
  ASSUME WaiterTypeOK, CheckingPhase, PublishesOwn, WaiterStep
  PROVE  [Lifecycle!LifecycleNext]_<<HostnameStatus, Approved>>
<1> USE DEF WaiterTypeOK
<1>1. CASE UNCHANGED <<statusKeys, checking>>
  BY <1>1, KeysSimulated DEF KeysKeptOrLost, Approved
<1>2. CASE WaiterStart \/ WaiterProcess \/ WaiterFinish
  BY <1>1, <1>2 DEF WaiterStart, WaiterProcess, WaiterFinish, statusKeys
<1>3. ASSUME NEW w \in Workers, WaiterIterate(w)
      PROVE  UNCHANGED <<statusKeys, checking>>
  BY <1>3 DEF WaiterIterate, statusKeys
<1>5. ASSUME NEW w \in Workers,
             \/ StartCheck(w) \/ CheckRaises(w) \/ CheckForError(w) \/ CheckForComplete(w)
             \/ IsNotReady(w) \/ IsReadyRaises(w) \/ WithinTimeout(w)
      PROVE  [Lifecycle!LifecycleNext]_<<HostnameStatus, Approved>>
  <2>1. UNCHANGED statusKeys
    BY <1>5
    DEF StartCheck, CheckRaises, CheckForError, CheckForComplete, IsNotReady, IsReadyRaises,
        WithinTimeout, statusKeys
  <2>2. /\ checking[w] \in {"none", "check", "probe", "timeout"}
        /\ \E step \in {"none", "check", "probe", "timeout"} : Goto(w, step)
    BY <1>5
    DEF StartCheck, CheckRaises, CheckForError, CheckForComplete, IsNotReady, IsReadyRaises,
        WithinTimeout, CheckingPhase
  <2>3. UNCHANGED Approved
    BY <2>2 DEF Goto, Approved
  <2> QED BY <2>1, <2>3, KeysSimulated DEF KeysKeptOrLost
<1>6. ASSUME NEW w \in Workers, CheckWithoutConfig(w) \/ TimedOut(w)
      PROVE  [Lifecycle!LifecycleNext]_<<HostnameStatus, Approved>>
  <2>1. KeysKeptOrLost
    BY <1>6, MarkWorkerFails DEF CheckWithoutConfig, TimedOut, SetWorkerError, KeysKeptOrLost
  <2>2. UNCHANGED Approved
    BY <1>6 DEF CheckWithoutConfig, TimedOut, Goto, Approved
  <2> QED BY <2>1, <2>2, KeysSimulated
<1>7. ASSUME NEW w \in Workers, IsReady(w)
      PROVE  Lifecycle!Approve(w)
  <2>1. UNCHANGED HostnameStatus
    BY <1>7 DEF IsReady, HostnameStatus
  <2>2. Approved' = Approved \union {w}
    BY <1>7 DEF IsReady, Goto, Approved
  <2> QED BY <2>1, <2>2 DEF Lifecycle!Approve, Approved
<1>8. ASSUME NEW w \in Workers, LeaveFlow(w)
      PROVE  [Lifecycle!LifecycleNext]_<<HostnameStatus, Approved>>
  <2>1. PICK config :
          DelHostnameKeys(WorkerHostnames(w, config), hostnameError, errorAttempt, TRUE, FALSE)
    BY <1>8 DEF LeaveFlow
  <2>2. WorkerHostnames(w, config) \in SUBSET HostnamesOfWorker(w)
    BY DEF WorkerHostnames, HostnamesOfWorker
  <2>3. KeysTakenOut(w)
    BY <2>1, <2>2, DelHostnameKeysTakesOut
  <2>4. UNCHANGED Approved
    BY <1>8 DEF LeaveFlow, Goto, Approved
  <2> QED BY <2>3, <2>4, KeysSimulated DEF KeysKeptOrLost
<1>9. ASSUME NEW w \in Workers, Publish(w)
      PROVE  Lifecycle!MakeAvailable(w)
  <2> DEFINE H == publishing[w]
  <2>1. HostnameStatus' = [h \in Hostnames |-> IF h \in H THEN "available" ELSE HostnameStatus[h]]
    BY <1>9 DEF Publish, HostnameStatus
  <2>2. H \in SUBSET HostnamesOfWorker(w)
    BY DEF PublishesOwn
  <2>3. w \in Approved /\ Approved' = Approved \ {w}
    BY <1>9 DEF Publish, Goto, Approved
  <2> HIDE DEF H
  <2> QED BY <2>1, <2>2, <2>3 DEF Lifecycle!MakeAvailable, Approved, HostnamesOfWorker
<1> QED
  BY <1>1, <1>2, <1>3, <1>5, <1>6, <1>7, <1>8, <1>9
  DEF WaiterStep, CheckStep, Lifecycle!LifecycleNext

\* Every step of the flow is one of Lifecycle or leaves it as it is.
LEMMA StepSimulated ==
  ASSUME WaiterInv, [Next]_vars
  PROVE  [Lifecycle!LifecycleNext]_<<HostnameStatus, Approved>>
<1>0. WaiterTypeOK /\ InitializerTypeOK /\ CheckingPhase /\ PublishesOwn
  BY DEF WaiterInv, TypeOK
<1>1. CASE KeysKeptOrLost /\ UNCHANGED checking
  BY <1>1, KeysSimulated DEF Approved
<1>2. ASSUME NEW h \in Hostnames, Request(h)
      PROVE  [Lifecycle!LifecycleNext]_<<HostnameStatus, Approved>>
  <2>1. CASE h \in initialize
    BY <1>1, <1>2, <2>1 DEF Request, KeysKeptOrLost, statusKeys
  <2>2. CASE h \notin initialize
    <3>1. /\ HostnameStatus[h] = "idle"
          /\ HostnameStatus' =
               [g \in Hostnames |-> IF g \in {h} THEN "queued" ELSE HostnameStatus[g]]
      BY <1>2, <2>2 DEF Request, HostnameStatus
    <3>2. UNCHANGED Approved
      BY <1>2 DEF Request, Approved
    <3> QED BY <3>1, <3>2 DEF Lifecycle!Enqueue, Lifecycle!LifecycleNext, Approved
  <2> QED BY <2>1, <2>2
<1>3. CASE Environment
  <2>1. ASSUME NEW w \in Workers,
               OrderDelete(w) \/ OrderUpdate(w) \/ OrderRoutineDelete(w) \/ OrderRoutineUpdate(w)
        PROVE  KeysKeptOrLost /\ UNCHANGED checking
    BY <2>1
    DEF OrderDelete, OrderUpdate, OrderRoutineDelete, OrderRoutineUpdate, KeysKeptOrLost, statusKeys
  <2> QED BY <1>1, <1>2, <1>3, <2>1 DEF Environment
<1>4. CASE InitializerNext \/ DeployerNext \/ DeleterNext
  BY <1>0, <1>1, <1>4, InitializerKeys, DeployerKeys, DeleterKeys
  DEF InitializerNext, DeployerNext, DeleterNext
<1>8. CASE ThrottlerNext \/ CleanerNext
  BY <1>1, <1>8, ThrottlerKeys, CleanerKeys DEF ThrottlerNext, CleanerNext
<1>5. CASE WaiterNext
  BY <1>0, <1>5, WaiterSimulated DEF WaiterNext
<1>6. CASE Crash
  <2>1. CASE WaiterCrash
    <3>1. Approved' = {} /\ UNCHANGED HostnameStatus
      BY <2>1 DEF WaiterCrash, Approved, HostnameStatus
    <3> QED BY <3>1 DEF Lifecycle!Forget, Lifecycle!LifecycleNext, Approved
  <2>2. CASE UNCHANGED waiterVars
    BY <1>0, <1>1, <1>6, <2>2, InitializerKeys, DeployerKeys, DeleterKeys
    DEF Crash, WaiterCrash, ThrottlerCrash, CleanerCrash, KeysKeptOrLost, statusKeys
  <2> QED BY <1>6, <2>1, <2>2 DEF Crash
<1>7. CASE UNCHANGED vars
  BY <1>1, <1>7 DEF KeysKeptOrLost, statusKeys
<1> QED
  BY <1>3, <1>4, <1>5, <1>6, <1>7, <1>8 DEF Next

\* The flow implements HostnameLifecycle, for any numbers of workers, hostnames,
\* subprocesses and crashes: no hostname becomes available without a check of
\* its own worker, or is queued while it is failed or available.
THEOREM ImplementsLifecycleHolds == Spec => ImplementsLifecycle
<1>1. Init => Lifecycle!LifecycleInit
  BY DEF Init, StateInit, WaiterInit, Lifecycle!LifecycleInit, HostnameStatus
<1>2. WaiterInv /\ [Next]_vars => [Lifecycle!LifecycleNext]_Lifecycle!lifecycleVars
  BY StepSimulated DEF Approved
<1>3. Spec => []WaiterInv
  BY WaiterInvInit, WaiterInvNext, PTL DEF Spec
<1> QED
  BY <1>1, <1>2, <1>3, PTL DEF Spec, ImplementsLifecycle, Lifecycle!LifecycleSpec

-----------------------------------------------------------------------------
(* What is cached was answered *)

AnswersCached ==
  /\ \A w \in Workers : volumeConfig[w] \in ApiAnswers \union {"none"}
  /\ \A job \in hostnameJob : job.config \in ApiAnswers

\* The cached configs stay, or go, or are new answers.
CacheKept == \A w \in Workers : volumeConfig'[w] \in ApiAnswers \union {volumeConfig[w], "none"}

\* A lookup by worker id leaves a cached config as it is, or caches an answer.
LEMMA LookupKeepsCache ==
  ASSUME CacheTypeOK, NEW w \in Workers, NEW config,
         config \in ConfigById(w) \union ApiAnswers \union {"none"}, CacheConfig(w, config)
  PROVE  CacheKept
BY DEF CacheConfig, ConfigById, CacheKept, CacheTypeOK

\* So does the lookup of set_last_action.
LEMMA SetLastActionKeepsCache ==
  ASSUME CacheTypeOK, NEW w \in Workers, SetLastAction(w)
  PROVE  CacheKept
BY LookupKeepsCache DEF SetLastAction

\* The initializer looks up by worker id, by hostname, and past the cache.
LEMMA InitializerCache ==
  ASSUME StateTypeOK, InitializerTypeOK, AnswersCached, InitializerStep \/ InitializerCrash
  PROVE  CacheKept /\ \A job \in hostnameJob' : job.config \in ApiAnswers
<1>0. CacheTypeOK
  BY DEF StateTypeOK
<1>1. CASE InitializerStart \/ StartHostnames \/ InitializerFinish \/ InitializerCrash
  BY <1>1
  DEF InitializerStart, StartHostnames, InitializerFinish, InitializerCrash, CacheKept, AnswersCached
<1>2. ASSUME NEW w \in Workers, ReadForcedUpdate(w)
      PROVE  CacheKept /\ UNCHANGED hostnameJob
  BY <1>0, <1>2, LookupKeepsCache DEF ReadForcedUpdate
<1>3. ASSUME NEW job \in forcedJob, ForcedUpdate(job)
      PROVE  CacheKept /\ UNCHANGED hostnameJob
  <2>1. job.worker \in Workers
    BY DEF InitializerTypeOK
  <2>2. UNCHANGED hostnameJob /\ (UNCHANGED volumeConfig \/ SetLastAction(job.worker))
    BY <1>3 DEF ForcedUpdate
  <2> QED BY <1>0, <2>1, <2>2, SetLastActionKeepsCache DEF CacheKept
<1>4. ASSUME NEW h \in Hostnames, ReadHostname(h)
      PROVE  CacheKept /\ \A job \in hostnameJob' : job.config \in ApiAnswers
  <2>1. WorkerOf[h] \in Workers
    BY ConstantsAssumption
  <2>2. CASE UNCHANGED <<hostnameJob, cacheKeys>>
    BY <2>2 DEF CacheKept, AnswersCached
  <2>3. CASE \E config \in ConfigByHostname(h) :
               /\ CacheHostnameConfig(h, config)
               /\ hostnameJob' \subseteq {[hostname |-> h, config |-> config]}
    <3>1. PICK config \in ConfigByHostname(h) :
               /\ CacheHostnameConfig(h, config)
               /\ hostnameJob' \subseteq {[hostname |-> h, config |-> config]}
      BY <2>3
    <3>2. config \in ApiAnswers
      BY <2>1 DEF ConfigByHostname, IsCachedHostname, AnswersCached
    <3>3. UNCHANGED volumeConfig \/ CacheConfig(WorkerOf[h], config)
      BY <3>1 DEF CacheHostnameConfig
    <3>4. CacheKept
      BY <1>0, <2>1, <3>2, <3>3, LookupKeepsCache DEF CacheKept
    <3> QED BY <3>1, <3>2, <3>4
  <2> QED BY <1>4, <2>2, <2>3 DEF ReadHostname
<1>5. ASSUME NEW job \in hostnameJob, HostnameConfigFailed(job) \/ InitializeHostname(job)
      PROVE  CacheKept /\ hostnameJob' = {}
  <2>1. job.hostname \in Hostnames /\ WorkerOf[job.hostname] \in Workers
    BY ConstantsAssumption DEF InitializerTypeOK
  <2>2. hostnameJob' = {}
    BY <1>5 DEF HostnameConfigFailed, InitializeHostname
  <2>3. UNCHANGED volumeConfig \/ SetLastAction(WorkerOf[job.hostname])
    BY <1>5 DEF HostnameConfigFailed, InitializeHostname
  <2> QED
    BY <1>0, <2>1, <2>2, <2>3, SetLastActionKeepsCache DEF CacheKept
<1>6. ASSUME NEW job \in failedJob, MarkRestOfWorker(job)
      PROVE  CacheKept /\ UNCHANGED hostnameJob
  <2> DEFINE w == WorkerOf[job.hostname]
  <2>1. job.hostname \in Hostnames /\ w \in Workers
    BY ConstantsAssumption DEF InitializerTypeOK
  <2>2. \/ UNCHANGED volumeConfig
        \/ SetLastAction(w)
        \/ \E config \in ConfigByHostname(job.hostname) : CacheConfig(w, config)
    BY <1>6 DEF MarkRestOfWorker, MarkWorker
  <2>3. ConfigByHostname(job.hostname) \subseteq ApiAnswers
    BY <2>1 DEF ConfigByHostname, IsCachedHostname, AnswersCached
  <2>4. UNCHANGED hostnameJob
    BY <1>6 DEF MarkRestOfWorker
  <2> HIDE DEF w
  <2>5. CASE UNCHANGED volumeConfig
    BY <2>4, <2>5 DEF CacheKept
  <2>6. CASE SetLastAction(w)
    BY <1>0, <2>1, <2>4, <2>6, SetLastActionKeepsCache
  <2>7. CASE \E config \in ConfigByHostname(job.hostname) : CacheConfig(w, config)
    BY <1>0, <2>1, <2>3, <2>4, <2>7, LookupKeepsCache
  <2> QED BY <2>2, <2>5, <2>6, <2>7
<1> QED
  BY <1>1, <1>2, <1>3, <1>4, <1>5, <1>6 DEF InitializerStep, AnswersCached

\* The deployer by worker id only.
LEMMA DeployerCache ==
  ASSUME CacheTypeOK, DeployerStep \/ DeployerCrash
  PROVE  CacheKept
<1>1. ASSUME NEW w \in Workers, NEW config,
             Preprocess(w, config) \/ (config \in ConfigById(w) /\ SetWorkerError(w, config))
      PROVE  CacheKept
  <2>1. config \in ConfigById(w) /\ CacheConfig(w, config)
    BY <1>1 DEF Preprocess, SetWorkerError, MarkWorker
  <2> QED BY <2>1, LookupKeepsCache
<1>2. ASSUME NEW w \in Workers,
             DeployerPreprocess(w) \/ DeployWorkerPreprocess(w) \/ RetryOrGiveUp(w)
             \/ WaitForDeployment(w)
      PROVE  CacheKept
  <2>1. CASE UNCHANGED volumeConfig
    BY <2>1 DEF CacheKept
  <2>2. CASE SetLastAction(w)
    BY <2>2, SetLastActionKeepsCache
  <2>3. CASE DeployerPreprocess(w) \/ DeployWorkerPreprocess(w)
    <3>1. UNCHANGED volumeConfig \/ \E config : Preprocess(w, config)
      BY <2>3 DEF DeployerPreprocess, DeployWorkerPreprocess
    <3>2. ASSUME NEW config, Preprocess(w, config)
          PROVE  CacheKept
      BY <1>1, <3>2
    <3> QED BY <2>1, <3>1, <3>2
  <2>4. CASE RetryOrGiveUp(w) \/ WaitForDeployment(w)
    BY <1>1, <2>2, <2>4 DEF RetryOrGiveUp, WaitForDeployment
  <2> QED BY <1>2, <2>3, <2>4
<1>3. CASE DeployerStart \/ DeployerProcess \/ DeployerFinish \/ DeployerCrash
  BY <1>3 DEF DeployerStart, DeployerProcess, DeployerFinish, DeployerCrash, CacheKept
<1>4. ASSUME NEW w \in Workers,
             \/ StartDeployWorker(w) \/ DeployWorkerRaises(w) \/ DeployMinio(w)
             \/ DeployCdn(w) \/ DeployFails(w)
      PROVE  CacheKept
  BY <1>4
  DEF StartDeployWorker, DeployWorkerRaises, DeployMinio, DeployCdn, DeployFails, CacheKept
<1> QED BY <1>2, <1>3, <1>4 DEF DeployerStep, DeployWorkerStep

\* So does the waiter.
LEMMA WaiterCache ==
  ASSUME CacheTypeOK, WaiterStep \/ WaiterCrash
  PROVE  CacheKept
<1>1. CASE UNCHANGED volumeConfig
  BY <1>1 DEF CacheKept
<1>2. CASE WaiterStart \/ WaiterProcess \/ WaiterFinish \/ WaiterCrash
  BY <1>1, <1>2 DEF WaiterStart, WaiterProcess, WaiterFinish, WaiterCrash
<1>3. ASSUME NEW w \in Workers,
             \/ WaiterIterate(w) \/ StartCheck(w) \/ CheckRaises(w) \/ IsReady(w)
             \/ IsNotReady(w) \/ IsReadyRaises(w) \/ WithinTimeout(w)
      PROVE  UNCHANGED volumeConfig
  BY <1>3
  DEF WaiterIterate, StartCheck, CheckRaises, IsReady, IsNotReady, IsReadyRaises, WithinTimeout
<1>4. ASSUME NEW w \in Workers,
             \/ CheckWithoutConfig(w) \/ CheckForError(w) \/ CheckForComplete(w)
             \/ TimedOut(w) \/ LeaveFlow(w) \/ Publish(w)
      PROVE  CacheKept
  <2>1. \E config \in ConfigById(w) : CacheConfig(w, config)
    BY <1>4
    DEF CheckWithoutConfig, CheckForError, CheckForComplete, TimedOut, LeaveFlow, Publish,
        SetLastAction, SetWorkerError, MarkWorker
  <2> QED BY <2>1, LookupKeepsCache
<1> QED BY <1>1, <1>2, <1>3, <1>4 DEF WaiterStep, CheckStep

\* The deleter drops the config of the worker it deletes.
LEMMA DeleterCache ==
  ASSUME CacheTypeOK, DeleterStep \/ DeleterCrash
  PROVE  CacheKept
<1>1. ASSUME NEW w \in Workers, CancelDelete(w) \/ DeleteKeys(w)
      PROVE  CacheKept
  <2>1. \E config \in ConfigById(w) \union {"none"} : CacheConfig(w, config)
    BY <1>1 DEF CancelDelete, DeleteKeys
  <2> QED BY <2>1, LookupKeepsCache
<1>2. CASE DeleterStart \/ DeleterFinish \/ DeleterCrash
  BY <1>2 DEF DeleterStart, DeleterFinish, DeleterCrash, CacheKept
<1>3. ASSUME NEW job \in deleteJob,
             DeleteNamespace(job) \/ DeleteData(job) \/ DeleteRaises(job)
      PROVE  CacheKept
  BY <1>3 DEF DeleteNamespace, DeleteData, DeleteRaises, CacheKept
<1> QED BY <1>1, <1>2, <1>3 DEF DeleterStep

\* The throttler looks up by worker id, and drops the config of the worker
\* whose throttling is over.
LEMMA ThrottlerCache ==
  ASSUME CacheTypeOK, NEW w \in Workers, ThrottleStart(w) \/ ThrottleMark(w) \/ ThrottleStop(w)
  PROVE  CacheKept
<1>1. CASE ThrottleStart(w)
  BY <1>1 DEF ThrottleStart, CacheKept
<1>2. CASE ThrottleMark(w) \/ ThrottleStop(w)
  <2>1. \E config \in ConfigById(w) \union {"none"} : CacheConfig(w, config)
    BY <1>2 DEF ThrottleMark, ThrottleStop, MarkWorker
  <2> QED BY <2>1, LookupKeepsCache
<1> QED BY <1>1, <1>2

\* So does the Redis cleaner.
LEMMA CleanerCache ==
  ASSUME CacheTypeOK, CleanerStart \/ \E h \in Hostnames : CleanHostname(h)
  PROVE  CacheKept
<1>1. CASE UNCHANGED volumeConfig
  BY <1>1 DEF CacheKept
<1>2. CASE CleanerStart
  BY <1>1, <1>2 DEF CleanerStart
<1>3. ASSUME NEW h \in Hostnames, CleanHostname(h)
      PROVE  CacheKept
  <2>1. WorkerOf[h] \in Workers
    BY ConstantsAssumption
  <2>2. \/ UNCHANGED volumeConfig
        \/ \E config \in ConfigById(WorkerOf[h]) : CacheConfig(WorkerOf[h], config)
    BY <1>3 DEF CleanHostname, LookUpHostnames
  <2> QED BY <1>1, <2>1, <2>2, LookupKeepsCache
<1> QED BY <1>2, <1>3

\* The updater looks up by worker id, for its routine orders.
LEMMA EnvironmentCache ==
  ASSUME CacheTypeOK, Environment
  PROVE  CacheKept
<1>1. ASSUME NEW w \in Workers, OrderRoutineDelete(w) \/ OrderRoutineUpdate(w)
      PROVE  CacheKept
  BY <1>1, LookupKeepsCache DEF OrderRoutineDelete, OrderRoutineUpdate
<1>2. ASSUME UNCHANGED volumeConfig
      PROVE  CacheKept
  BY <1>2 DEF CacheKept
<1> QED BY <1>1, <1>2 DEF Environment, Request, OrderDelete, OrderUpdate

\* Every step keeps AnswersCached.
LEMMA AnswersCachedNext == TypeOK /\ AnswersCached /\ [Next]_vars => AnswersCached'
<1> SUFFICES ASSUME TypeOK, AnswersCached, [Next]_vars
             PROVE  AnswersCached'
  OBVIOUS
<1>0. StateTypeOK /\ CacheTypeOK /\ InitializerTypeOK
  BY DEF TypeOK, StateTypeOK
<1>1. CASE CacheKept /\ \A job \in hostnameJob' : job.config \in ApiAnswers
  BY <1>1 DEF AnswersCached, CacheKept
<1>2. CASE InitializerStep \/ InitializerCrash
  BY <1>0, <1>1, <1>2, InitializerCache
<1>3. CASE CacheKept /\ UNCHANGED hostnameJob
  BY <1>1, <1>3 DEF AnswersCached
<1>4. CASE Environment
  <2>1. UNCHANGED hostnameJob
    BY <1>4 DEF Environment, Request, OrderDelete, OrderUpdate, OrderRoutineDelete, OrderRoutineUpdate
  <2> QED BY <1>0, <1>3, <1>4, <2>1, EnvironmentCache
<1>5. CASE DeployerNext \/ WaiterNext \/ DeleterNext
  BY <1>0, <1>3, <1>5, DeployerCache, WaiterCache, DeleterCache
  DEF DeployerNext, WaiterNext, DeleterNext
<1>6. CASE ThrottlerNext \/ CleanerNext
  BY <1>0, <1>3, <1>6, ThrottlerCache, CleanerCache DEF ThrottlerNext, CleanerNext
<1>7. CASE Crash
  <2>1. CASE ThrottlerCrash \/ CleanerCrash
    BY <1>3, <1>7, <2>1 DEF Crash, ThrottlerCrash, CleanerCrash, CacheKept
  <2> QED
    BY <1>0, <1>2, <1>3, <1>7, <2>1, DeployerCache, WaiterCache, DeleterCache DEF Crash
<1>8. CASE UNCHANGED vars
  BY <1>3, <1>8 DEF CacheKept
<1> QED
  BY <1>2, <1>4, <1>5, <1>6, <1>7, <1>8 DEF Next, InitializerNext

\* It holds at the start, when nothing is cached.
LEMMA AnswersCachedInit == Init => AnswersCached
BY DEF Init, StateInit, InitializerInit, AnswersCached

-----------------------------------------------------------------------------
(* A deletion takes the listed hostnames down *)

\* With an API that answers, the hostnames a deletion looks up include those
\* listed, for any number of workers, hostnames and restarts.
THEOREM DeletionTakesHostnamesDownHolds ==
  ASSUME "error" \notin ApiAnswers
  PROVE  Spec => DeletionTakesHostnamesDown
<1> DEFINE Down == \A job \in deleteJob' \ deleteJob :
                     job.step = "namespace" =>
                       \A h \in Listed : WorkerOf[h] = job.worker => h \notin available'
<1>1. TypeOK /\ AnswersCached /\ [Next]_vars => [Down]_vars
  <2> SUFFICES ASSUME TypeOK, AnswersCached, Next
               PROVE  Down
    OBVIOUS
  <2>1. CASE deleteJob' \subseteq deleteJob
    BY <2>1
  <2>2. ASSUME NEW w \in Workers, DeleteKeys(w)
        PROVE  Down
    <3>1. PICK config \in ConfigById(w) :
            DelHostnameKeys(WorkerHostnames(w, config), hostnameError, errorAttempt, TRUE, TRUE)
      BY <2>2 DEF DeleteKeys
    <3>2. config # "error"
      BY DEF ConfigById, AnswersCached
    <3>3. \A h \in Listed : WorkerOf[h] = w => h \notin available'
      BY <3>1, <3>2, ConstantsAssumption DEF DelHostnameKeys, WorkerHostnames
    <3>4. \A job \in deleteJob' : job.worker = w
      BY <2>2 DEF DeleteKeys
    <3> QED BY <3>3, <3>4
  <2>3. ASSUME NEW job \in deleteJob, DeleteNamespace(job) \/ DeleteData(job) \/ DeleteRaises(job)
        PROVE  Down
    <3>1. deleteJob' = {} \/ deleteJob' = {[job EXCEPT !.step = "data"]}
      BY <2>3 DEF DeleteNamespace, DeleteData, DeleteRaises
    <3>2. [job EXCEPT !.step = "data"].step = "data"
      BY DEF TypeOK, DeleterTypeOK
    <3> QED BY <3>1, <3>2
  <2>4. CASE DeleterNext
    BY <2>1, <2>2, <2>3, <2>4 DEF DeleterNext, DeleterStep, DeleterStart, CancelDelete, DeleterFinish
  <2>5. CASE \/ InitializerNext \/ DeployerNext \/ WaiterNext \/ ThrottlerNext \/ CleanerNext
             \/ Crash
    BY <2>1, <2>5
    DEF InitializerNext, DeployerNext, WaiterNext, ThrottlerNext, CleanerNext, Crash, DeleterCrash
  <2>6. CASE Environment
    BY <2>1, <2>6
    DEF Environment, Request, OrderDelete, OrderUpdate, OrderRoutineDelete, OrderRoutineUpdate
  <2> QED BY <2>4, <2>5, <2>6 DEF Next
<1>2. Spec => [](TypeOK /\ AnswersCached)
  BY TypeInit, TypeNext, AnswersCachedInit, AnswersCachedNext, PTL DEF Spec
<1> QED
  BY <1>1, <1>2, PTL DEF Spec, DeletionTakesHostnamesDown

-----------------------------------------------------------------------------
(* A hostname is available and failed only while it is throttled *)

\* The API knows every instance, in a zone served here, and names no hostname
\* the instance does not; and a deployment is tried more than once.
AnswersServed ==
  /\ ApiAnswers \subseteq {"valid", "gateway"}
  /\ Hostnames \subseteq Listed \union Subdomains
  /\ MaxDeployAttempts > 0

\* A worker under check that does not wait any more was taken out of the flow,
\* its attempts with it: its next deployment may fail once without an error.
CheckedIsFresh ==
  \A w \in Workers :
    checking[w] \in {"probe", "timeout", "complete", "publish"} /\ waiting[w] = "none" =>
      deployAttempt[w] = 0

\* The hostnames about to be made available have not failed; they may be
\* throttled.
PublishedNotFailed ==
  \A w \in Workers : checking[w] = "publish" => publishing[w] \cap hostnameError \subseteq throttled

FailureInv ==
  /\ DeployerInv /\ WaiterInv /\ AnswersCached
  /\ failedJob = {}
  /\ CheckedIsFresh /\ PublishedNotFailed /\ FailedIsNotAvailable

\* Whoever takes the waiting key also takes the attempts.
FreshKept ==
  \A w \in Workers :
    waiting'[w] = "none" =>
      deployAttempt'[w] = 0 \/ (waiting[w] = "none" /\ deployAttempt'[w] = deployAttempt[w])

\* No hostname fails otherwise than by throttling, or becomes available.
NoneFails ==
  /\ hostnameError' \ throttled' \subseteq hostnameError \ throttled
  /\ available' \subseteq available

\* del_worker_keys takes the waiting key and the attempts together.
LEMMA DelWorkerKeysFresh ==
  ASSUME WorkerTypeOK, NEW w \in Workers, DelWorkerKeys(w)
  PROVE  FreshKept
BY DEF DelWorkerKeys, WorkerTypeOK, FreshKept

\* With such answers no lookup of the initializer makes a worker fail.
LEMMA InitializerHarmless ==
  ASSUME AnswersServed, AnswersCached, InitializerTypeOK, failedJob = {},
         InitializerStep \/ InitializerCrash
  PROVE  FreshKept /\ NoneFails /\ failedJob' = {}
<1>1. CASE UNCHANGED <<hostnameError, throttled, available, waiting, deployAttempt, failedJob>>
  BY <1>1 DEF FreshKept, NoneFails
<1>2. CASE InitializerStart \/ StartHostnames \/ InitializerFinish \/ InitializerCrash
  BY <1>1, <1>2 DEF InitializerStart, StartHostnames, InitializerFinish, InitializerCrash
<1>3. ASSUME NEW w \in Workers, ReadForcedUpdate(w)
      PROVE  UNCHANGED <<hostnameError, throttled, available, waiting, deployAttempt, failedJob>>
  BY <1>3 DEF ReadForcedUpdate
<1>4. ASSUME NEW job \in forcedJob, ForcedUpdate(job)
      PROVE  UNCHANGED <<hostnameError, throttled, available, waiting, deployAttempt, failedJob>>
  BY <1>4 DEF ForcedUpdate
<1>5. ASSUME NEW h \in Hostnames, ReadHostname(h)
      PROVE  UNCHANGED <<hostnameError, throttled, available, waiting, deployAttempt, failedJob>>
  BY <1>5 DEF ReadHostname
<1>6. ASSUME NEW job \in hostnameJob, HostnameConfigFailed(job) \/ InitializeHostname(job)
      PROVE  UNCHANGED <<hostnameError, throttled, available, waiting, deployAttempt, failedJob>>
  <2>1. job.config \in {"valid", "gateway"} /\ job.hostname \in Listed \union Subdomains
    BY DEF AnswersServed, AnswersCached, InitializerTypeOK
  <2>2. InitializeHostname(job) /\ IsValidZone(job.config, TRUE)
    BY <1>6, <2>1 DEF HostnameConfigFailed, IsValidZone
  <2> QED BY <2>1, <2>2 DEF InitializeHostname
<1> QED
  BY <1>1, <1>2, <1>3, <1>4, <1>5, <1>6 DEF InitializerStep

\* Nor does any of the deletion's steps.
LEMMA DeleterHarmless ==
  ASSUME WorkerTypeOK, DeleterStep \/ DeleterCrash
  PROVE  FreshKept /\ NoneFails
<1>1. CASE UNCHANGED <<hostnameError, throttled, available, waiting, deployAttempt>>
  BY <1>1 DEF FreshKept, NoneFails
<1>2. ASSUME NEW w \in Workers, DeleteKeys(w)
      PROVE  FreshKept /\ NoneFails
  <2>1. NoneFails
    BY <1>2 DEF DeleteKeys, DelHostnameKeys, NoneFails
  <2> QED BY <1>2, <2>1, DelWorkerKeysFresh DEF DeleteKeys
<1>3. ASSUME NEW w \in Workers, CancelDelete(w)
      PROVE  UNCHANGED <<hostnameError, throttled, available, waiting, deployAttempt>>
  BY <1>3 DEF CancelDelete
<1>4. CASE DeleterStart \/ DeleterFinish \/ DeleterCrash
  BY <1>1, <1>4 DEF DeleterStart, DeleterFinish, DeleterCrash
<1>5. ASSUME NEW job \in deleteJob,
             DeleteNamespace(job) \/ DeleteData(job) \/ DeleteRaises(job)
      PROVE  UNCHANGED <<hostnameError, throttled, available, waiting, deployAttempt>>
  BY <1>5 DEF DeleteNamespace, DeleteData, DeleteRaises
<1> QED BY <1>1, <1>2, <1>3, <1>4, <1>5 DEF DeleterStep

\* The throttler fails workers by throttling them only.
LEMMA ThrottlerHarmless ==
  ASSUME WorkerTypeOK, NEW w \in Workers, ThrottleStart(w) \/ ThrottleMark(w) \/ ThrottleStop(w)
  PROVE  FreshKept /\ NoneFails
<1>1. CASE ThrottleStart(w)
  BY <1>1 DEF ThrottleStart, FreshKept, NoneFails
<1>2. CASE ThrottleMark(w)
  <2>1. PICK config : MarkWorker(w, config, cachedWorkerId, TRUE)
    BY <1>2 DEF ThrottleMark
  <2> DEFINE H == WorkerHostnames(w, config)
  <2>2. /\ hostnameError' = hostnameError \union H
        /\ throttled' = throttled \union H
        /\ available' = available \ H
    BY <2>1 DEF MarkWorker, DelHostnameKeys
  <2> HIDE DEF H
  <2>3. NoneFails
    BY <2>2 DEF NoneFails
  <2> QED BY <2>1, <2>3, DelWorkerKeysFresh DEF MarkWorker
<1>3. CASE ThrottleStop(w)
  <2>1. PICK H : DelThrottledKeys(H)
    BY <1>3 DEF ThrottleStop
  <2>2. NoneFails
    BY <2>1 DEF DelThrottledKeys, NoneFails
  <2> QED BY <1>3, <2>2, DelWorkerKeysFresh DEF ThrottleStop
<1> QED BY <1>1, <1>2, <1>3

\* The Redis cleaner fails none.
LEMMA CleanerHarmless ==
  ASSUME CleanerStart \/ \E h \in Hostnames : CleanHostname(h)
  PROVE  FreshKept /\ NoneFails
BY DEF CleanerStart, CleanHostname, DelHostnameKeys, FreshKept, NoneFails

\* The deployer gives a worker up only after it has failed before.
LEMMA DeployerHarmless ==
  ASSUME AnswersServed, AnswersCached, StateTypeOK, DeployerExcludesWaiting,
         DeployerStep \/ DeployerCrash
  PROVE  /\ FreshKept
         /\ \/ NoneFails
            \/ \E w \in Workers : /\ waiting[w] = "none" /\ deployAttempt[w] # 0
                                  /\ KeysFail(w)
<1>0. WorkerTypeOK
  BY DEF StateTypeOK
<1>1. CASE UNCHANGED <<hostnameError, throttled, available, waiting, deployAttempt>>
  BY <1>1 DEF FreshKept, NoneFails
<1>2. ASSUME NEW w \in Workers, NEW config, Preprocess(w, config)
      PROVE  UNCHANGED <<hostnameError, throttled, available, waiting, deployAttempt>>
  <2>1. config # "error"
    BY <1>2 DEF Preprocess, ConfigById, AnswersCached, AnswersServed
  <2> QED BY <1>2, <2>1 DEF Preprocess
<1>3. ASSUME NEW w \in Workers, DeployerPreprocess(w) \/ DeployWorkerPreprocess(w)
      PROVE  UNCHANGED <<hostnameError, throttled, available, waiting, deployAttempt>>
  <2>1. \/ UNCHANGED <<hostnameError, throttled, available, waiting, deployAttempt>>
        \/ \E config : Preprocess(w, config)
    BY <1>3 DEF DeployerPreprocess, DeployWorkerPreprocess
  <2> QED BY <1>2, <2>1
<1>4. CASE DeployerStart \/ DeployerProcess \/ DeployerFinish \/ DeployerCrash
  BY <1>1, <1>4 DEF DeployerStart, DeployerProcess, DeployerFinish, DeployerCrash
<1>5. ASSUME NEW w \in Workers,
             \/ StartDeployWorker(w) \/ DeployWorkerRaises(w) \/ DeployMinio(w)
             \/ DeployCdn(w) \/ DeployFails(w)
      PROVE  UNCHANGED <<hostnameError, throttled, available, waiting, deployAttempt>>
  BY <1>5 DEF StartDeployWorker, DeployWorkerRaises, DeployMinio, DeployCdn, DeployFails
<1>6. ASSUME NEW w \in Workers, WaitForDeployment(w)
      PROVE  FreshKept /\ NoneFails
  BY <1>0, <1>6 DEF WaitForDeployment, FreshKept, NoneFails, WorkerTypeOK
<1>7. ASSUME NEW w \in Workers, RetryOrGiveUp(w), HasAttemptsLeft(w)
      PROVE  FreshKept /\ NoneFails
  BY <1>0, <1>7 DEF RetryOrGiveUp, FreshKept, NoneFails, WorkerTypeOK
<1>8. ASSUME NEW w \in Workers, RetryOrGiveUp(w), ~HasAttemptsLeft(w)
      PROVE  FreshKept /\ waiting[w] = "none" /\ deployAttempt[w] # 0 /\ KeysFail(w)
  <2>1. PICK config : SetWorkerError(w, config)
    BY <1>8 DEF RetryOrGiveUp
  <2>2. FreshKept
    BY <1>0, <2>1, DelWorkerKeysFresh DEF SetWorkerError, MarkWorker
  <2>3. waiting[w] = "none"
    BY <1>8 DEF RetryOrGiveUp, DeployerExcludesWaiting
  <2>4. deployAttempt[w] # 0
    BY <1>0, <1>8, ConstantsAssumption DEF HasAttemptsLeft, AnswersServed, WorkerTypeOK
  <2> QED BY <2>1, <2>2, <2>3, <2>4, MarkWorkerFails DEF SetWorkerError
<1> QED
  BY <1>1, <1>3, <1>4, <1>5, <1>6, <1>7, <1>8 DEF DeployerStep, DeployWorkerStep

FailureProps == CheckedIsFresh /\ PublishedNotFailed /\ FailedIsNotAvailable

\* A worker's failure does not reach the hostnames another is about to publish.
LEMMA FailureIsOwn ==
  ASSUME PublishesOwn, PublishedNotFailed, FailedIsNotAvailable, NEW w \in Workers, KeysFail(w),
         checking[w] # "publish", UNCHANGED publishing,
         \A v \in Workers : checking'[v] = "publish" => checking[v] = "publish"
  PROVE  PublishedNotFailed' /\ FailedIsNotAvailable'
<1>1. PICK H \in SUBSET HostnamesOfWorker(w) :
        /\ available' = available \ H
        /\ hostnameError' = hostnameError \union H
        /\ throttled \ H \subseteq throttled'
  BY DEF KeysFail
<1>2. FailedIsNotAvailable'
  BY <1>1 DEF FailedIsNotAvailable
<1>3. PublishedNotFailed'
  BY <1>1 DEF PublishedNotFailed, PublishesOwn, HostnamesOfWorker
<1> QED BY <1>2, <1>3

\* The steps of the others, none of which fails a worker about to be published.
LEMMA OthersKeepFailureProps ==
  ASSUME FailureProps, PublishesOwn, FreshKept, UNCHANGED waiterVars,
         \/ NoneFails
         \/ \E w \in Workers : waiting[w] = "none" /\ deployAttempt[w] # 0 /\ KeysFail(w)
  PROVE  FailureProps'
<1>1. CheckedIsFresh'
  BY DEF FailureProps, CheckedIsFresh, FreshKept
<1>2. CASE NoneFails
  BY <1>1, <1>2 DEF FailureProps, NoneFails, PublishedNotFailed, FailedIsNotAvailable
<1>3. ASSUME NEW w \in Workers, waiting[w] = "none", deployAttempt[w] # 0, KeysFail(w)
      PROVE  FailureProps'
  <2>1. checking[w] # "publish"
    BY <1>3 DEF FailureProps, CheckedIsFresh
  <2> QED BY <1>1, <1>3, <2>1, FailureIsOwn DEF FailureProps
<1> QED BY <1>2, <1>3

\* The waiter fails no worker it publishes, and publishes what it has cleared.
LEMMA WaiterKeepsFailureProps ==
  ASSUME AnswersServed, AnswersCached, TypeOK, CheckingPhase, PublishesOwn, FailureProps,
         WaiterStep \/ WaiterCrash
  PROVE  FailureProps'
<1> USE DEF FailureProps
<1>0. WaiterTypeOK /\ WorkerTypeOK /\ HostnameTypeOK
  BY DEF TypeOK, StateTypeOK
<1>1. ASSUME UNCHANGED <<hostnameError, throttled, available, publishing>>,
             \A w \in Workers : checking'[w] = "publish" => checking[w] = "publish"
      PROVE  PublishedNotFailed' /\ FailedIsNotAvailable'
  BY <1>1 DEF PublishedNotFailed, FailedIsNotAvailable
<1>2. CASE WaiterStart \/ WaiterProcess \/ WaiterFinish
  BY <1>2
  DEF WaiterStart, WaiterProcess, WaiterFinish, CheckedIsFresh, PublishedNotFailed, FailedIsNotAvailable
<1>3. CASE WaiterCrash
  BY <1>3 DEF WaiterCrash, CheckedIsFresh, PublishedNotFailed, FailedIsNotAvailable
<1>4. ASSUME NEW w \in Workers, WaiterIterate(w)
      PROVE  FailureProps'
  <2>1. CheckedIsFresh'
    BY <1>4 DEF WaiterIterate, CheckedIsFresh, CheckingPhase
  <2> QED BY <1>1, <1>4, <2>1 DEF WaiterIterate
<1>5. ASSUME NEW w \in Workers,
             \/ StartCheck(w) \/ CheckRaises(w) \/ CheckForError(w) \/ CheckForComplete(w)
             \/ IsReady(w) \/ IsNotReady(w) \/ IsReadyRaises(w) \/ WithinTimeout(w)
      PROVE  FailureProps'
  <2>1. UNCHANGED <<hostnameError, throttled, available, publishing, deployAttempt>>
    BY <1>5
    DEF StartCheck, CheckRaises, CheckForError, CheckForComplete, IsReady, IsNotReady,
        IsReadyRaises, WithinTimeout
  <2>2. /\ checking[w] # "publish"
        /\ \E step \in {"none", "check", "probe", "timeout", "complete"} : Goto(w, step)
    BY <1>5
    DEF StartCheck, CheckRaises, CheckForError, CheckForComplete, IsReady, IsNotReady,
        IsReadyRaises, WithinTimeout, CheckingPhase
  <2>3. PublishedNotFailed' /\ FailedIsNotAvailable'
    BY <1>0, <1>1, <2>1, <2>2 DEF Goto, WaiterTypeOK
  <2>4. CheckedIsFresh'
    <3>1. CASE CheckForError(w)
      BY <1>0, <3>1 DEF CheckForError, Goto, CheckedIsFresh, WaiterTypeOK, WorkerTypeOK
    <3>2. CASE CheckForComplete(w)
      BY <1>0, <3>2 DEF CheckForComplete, Goto, CheckedIsFresh, WaiterTypeOK, WorkerTypeOK
    <3>3. CASE \/ StartCheck(w) \/ CheckRaises(w) \/ IsReady(w) \/ IsNotReady(w)
               \/ IsReadyRaises(w) \/ WithinTimeout(w)
      BY <1>0, <3>3
      DEF StartCheck, CheckRaises, IsReady, IsNotReady, IsReadyRaises, WithinTimeout, Goto,
          CheckedIsFresh, WaiterTypeOK
    <3> QED BY <1>5, <3>1, <3>2, <3>3
  <2> QED BY <2>3, <2>4
<1>6. ASSUME NEW w \in Workers, CheckWithoutConfig(w)
      PROVE  FailureProps'
  BY <1>6 DEF CheckWithoutConfig, ConfigById, AnswersCached, AnswersServed
<1>7. ASSUME NEW w \in Workers, TimedOut(w) \/ LeaveFlow(w)
      PROVE  CheckedIsFresh'
  <2>1. DelWorkerKeys(w) /\ \E step : Goto(w, step)
    BY <1>7 DEF TimedOut, LeaveFlow, SetWorkerError, MarkWorker
  <2> QED
    BY <1>0, <2>1 DEF DelWorkerKeys, Goto, CheckedIsFresh, WaiterTypeOK, WorkerTypeOK
<1>8. ASSUME NEW w \in Workers, TimedOut(w)
      PROVE  FailureProps'
  <2>1. checking[w] # "publish" /\ Goto(w, "none") /\ UNCHANGED publishing /\ KeysFail(w)
    BY <1>8, MarkWorkerFails DEF TimedOut, SetWorkerError
  <2>2. \A v \in Workers : checking'[v] = "publish" => checking[v] = "publish"
    BY <1>0, <2>1 DEF Goto, WaiterTypeOK
  <2> QED BY <1>7, <1>8, <2>1, <2>2, FailureIsOwn
<1>9. ASSUME NEW w \in Workers, LeaveFlow(w)
      PROVE  FailureProps'
  <2>1. PICK config :
          /\ publishing' = [publishing EXCEPT ![w] = WorkerHostnames(w, config)]
          /\ DelHostnameKeys(WorkerHostnames(w, config), hostnameError, errorAttempt, TRUE, FALSE)
    BY <1>9 DEF LeaveFlow
  <2> DEFINE H == WorkerHostnames(w, config)
  <2>2. /\ publishing' = [publishing EXCEPT ![w] = H]
        /\ hostnameError' = hostnameError \ (H \ throttled)
        /\ UNCHANGED <<available, throttled>>
    BY <1>9, <2>1 DEF LeaveFlow, DelHostnameKeys
  <2>3. Goto(w, "publish")
    BY <1>9 DEF LeaveFlow
  <2> HIDE DEF H
  <2>4. PublishedNotFailed' /\ FailedIsNotAvailable'
    BY <1>0, <2>2, <2>3 DEF PublishedNotFailed, FailedIsNotAvailable, Goto, WaiterTypeOK
  <2> QED BY <1>7, <1>9, <2>4
<1>10. ASSUME NEW w \in Workers, Publish(w)
       PROVE  FailureProps'
  BY <1>0, <1>10
  DEF Publish, Goto, CheckedIsFresh, PublishedNotFailed, FailedIsNotAvailable, WaiterTypeOK
<1> QED
  BY <1>2, <1>3, <1>4, <1>5, <1>6, <1>8, <1>9, <1>10 DEF WaiterStep, CheckStep

\* Every step keeps FailureInv.
LEMMA FailureInvNext == AnswersServed /\ FailureInv /\ [Next]_vars => FailureInv'
<1> SUFFICES ASSUME AnswersServed, FailureInv, [Next]_vars
             PROVE  FailureProps' /\ failedJob' = {}
  BY DeployerInvNext, WaiterInvNext, AnswersCachedNext DEF FailureInv, FailureProps, WaiterInv
<1>0. /\ failedJob = {}
      /\ FailureProps /\ PublishesOwn /\ CheckingPhase /\ AnswersCached /\ DeployerExcludesWaiting
      /\ TypeOK /\ StateTypeOK /\ WorkerTypeOK /\ InitializerTypeOK
  BY DEF FailureInv, FailureProps, WaiterInv, DeployerInv, TypeOK, StateTypeOK
<1>1. CASE FreshKept /\ NoneFails /\ failedJob' = {} /\ UNCHANGED waiterVars
  BY <1>0, <1>1, OthersKeepFailureProps
<1>2. CASE (WaiterStep \/ WaiterCrash) /\ UNCHANGED failedJob
  BY <1>0, <1>2, WaiterKeepsFailureProps
<1>3. CASE (DeployerStep \/ DeployerCrash) /\ UNCHANGED <<failedJob, waiterVars>>
  BY <1>0, <1>3, DeployerHarmless, OthersKeepFailureProps
<1>4. CASE (InitializerStep \/ InitializerCrash) /\ UNCHANGED waiterVars
  BY <1>0, <1>1, <1>4, InitializerHarmless
<1>5. CASE (DeleterStep \/ DeleterCrash) /\ UNCHANGED <<failedJob, waiterVars>>
  BY <1>0, <1>1, <1>5, DeleterHarmless
<1>6. CASE Environment
  <2>1. UNCHANGED <<hostnameError, throttled, available, waiting, deployAttempt, failedJob,
                    waiterVars>>
    BY <1>6 DEF Environment, Request, OrderDelete, OrderUpdate, OrderRoutineDelete, OrderRoutineUpdate
  <2> QED BY <1>0, <1>1, <2>1 DEF FreshKept, NoneFails
<1>7. CASE ThrottlerNext \/ CleanerNext
  <2>1. UNCHANGED <<failedJob, waiterVars>>
    BY <1>7 DEF ThrottlerNext, CleanerNext
  <2> QED
    BY <1>0, <1>1, <1>7, <2>1, ThrottlerHarmless, CleanerHarmless DEF ThrottlerNext, CleanerNext
<1>8. CASE (ThrottlerCrash \/ CleanerCrash \/ UNCHANGED vars) /\ UNCHANGED <<failedJob, waiterVars>>
  BY <1>0, <1>1, <1>8 DEF ThrottlerCrash, CleanerCrash, FreshKept, NoneFails
<1> QED
  BY <1>2, <1>3, <1>4, <1>5, <1>6, <1>7, <1>8
  DEF Next, InitializerNext, DeployerNext, WaiterNext, DeleterNext, Crash

\* With such answers, a hostname is available and failed at once only while it
\* is throttled, for any number of workers, hostnames, subprocesses, orders,
\* throttlings and restarts.
THEOREM FailedIsNotAvailableHolds ==
  ASSUME AnswersServed
  PROVE  Spec => []FailedIsNotAvailable
<1>1. Init => FailureInv
  BY TypeInit, WaiterInvInit, AnswersCachedInit
  DEF FailureInv, DeployerInv, DeployingPhase, DeployerExcludesWaiting, CheckedIsFresh,
      PublishedNotFailed, FailedIsNotAvailable, Init, StateInit, InitializerInit, DeployerInit,
      WaiterInit
<1>2. FailureInv /\ [Next]_vars => FailureInv'
  BY FailureInvNext
<1>3. FailureInv => FailedIsNotAvailable
  BY DEF FailureInv
<1> QED
  BY <1>1, <1>2, <1>3, PTL DEF Spec
=============================================================================
