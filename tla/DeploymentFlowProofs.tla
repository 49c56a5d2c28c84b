------------------------ MODULE DeploymentFlowProofs ------------------------
(* Theorems about DeploymentFlow for all values of its constants. *)
EXTENDS DeploymentFlow, TLAPS

USE DEF VolumeConfigs

-----------------------------------------------------------------------------
(* Types *)

\* What a lookup returns is a volume config.
LEMMA ConfigByIdType ==
  ASSUME StateTypeOK, NEW w \in Workers
  PROVE  ConfigById(w) \subseteq VolumeConfigs
BY ConstantsAssumption DEF ConfigById, StateTypeOK, CacheTypeOK

\* So is what a lookup by hostname returns.
LEMMA ConfigByHostnameType ==
  ASSUME StateTypeOK, NEW h \in Hostnames
  PROVE  ConfigByHostname(h) \subseteq VolumeConfigs
BY ConstantsAssumption DEF ConfigByHostname, IsCachedHostname, StateTypeOK, CacheTypeOK

\* The hostnames a handler goes through are hostnames.
LEMMA WorkerHostnamesType ==
  ASSUME NEW w, NEW answer
  PROVE  WorkerHostnames(w, answer) \subseteq Hostnames
BY DEF WorkerHostnames

\* The groups of key changes preserve the types of the keys they change.
LEMMA DelHostnameKeysType ==
  ASSUME HostnameTypeOK, NEW H, NEW failed \in SUBSET Hostnames,
         NEW attempts \in [Hostnames -> Nat], NEW withError, NEW withAvailable,
         DelHostnameKeys(H, failed, attempts, withError, withAvailable),
         throttled' \subseteq hostnameError'
  PROVE  HostnameTypeOK'
BY DEF DelHostnameKeys, HostnameTypeOK

\* A deletion of errors that leaves the throttled ones keeps the types.
LEMMA DelErrorsType ==
  ASSUME HostnameTypeOK, NEW H, NEW withAvailable,
         DelHostnameKeys(H, hostnameError, errorAttempt, TRUE, withAvailable),
         UNCHANGED throttled
  PROVE  HostnameTypeOK'
<1>1. throttled' \subseteq hostnameError'
  BY DEF DelHostnameKeys, HostnameTypeOK
<1> QED BY <1>1, DelHostnameKeysType DEF HostnameTypeOK

\* Deleting the keys of a worker preserves the types of the worker keys.
LEMMA DelWorkerKeysType ==
  ASSUME WorkerTypeOK, NEW w \in Workers, DelWorkerKeys(w)
  PROVE  WorkerTypeOK'
<1>1. 0 \in 0 .. MaxDeployAttempts
  BY ConstantsAssumption
<1> QED BY <1>1 DEF DelWorkerKeys, WorkerTypeOK

\* The cache keeps its type when a config is stored in it, or removed.
LEMMA CacheConfigType ==
  ASSUME CacheTypeOK, NEW w, NEW answer \in VolumeConfigs \union {"none"},
         CacheConfig(w, answer), cachedWorkerId' \subseteq Hostnames
  PROVE  CacheTypeOK'
BY DEF CacheConfig, CacheTypeOK

\* set_last_action changes at most the cached config of its worker.
LEMMA SetLastActionType ==
  ASSUME StateTypeOK, NEW w \in Workers, SetLastAction(w),
         cachedWorkerId' \subseteq Hostnames
  PROVE  CacheTypeOK'
BY ConfigByIdType, CacheConfigType DEF SetLastAction, StateTypeOK

\* Marking a worker failed or throttled preserves the types of all keys.
LEMMA MarkWorkerType ==
  ASSUME StateTypeOK, NEW w \in Workers, NEW answer \in VolumeConfigs,
         NEW cached \in SUBSET Hostnames, NEW isThrottle \in BOOLEAN,
         MarkWorker(w, answer, cached, isThrottle), UNCHANGED <<forceDeleteData, cluster>>
  PROVE  StateTypeOK'
<1> DEFINE H == WorkerHostnames(w, answer)
<1>1. H \subseteq Hostnames
  BY WorkerHostnamesType
<1>2. HostnameTypeOK /\ CacheTypeOK /\ WorkerTypeOK /\ ClusterTypeOK
  BY DEF StateTypeOK
<1>3. HostnameTypeOK'
  <2>1. /\ DelHostnameKeys(H, hostnameError \union H, errorAttempt, FALSE, TRUE)
        /\ throttled' \subseteq throttled \union H
    BY DEF MarkWorker
  <2>2. hostnameError \union H \in SUBSET Hostnames /\ errorAttempt \in [Hostnames -> Nat]
    BY <1>1, <1>2 DEF HostnameTypeOK
  <2>3. throttled' \subseteq hostnameError'
    BY <1>2, <2>1 DEF DelHostnameKeys, HostnameTypeOK
  <2> QED BY <1>2, <2>1, <2>2, <2>3, DelHostnameKeysType
<1>4. WorkerTypeOK'
  BY <1>2, DelWorkerKeysType DEF MarkWorker
<1>5. CacheTypeOK'
  <2>1. cachedWorkerId' \subseteq Hostnames
    BY DEF MarkWorker
  <2> QED BY <1>2, <2>1, CacheConfigType DEF MarkWorker
<1>6. ClusterTypeOK'
  BY <1>2 DEF ClusterTypeOK, cluster
<1> QED BY <1>3, <1>4, <1>5, <1>6 DEF StateTypeOK

\* So does set_worker_error as the deployer and the waiter call it.
LEMMA SetWorkerErrorType ==
  ASSUME StateTypeOK, NEW w \in Workers, NEW answer \in VolumeConfigs,
         SetWorkerError(w, answer), UNCHANGED <<forceDeleteData, cluster>>
  PROVE  StateTypeOK'
<1>1. cachedWorkerId \in SUBSET Hostnames
  BY DEF StateTypeOK, CacheTypeOK
<1>2. MarkWorker(w, answer, cachedWorkerId, FALSE)
  BY DEF SetWorkerError
<1> QED BY <1>1, <1>2, MarkWorkerType

\* Marking one hostname failed preserves the types of its keys, whatever its
\* number of attempts.
LEMMA MarkHostnameType ==
  ASSUME StateTypeOK, NEW h \in Hostnames, NEW attempts \in [Hostnames -> Nat],
         MarkHostname(h, attempts)
  PROVE  HostnameTypeOK' /\ cachedWorkerId' \subseteq Hostnames
<1>1. HostnameTypeOK /\ cachedWorkerId \subseteq Hostnames
  BY DEF StateTypeOK, CacheTypeOK
<1>2. /\ DelHostnameKeys({h}, hostnameError \union {h}, attempts, FALSE, TRUE)
      /\ throttled' = throttled \ {h}
      /\ cachedWorkerId' = cachedWorkerId \ {h}
  BY DEF MarkHostname
<1>3. hostnameError \union {h} \in SUBSET Hostnames
  BY <1>1 DEF HostnameTypeOK
<1>4. throttled' \subseteq hostnameError'
  BY <1>1, <1>2 DEF DelHostnameKeys, HostnameTypeOK
<1> QED BY <1>1, <1>2, <1>3, <1>4, DelHostnameKeysType

-----------------------------------------------------------------------------
(* Type correctness, one lemma per daemon *)

USE DEF stateVars, hostnameKeys, cacheKeys, flowKeys, orderKeys, cluster

\* Every step of the initializer, its death included, preserves the types of
\* the shared state and of its own.
LEMMA InitializerType ==
  ASSUME StateTypeOK, InitializerTypeOK, InitializerStep \/ InitializerCrash
  PROVE  StateTypeOK' /\ InitializerTypeOK'
<1>0. HostnameTypeOK /\ CacheTypeOK /\ WorkerTypeOK /\ ClusterTypeOK
  BY DEF StateTypeOK
<1>1. CASE InitializerStart
  BY <1>0, <1>1 DEF InitializerStart, InitializerTypeOK, StateTypeOK, HostnameTypeOK,
       CacheTypeOK, WorkerTypeOK, ClusterTypeOK
<1>2. ASSUME NEW w \in Workers, ReadForcedUpdate(w)
      PROVE  StateTypeOK' /\ InitializerTypeOK'
  <2>1. PICK config \in ApiAnswers :
          /\ CacheConfig(w, config)
          /\ hostnamesForcedUpdate' =
               IF config = "error"
               THEN hostnamesForcedUpdate
               ELSE hostnamesForcedUpdate \union {h \in Listed : WorkerOf[h] = w}
          /\ forcedJob' = IF IsInFlow(w) THEN {} ELSE {[worker |-> w, config |-> config]}
    BY <1>2 DEF ReadForcedUpdate
  <2>2. config \in VolumeConfigs /\ Listed \subseteq Hostnames
    BY ConstantsAssumption
  <2>3. InitializerTypeOK'
    BY <1>2, <2>1, <2>2 DEF ReadForcedUpdate, InitializerTypeOK
  <2>4. CacheTypeOK'
    BY <1>0, <1>2, <2>1, <2>2, CacheConfigType DEF ReadForcedUpdate, CacheTypeOK
  <2> QED
    BY <1>0, <1>2, <2>3, <2>4
    DEF ReadForcedUpdate, StateTypeOK, HostnameTypeOK, WorkerTypeOK, ClusterTypeOK
<1>3. ASSUME NEW job \in forcedJob, ForcedUpdate(job)
      PROVE  StateTypeOK' /\ InitializerTypeOK'
  <2> DEFINE w == job.worker
  <2>1. w \in Workers
    BY DEF InitializerTypeOK
  <2>2. InitializerTypeOK'
    BY <1>3 DEF ForcedUpdate, InitializerTypeOK
  <2>3. HostnameTypeOK' /\ ClusterTypeOK'
    BY <1>0, <1>3 DEF ForcedUpdate, HostnameTypeOK, ClusterTypeOK
  <2>4. WorkerTypeOK'
    BY <1>0, <1>3, <2>1 DEF ForcedUpdate, WorkerTypeOK
  <2>5. CacheTypeOK'
    <3>1. cachedWorkerId' = cachedWorkerId
      BY <1>3 DEF ForcedUpdate
    <3>2. CASE UNCHANGED volumeConfig
      BY <1>0, <3>1, <3>2 DEF CacheTypeOK
    <3>3. CASE SetLastAction(w)
      <4> HIDE DEF w
      <4> QED BY <1>0, <2>1, <3>1, <3>3, SetLastActionType DEF CacheTypeOK
    <3> QED BY <1>3, <3>2, <3>3 DEF ForcedUpdate
  <2> QED BY <2>2, <2>3, <2>4, <2>5 DEF StateTypeOK
<1>4. CASE StartHostnames
  BY <1>0, <1>4 DEF StartHostnames, InitializerTypeOK, StateTypeOK, HostnameTypeOK,
       CacheTypeOK, WorkerTypeOK, ClusterTypeOK
<1>5. ASSUME NEW h \in Hostnames, ReadHostname(h)
      PROVE  StateTypeOK' /\ InitializerTypeOK'
  <2>1. /\ initHostnames' \subseteq Hostnames
        /\ UNCHANGED <<initPhase, initWorkers, hostnamesForcedUpdate, forcedJob>>
    BY <1>5 DEF ReadHostname, InitializerTypeOK
  <2>2. CacheTypeOK' /\ hostnameJob' \subseteq [hostname : Hostnames, config : VolumeConfigs]
    <3>1. CASE h \in hostnamesForcedUpdate
      BY <1>0, <1>5, <3>1 DEF ReadHostname, InitializerTypeOK, CacheTypeOK
    <3>2. CASE h \notin hostnamesForcedUpdate
      <4>1. PICK config \in ConfigByHostname(h) :
              /\ CacheHostnameConfig(h, config)
              /\ hostnameJob' \subseteq {[hostname |-> h, config |-> config]}
        BY <1>5, <3>2 DEF ReadHostname
      <4>2. config \in VolumeConfigs
        BY ConfigByHostnameType
      <4>3. CacheTypeOK'
        BY <1>0, <4>1, <4>2, ConstantsAssumption
        DEF CacheHostnameConfig, CacheConfig, CacheTypeOK
      <4> QED BY <4>1, <4>2, <4>3
    <3> QED BY <3>1, <3>2
  <2> QED
    BY <1>0, <1>5, <2>1, <2>2
    DEF ReadHostname, InitializerTypeOK, StateTypeOK, HostnameTypeOK, WorkerTypeOK,
        ClusterTypeOK
<1>6. ASSUME NEW job \in hostnameJob, HostnameConfigFailed(job)
      PROVE  StateTypeOK' /\ InitializerTypeOK'
  <2> DEFINE h == job.hostname
             attempts == [errorAttempt EXCEPT ![h] = @ + 1]
  <2>1. h \in Hostnames
    BY DEF InitializerTypeOK
  <2>2. attempts \in [Hostnames -> Nat]
    BY <1>0, <2>1 DEF HostnameTypeOK
  <2>3. InitializerTypeOK'
    BY <1>6 DEF HostnameConfigFailed, InitializerTypeOK
  <2>4. WorkerTypeOK' /\ ClusterTypeOK'
    BY <1>0, <1>6 DEF HostnameConfigFailed, WorkerTypeOK, ClusterTypeOK
  <2>5. CASE /\ errorAttempt' = attempts
             /\ UNCHANGED <<initialize, available, hostnameError, throttled, cachedWorkerId>>
    <3>1. HostnameTypeOK'
      BY <1>0, <2>2, <2>5 DEF HostnameTypeOK
    <3>2. CacheTypeOK'
      BY <1>0, <1>6, <2>5 DEF HostnameConfigFailed, CacheTypeOK
    <3> QED BY <2>3, <2>4, <3>1, <3>2 DEF StateTypeOK
  <2>6. CASE MarkHostname(h, attempts)
    <3>1. HostnameTypeOK' /\ cachedWorkerId' \subseteq Hostnames
      <4> HIDE DEF h, attempts
      <4> QED BY <2>1, <2>2, <2>6, MarkHostnameType
    <3>2. CacheTypeOK'
      BY <1>0, <1>6, <3>1 DEF HostnameConfigFailed, CacheTypeOK
    <3> QED BY <2>3, <2>4, <3>1, <3>2 DEF StateTypeOK
  <2> QED BY <1>6, <2>5, <2>6 DEF HostnameConfigFailed
<1>7. ASSUME NEW job \in hostnameJob, InitializeHostname(job)
      PROVE  StateTypeOK' /\ InitializerTypeOK'
  <2> DEFINE h == job.hostname
             w == WorkerOf[h]
  <2>1. h \in Hostnames /\ w \in Workers
    BY ConstantsAssumption DEF InitializerTypeOK
  <2>2. InitializerTypeOK' /\ UNCHANGED <<deployAttempt, waiting, orderKeys, forceDeleteData, cluster>>
    BY <1>7 DEF InitializeHostname, InitializerTypeOK
  <2>3. CASE UNCHANGED <<hostnameKeys, cacheKeys, ready>>
    BY <1>0, <2>2, <2>3
    DEF StateTypeOK, HostnameTypeOK, CacheTypeOK, WorkerTypeOK, ClusterTypeOK
  <2>4. CASE MarkHostname(h, errorAttempt) /\ UNCHANGED <<volumeConfig, ready>>
    <3>1. errorAttempt \in [Hostnames -> Nat]
      BY <1>0 DEF HostnameTypeOK
    <3>2. HostnameTypeOK' /\ cachedWorkerId' \subseteq Hostnames
      <4> HIDE DEF h
      <4> QED BY <2>1, <2>4, <3>1, MarkHostnameType
    <3> QED
      BY <1>0, <2>2, <2>4, <3>2 DEF StateTypeOK, CacheTypeOK, WorkerTypeOK, ClusterTypeOK
  <2>5. CASE /\ ready' = ready \union {w}
             /\ SetLastAction(w)
             /\ UNCHANGED <<hostnameKeys, cachedWorkerId>>
    <3>1. CacheTypeOK'
      <4> HIDE DEF w
      <4> QED BY <1>0, <2>1, <2>5, SetLastActionType DEF CacheTypeOK
    <3> QED
      BY <1>0, <2>1, <2>2, <2>5, <3>1
      DEF StateTypeOK, HostnameTypeOK, WorkerTypeOK, ClusterTypeOK
  <2> QED BY <1>7, <2>3, <2>4, <2>5 DEF InitializeHostname
<1>9. ASSUME NEW job \in failedJob, MarkRestOfWorker(job)
      PROVE  StateTypeOK' /\ InitializerTypeOK'
  <2> DEFINE h == job.hostname
             w == WorkerOf[h]
  <2>1. h \in Hostnames /\ w \in Workers
    BY ConstantsAssumption DEF InitializerTypeOK
  <2>2. InitializerTypeOK' /\ UNCHANGED <<forceDeleteData, cluster>>
    BY <1>9 DEF MarkRestOfWorker, InitializerTypeOK
  <2>3. CASE /\ IF job.config = "error" THEN UNCHANGED volumeConfig ELSE SetLastAction(w)
             /\ UNCHANGED <<hostnameKeys, cachedWorkerId, flowKeys, orderKeys>>
    <3>1. CacheTypeOK'
      <4>1. cachedWorkerId' \subseteq Hostnames
        BY <1>0, <2>3 DEF CacheTypeOK
      <4>2. CASE UNCHANGED volumeConfig
        BY <1>0, <4>1, <4>2 DEF CacheTypeOK
      <4>3. CASE SetLastAction(w)
        <5> HIDE DEF w
        <5> QED BY <2>1, <4>1, <4>3, SetLastActionType
      <4> QED BY <2>3, <4>2, <4>3
    <3> QED
      BY <1>0, <2>2, <2>3, <3>1
      DEF StateTypeOK, HostnameTypeOK, WorkerTypeOK, ClusterTypeOK
  <2>4. CASE \E config \in ConfigByHostname(h) \ {"error"} :
               MarkWorker(w, config, cachedWorkerId \union {h}, FALSE)
    <3>1. PICK config \in ConfigByHostname(h) \ {"error"} :
            MarkWorker(w, config, cachedWorkerId \union {h}, FALSE)
      BY <2>4
    <3>2. config \in VolumeConfigs /\ cachedWorkerId \union {h} \in SUBSET Hostnames
      BY <1>0, <2>1, ConfigByHostnameType DEF CacheTypeOK
    <3> HIDE DEF h, w
    <3> QED BY <2>1, <2>2, <3>1, <3>2, MarkWorkerType
  <2> QED BY <1>9, <2>3, <2>4 DEF MarkRestOfWorker
<1>8. CASE InitializerFinish \/ InitializerCrash
  BY <1>0, <1>8 DEF InitializerFinish, InitializerCrash, InitializerTypeOK, StateTypeOK,
       HostnameTypeOK, CacheTypeOK, WorkerTypeOK, ClusterTypeOK
<1> QED
  BY <1>1, <1>2, <1>3, <1>4, <1>5, <1>6, <1>7, <1>8, <1>9 DEF InitializerStep

\* Preprocessing a worker preserves the types of the shared state.
LEMMA PreprocessType ==
  ASSUME StateTypeOK, NEW w \in Workers, NEW config, Preprocess(w, config),
         UNCHANGED <<forceDeleteData, cluster>>
  PROVE  StateTypeOK'
<1>0. HostnameTypeOK /\ CacheTypeOK /\ WorkerTypeOK /\ ClusterTypeOK
  BY DEF StateTypeOK
<1>1. config \in VolumeConfigs
  BY ConfigByIdType DEF Preprocess
<1>2. CASE SetWorkerError(w, config)
  BY <1>1, <1>2, SetWorkerErrorType
<1>3. CASE /\ ready' \subseteq ready
           /\ CacheConfig(w, config)
           /\ UNCHANGED <<hostnameKeys, cachedWorkerId, deployAttempt, waiting, orderKeys>>
  <2>1. CacheTypeOK'
    BY <1>0, <1>1, <1>3, CacheConfigType DEF CacheTypeOK
  <2> QED
    BY <1>0, <1>3, <2>1 DEF StateTypeOK, HostnameTypeOK, WorkerTypeOK, ClusterTypeOK
<1> QED BY <1>2, <1>3 DEF Preprocess

\* Every step of the deployer preserves the types: an attempt is counted only
\* while some are left.
LEMMA DeployerType ==
  ASSUME StateTypeOK, DeployerTypeOK, DeployerStep \/ DeployerCrash
  PROVE  StateTypeOK' /\ DeployerTypeOK'
<1>0. HostnameTypeOK /\ CacheTypeOK /\ WorkerTypeOK /\ ClusterTypeOK
  BY DEF StateTypeOK
<1>1. CASE DeployerStart \/ DeployerProcess \/ DeployerFinish \/ DeployerCrash
  BY <1>0, <1>1
  DEF DeployerStart, DeployerProcess, DeployerFinish, DeployerCrash, DeployerTypeOK,
      StateTypeOK, HostnameTypeOK, CacheTypeOK, WorkerTypeOK, ClusterTypeOK
<1>2. ASSUME NEW w \in Workers, DeployerPreprocess(w)
      PROVE  StateTypeOK' /\ DeployerTypeOK'
  <2>1. DeployerTypeOK'
    BY <1>2 DEF DeployerPreprocess, DeployerTypeOK
  <2>2. CASE UNCHANGED stateVars
    BY <1>0, <2>1, <2>2
    DEF StateTypeOK, HostnameTypeOK, CacheTypeOK, WorkerTypeOK, ClusterTypeOK
  <2>3. CASE /\ \E config \in VolumeConfigs : Preprocess(w, config)
             /\ UNCHANGED <<forceDeleteData, cluster>>
    BY <2>1, <2>3, PreprocessType
  <2> QED BY <1>2, <2>2, <2>3 DEF DeployerPreprocess
<1>3. ASSUME NEW w \in Workers, StartDeployWorker(w) \/ DeployWorkerRaises(w)
      PROVE  StateTypeOK' /\ DeployerTypeOK'
  BY <1>0, <1>3
  DEF StartDeployWorker, DeployWorkerRaises, DeployerTypeOK, StateTypeOK, HostnameTypeOK,
      CacheTypeOK, WorkerTypeOK, ClusterTypeOK
<1>4. ASSUME NEW w \in Workers, DeployWorkerPreprocess(w)
      PROVE  StateTypeOK' /\ DeployerTypeOK'
  <2>1. PICK config \in VolumeConfigs : Preprocess(w, config)
    BY <1>4 DEF DeployWorkerPreprocess
  <2>2. StateTypeOK'
    BY <1>4, <2>1, PreprocessType DEF DeployWorkerPreprocess
  <2>3. DeployerTypeOK'
    BY <1>4 DEF DeployWorkerPreprocess, DeployerTypeOK
  <2> QED BY <2>2, <2>3
<1>5. ASSUME NEW w \in Workers, DeployMinio(w) \/ DeployCdn(w) \/ DeployFails(w)
      PROVE  StateTypeOK' /\ DeployerTypeOK'
  <2>1. ClusterTypeOK'
    BY <1>0, <1>5 DEF DeployMinio, DeployCdn, DeployFails, ChangeNamespace, ClusterTypeOK
  <2>2. DeployerTypeOK'
    BY <1>5 DEF DeployMinio, DeployCdn, DeployFails, DeployerTypeOK
  <2> QED
    BY <1>0, <1>5, <2>1, <2>2
    DEF DeployMinio, DeployCdn, DeployFails, StateTypeOK, HostnameTypeOK, CacheTypeOK,
        WorkerTypeOK
<1>6. ASSUME NEW w \in Workers, WaitForDeployment(w)
      PROVE  StateTypeOK' /\ DeployerTypeOK'
  <2>1. CacheTypeOK'
    BY <1>0, <1>6, SetLastActionType DEF WaitForDeployment, CacheTypeOK
  <2> QED
    BY <1>0, <1>6, <2>1
    DEF WaitForDeployment, DeployerTypeOK, StateTypeOK, HostnameTypeOK, WorkerTypeOK,
        ClusterTypeOK
<1>7. ASSUME NEW w \in Workers, RetryOrGiveUp(w)
      PROVE  StateTypeOK' /\ DeployerTypeOK'
  <2>1. /\ DeployerTypeOK'
        /\ UNCHANGED <<forceDeleteData, cluster>>
    BY <1>7 DEF RetryOrGiveUp, DeployerTypeOK
  <2>2. CASE \E config \in ConfigById(w) : SetWorkerError(w, config)
    BY <2>1, <2>2, ConfigByIdType, SetWorkerErrorType
  <2>3. CASE /\ HasAttemptsLeft(w)
             /\ deployAttempt' = [deployAttempt EXCEPT ![w] = @ + 1]
             /\ waiting' = [waiting EXCEPT ![w] = "error"]
             /\ SetLastAction(w)
             /\ UNCHANGED <<hostnameKeys, cachedWorkerId, ready, orderKeys>>
    <3>1. CacheTypeOK'
      BY <1>0, <2>3, SetLastActionType DEF CacheTypeOK
    <3>2. deployAttempt[w] + 1 \in 0 .. MaxDeployAttempts
      BY <1>0, <2>3, ConstantsAssumption DEF HasAttemptsLeft, WorkerTypeOK
    <3>3. WorkerTypeOK'
      BY <1>0, <2>3, <3>2 DEF WorkerTypeOK
    <3> QED
      BY <1>0, <2>1, <2>3, <3>1, <3>3 DEF StateTypeOK, HostnameTypeOK, ClusterTypeOK
  <2> QED BY <1>7, <2>2, <2>3 DEF RetryOrGiveUp
<1> QED
  BY <1>1, <1>2, <1>3, <1>4, <1>5, <1>6, <1>7 DEF DeployerStep, DeployWorkerStep

\* Every step of the waiter preserves the types.
LEMMA WaiterType ==
  ASSUME StateTypeOK, WaiterTypeOK, WaiterStep \/ WaiterCrash
  PROVE  StateTypeOK' /\ WaiterTypeOK'
<1>0. HostnameTypeOK /\ CacheTypeOK /\ WorkerTypeOK /\ ClusterTypeOK
  BY DEF StateTypeOK
<1>1. CASE WaiterStart \/ WaiterProcess \/ WaiterFinish \/ WaiterCrash
  BY <1>0, <1>1
  DEF WaiterStart, WaiterProcess, WaiterFinish, WaiterCrash, WaiterTypeOK,
      StateTypeOK, HostnameTypeOK, CacheTypeOK, WorkerTypeOK, ClusterTypeOK
<1>2. ASSUME NEW w \in Workers, WaiterIterate(w)
      PROVE  StateTypeOK' /\ WaiterTypeOK'
  BY <1>0, <1>2
  DEF WaiterIterate, WaiterTypeOK, StateTypeOK, HostnameTypeOK, CacheTypeOK, WorkerTypeOK,
      ClusterTypeOK
<1>3. ASSUME NEW w \in Workers,
             \/ StartCheck(w) \/ CheckRaises(w) \/ IsReady(w) \/ IsNotReady(w)
             \/ IsReadyRaises(w) \/ WithinTimeout(w)
      PROVE  StateTypeOK' /\ WaiterTypeOK'
  <2>1. WaiterTypeOK'
    BY <1>3
    DEF StartCheck, CheckRaises, IsReady, IsNotReady, IsReadyRaises, WithinTimeout, Goto,
        WaiterTypeOK
  <2> QED
    BY <1>0, <1>3, <2>1
    DEF StartCheck, CheckRaises, IsReady, IsNotReady, IsReadyRaises, WithinTimeout,
        StateTypeOK, HostnameTypeOK, CacheTypeOK, WorkerTypeOK, ClusterTypeOK
<1>4. ASSUME NEW w \in Workers, CheckWithoutConfig(w) \/ TimedOut(w)
      PROVE  StateTypeOK' /\ WaiterTypeOK'
  <2>1. /\ WaiterTypeOK'
        /\ UNCHANGED <<forceDeleteData, cluster>>
    BY <1>4 DEF CheckWithoutConfig, TimedOut, Goto, WaiterTypeOK
  <2>2. PICK config \in VolumeConfigs : SetWorkerError(w, config)
    BY <1>4, ConfigByIdType DEF CheckWithoutConfig, TimedOut
  <2> QED BY <2>1, <2>2, SetWorkerErrorType
<1>5. ASSUME NEW w \in Workers, CheckForError(w) \/ CheckForComplete(w)
      PROVE  StateTypeOK' /\ WaiterTypeOK'
  <2>1. CacheTypeOK'
    <3>1. PICK config \in VolumeConfigs : CacheConfig(w, config)
      BY <1>5, ConfigByIdType DEF CheckForError, CheckForComplete
    <3>2. cachedWorkerId' \subseteq Hostnames
      BY <1>0, <1>5 DEF CheckForError, CheckForComplete, CacheTypeOK
    <3> QED BY <1>0, <3>1, <3>2, CacheConfigType
  <2>2. WorkerTypeOK'
    BY <1>0, <1>5 DEF CheckForError, CheckForComplete, WorkerTypeOK
  <2>3. WaiterTypeOK'
    BY <1>5 DEF CheckForError, CheckForComplete, Goto, WaiterTypeOK
  <2> QED
    BY <1>0, <1>5, <2>1, <2>2, <2>3
    DEF CheckForError, CheckForComplete, StateTypeOK, HostnameTypeOK, ClusterTypeOK
<1>6. ASSUME NEW w \in Workers, LeaveFlow(w)
      PROVE  StateTypeOK' /\ WaiterTypeOK'
  <2>1. PICK config \in ConfigById(w) :
          /\ publishing' = [publishing EXCEPT ![w] = WorkerHostnames(w, config)]
          /\ DelHostnameKeys(WorkerHostnames(w, config), hostnameError, errorAttempt, TRUE, FALSE)
          /\ cachedWorkerId' = cachedWorkerId \ WorkerHostnames(w, config)
          /\ DelWorkerKeys(w)
          /\ CacheConfig(w, config)
    BY <1>6 DEF LeaveFlow
  <2>2. config \in VolumeConfigs /\ WorkerHostnames(w, config) \subseteq Hostnames
    BY ConfigByIdType, WorkerHostnamesType
  <2>3. WaiterTypeOK'
    BY <1>6, <2>1, <2>2 DEF LeaveFlow, Goto, WaiterTypeOK
  <2>4. HostnameTypeOK'
    BY <1>0, <1>6, <2>1, DelErrorsType DEF LeaveFlow
  <2>5. WorkerTypeOK'
    BY <1>0, <2>1, DelWorkerKeysType
  <2>6. CacheTypeOK'
    BY <1>0, <2>1, <2>2, CacheConfigType DEF CacheTypeOK
  <2>7. ClusterTypeOK'
    BY <1>0, <1>6 DEF LeaveFlow, ClusterTypeOK
  <2> QED BY <2>3, <2>4, <2>5, <2>6, <2>7 DEF StateTypeOK
<1>7. ASSUME NEW w \in Workers, Publish(w)
      PROVE  StateTypeOK' /\ WaiterTypeOK'
  <2>1. CacheTypeOK'
    BY <1>0, <1>7, SetLastActionType DEF Publish, CacheTypeOK
  <2>2. HostnameTypeOK'
    BY <1>0, <1>7 DEF Publish, HostnameTypeOK, WaiterTypeOK
  <2>3. WaiterTypeOK'
    BY <1>7 DEF Publish, Goto, WaiterTypeOK
  <2> QED
    BY <1>0, <1>7, <2>1, <2>2, <2>3 DEF Publish, StateTypeOK, WorkerTypeOK, ClusterTypeOK
<1> QED
  BY <1>1, <1>2, <1>3, <1>4, <1>5, <1>6, <1>7 DEF WaiterStep, CheckStep

\* Every step of the deleter preserves the types.
LEMMA DeleterType ==
  ASSUME StateTypeOK, DeleterTypeOK, DeleterStep \/ DeleterCrash
  PROVE  StateTypeOK' /\ DeleterTypeOK'
<1>0. HostnameTypeOK /\ CacheTypeOK /\ WorkerTypeOK /\ ClusterTypeOK
  BY DEF StateTypeOK
<1>1. CASE DeleterStart \/ DeleterFinish \/ DeleterCrash
  BY <1>0, <1>1
  DEF DeleterStart, DeleterFinish, DeleterCrash, DeleterTypeOK,
      StateTypeOK, HostnameTypeOK, CacheTypeOK, WorkerTypeOK, ClusterTypeOK
<1>2. ASSUME NEW w \in Workers, CancelDelete(w)
      PROVE  StateTypeOK' /\ DeleterTypeOK'
  <2>1. CacheTypeOK'
    <3>1. PICK config \in VolumeConfigs : CacheConfig(w, config)
      BY <1>2, ConfigByIdType DEF CancelDelete
    <3>2. cachedWorkerId' \subseteq Hostnames
      BY <1>0, <1>2 DEF CancelDelete, CacheTypeOK
    <3> QED BY <1>0, <3>1, <3>2, CacheConfigType
  <2>2. WorkerTypeOK'
    BY <1>0, <1>2 DEF CancelDelete, WorkerTypeOK
  <2>3. DeleterTypeOK'
    BY <1>2 DEF CancelDelete, DeleterTypeOK
  <2> QED
    BY <1>0, <1>2, <2>1, <2>2, <2>3
    DEF CancelDelete, StateTypeOK, HostnameTypeOK, ClusterTypeOK
<1>3. ASSUME NEW w \in Workers, DeleteKeys(w)
      PROVE  StateTypeOK' /\ DeleterTypeOK'
  <2>1. PICK config \in ConfigById(w) :
          /\ DelHostnameKeys(WorkerHostnames(w, config), hostnameError, errorAttempt, TRUE, TRUE)
          /\ cachedWorkerId' = cachedWorkerId \ WorkerHostnames(w, config)
    BY <1>3 DEF DeleteKeys
  <2>2. HostnameTypeOK'
    BY <1>0, <1>3, <2>1, DelErrorsType DEF DeleteKeys
  <2>3. WorkerTypeOK'
    BY <1>0, <1>3, DelWorkerKeysType DEF DeleteKeys
  <2>4. CacheTypeOK'
    BY <1>0, <1>3, <2>1, CacheConfigType DEF DeleteKeys, CacheTypeOK
  <2>5. ClusterTypeOK' /\ DeleterTypeOK'
    BY <1>0, <1>3 DEF DeleteKeys, IsDataDeletion, ClusterTypeOK, DeleterTypeOK
  <2> QED BY <2>2, <2>3, <2>4, <2>5 DEF StateTypeOK
<1>4. ASSUME NEW job \in deleteJob,
             DeleteNamespace(job) \/ DeleteData(job) \/ DeleteRaises(job)
      PROVE  StateTypeOK' /\ DeleterTypeOK'
  <2>1. ClusterTypeOK'
    BY <1>0, <1>4 DEF DeleteNamespace, DeleteData, DeleteRaises, ClusterTypeOK
  <2>2. DeleterTypeOK'
    BY <1>4 DEF DeleteNamespace, DeleteData, DeleteRaises, DeleterTypeOK
  <2> QED
    BY <1>0, <1>4, <2>1, <2>2
    DEF DeleteNamespace, DeleteData, DeleteRaises, StateTypeOK, HostnameTypeOK,
        CacheTypeOK, WorkerTypeOK
<1> QED
  BY <1>1, <1>2, <1>3, <1>4 DEF DeleterStep

\* Every step of the throttler preserves the types.
LEMMA ThrottlerType ==
  ASSUME StateTypeOK, ThrottlerTypeOK, NEW w \in Workers,
         ThrottleStart(w) \/ ThrottleMark(w) \/ ThrottleStop(w) \/ ThrottlerCrash
  PROVE  StateTypeOK' /\ ThrottlerTypeOK'
<1>0. HostnameTypeOK /\ CacheTypeOK /\ WorkerTypeOK /\ ClusterTypeOK
  BY DEF StateTypeOK
<1>1. ThrottlerTypeOK'
  BY DEF ThrottleStart, ThrottleMark, ThrottleStop, ThrottlerCrash, ThrottlerTypeOK
<1>2. CASE ThrottleStart(w) \/ ThrottlerCrash
  BY <1>0, <1>1, <1>2
  DEF ThrottleStart, ThrottlerCrash, StateTypeOK, HostnameTypeOK, CacheTypeOK, WorkerTypeOK,
      ClusterTypeOK
<1>3. CASE ThrottleMark(w)
  <2>1. PICK config \in ConfigById(w) : MarkWorker(w, config, cachedWorkerId, TRUE)
    BY <1>3 DEF ThrottleMark
  <2>2. config \in VolumeConfigs /\ cachedWorkerId \in SUBSET Hostnames
    BY <1>0, ConfigByIdType DEF CacheTypeOK
  <2>3. UNCHANGED <<forceDeleteData, cluster>>
    BY <1>3 DEF ThrottleMark
  <2> QED BY <1>1, <2>1, <2>2, <2>3, MarkWorkerType
<1>4. CASE ThrottleStop(w)
  <2>1. PICK config \in ConfigById(w) :
          /\ DelThrottledKeys(WorkerHostnames(w, config))
          /\ cachedWorkerId' = cachedWorkerId \ WorkerHostnames(w, config)
    BY <1>4 DEF ThrottleStop
  <2>2. HostnameTypeOK'
    BY <1>0, <2>1 DEF DelThrottledKeys, HostnameTypeOK
  <2>3. WorkerTypeOK'
    BY <1>0, <1>4, DelWorkerKeysType DEF ThrottleStop
  <2>4. CacheTypeOK'
    BY <1>0, <1>4, <2>1, CacheConfigType DEF ThrottleStop, CacheTypeOK
  <2>5. ClusterTypeOK'
    BY <1>0, <1>4 DEF ThrottleStop, ClusterTypeOK
  <2> QED BY <1>1, <2>2, <2>3, <2>4, <2>5 DEF StateTypeOK
<1> QED BY <1>2, <1>3, <1>4

\* Every step of the Redis cleaner preserves the types.
LEMMA CleanerType ==
  ASSUME StateTypeOK, CleanerTypeOK,
         CleanerStart \/ (\E h \in Hostnames : CleanHostname(h)) \/ CleanerCrash
  PROVE  StateTypeOK' /\ CleanerTypeOK'
<1>0. HostnameTypeOK /\ CacheTypeOK /\ WorkerTypeOK /\ ClusterTypeOK
  BY DEF StateTypeOK
<1>1. CleanerTypeOK'
  BY <1>0 DEF CleanerStart, CleanHostname, CleanerCrash, CleanerTypeOK, HostnameTypeOK
<1>2. CASE CleanerStart \/ CleanerCrash
  BY <1>0, <1>1, <1>2
  DEF CleanerStart, CleanerCrash, StateTypeOK, HostnameTypeOK, CacheTypeOK, WorkerTypeOK,
      ClusterTypeOK
<1>3. ASSUME NEW h \in Hostnames, CleanHostname(h)
      PROVE  StateTypeOK'
  <2>1. WorkerTypeOK' /\ ClusterTypeOK'
    BY <1>0, <1>3 DEF CleanHostname, WorkerTypeOK, ClusterTypeOK
  <2>2. HostnameTypeOK'
    <3>1. UNCHANGED throttled
      BY <1>3 DEF CleanHostname
    <3>2. CASE DelHostnameKeys({h}, hostnameError, errorAttempt, TRUE, TRUE)
      BY <1>0, <3>1, <3>2, DelErrorsType
    <3>3. CASE UNCHANGED <<initialize, available, hostnameError, errorAttempt>>
      BY <1>0, <3>1, <3>3 DEF HostnameTypeOK
    <3> QED BY <1>3, <3>2, <3>3 DEF CleanHostname
  <2>3. cachedWorkerId' \subseteq Hostnames
    BY <1>0, <1>3 DEF CleanHostname, CacheTypeOK
  <2>4. CacheTypeOK'
    <3>1. WorkerOf[h] \in Workers
      BY ConstantsAssumption
    <3>2. CASE UNCHANGED volumeConfig
      BY <1>0, <2>3, <3>2 DEF CacheTypeOK
    <3>3. CASE LookUpHostnames(WorkerOf[h])
      <4>1. PICK config \in VolumeConfigs : CacheConfig(WorkerOf[h], config)
        BY <3>1, <3>3, ConfigByIdType DEF LookUpHostnames
      <4> QED BY <1>0, <2>3, <4>1, CacheConfigType
    <3> QED BY <1>3, <3>2, <3>3 DEF CleanHostname
  <2> QED BY <2>1, <2>2, <2>4 DEF StateTypeOK
<1> QED BY <1>1, <1>2, <1>3

-----------------------------------------------------------------------------
(* Type correctness of the flow *)

USE DEF vars, daemonVars, environmentVars, initializerVars, deployerVars, waiterVars,
        deleterVars, throttlerVars

\* Requests and the updater's orders preserve the types.
LEMMA EnvironmentType ==
  ASSUME StateTypeOK, orders \in 0 .. MaxOrders, dataOrders \subseteq Workers,
         updateDue \subseteq Workers, Environment
  PROVE  /\ StateTypeOK'
         /\ UNCHANGED <<daemonVars, crashes>>
         /\ orders' \in 0 .. MaxOrders
         /\ dataOrders' \subseteq Workers
         /\ updateDue' \subseteq Workers
<1>0. HostnameTypeOK /\ CacheTypeOK /\ WorkerTypeOK /\ ClusterTypeOK
  BY DEF StateTypeOK
<1>1. ASSUME NEW h \in Hostnames, Request(h)
      PROVE  StateTypeOK' /\ UNCHANGED <<daemonVars, environmentVars>>
  BY <1>0, <1>1
  DEF Request, StateTypeOK, HostnameTypeOK, CacheTypeOK, WorkerTypeOK, ClusterTypeOK
<1>2. ASSUME NEW kind, Order(kind)
      PROVE  orders' \in 0 .. MaxOrders
  BY <1>2, BoundsAssumption DEF Order
<1>3. ASSUME NEW w \in Workers, OrderDelete(w) \/ OrderUpdate(w)
      PROVE  /\ StateTypeOK'
             /\ UNCHANGED <<daemonVars, crashes>>
             /\ dataOrders' \subseteq Workers
             /\ updateDue' \subseteq Workers
  BY <1>0, <1>3
  DEF OrderDelete, OrderUpdate, StateTypeOK, HostnameTypeOK, CacheTypeOK, WorkerTypeOK,
      ClusterTypeOK
<1>4. ASSUME NEW w \in Workers, OrderRoutineDelete(w) \/ OrderRoutineUpdate(w)
      PROVE  StateTypeOK' /\ UNCHANGED <<daemonVars, crashes, dataOrders, updateDue>>
  <2>1. CacheTypeOK'
    <3>1. PICK config \in VolumeConfigs : CacheConfig(w, config)
      BY <1>4, ConfigByIdType DEF OrderRoutineDelete, OrderRoutineUpdate
    <3>2. cachedWorkerId' \subseteq Hostnames
      BY <1>0, <1>4 DEF OrderRoutineDelete, OrderRoutineUpdate, CacheTypeOK
    <3> QED BY <1>0, <3>1, <3>2, CacheConfigType
  <2> QED
    BY <1>0, <1>4, <2>1
    DEF OrderRoutineDelete, OrderRoutineUpdate, StateTypeOK, HostnameTypeOK, WorkerTypeOK,
        ClusterTypeOK
<1>5. CASE \E h \in Hostnames : Request(h)
  BY <1>1, <1>5
<1>6. ASSUME NEW w \in Workers,
             \/ OrderDelete(w) \/ OrderUpdate(w)
             \/ OrderRoutineDelete(w) \/ OrderRoutineUpdate(w)
      PROVE  orders' \in 0 .. MaxOrders
  BY <1>2, <1>6 DEF OrderDelete, OrderUpdate, OrderRoutineDelete, OrderRoutineUpdate
<1> QED
  BY <1>3, <1>4, <1>5, <1>6 DEF Environment

\* All is of its type at the start.
LEMMA TypeInit == Init => TypeOK
BY ConstantsAssumption, BoundsAssumption
DEF Init, StateInit, InitializerInit, DeployerInit, WaiterInit, DeleterInit, ThrottlerInit,
    CleanerInit, TypeOK, ThrottlerTypeOK, CleanerTypeOK,
    StateTypeOK, HostnameTypeOK, CacheTypeOK, WorkerTypeOK, ClusterTypeOK,
    InitializerTypeOK, DeployerTypeOK, WaiterTypeOK, DeleterTypeOK

\* No step of any daemon or of the environment leaves the types.
LEMMA TypeNext == TypeOK /\ [Next]_vars => TypeOK'
<1> SUFFICES ASSUME TypeOK, [Next]_vars
             PROVE  TypeOK'
  OBVIOUS
<1>0. /\ StateTypeOK /\ InitializerTypeOK /\ DeployerTypeOK /\ WaiterTypeOK /\ DeleterTypeOK
      /\ ThrottlerTypeOK /\ CleanerTypeOK
      /\ orders \in 0 .. MaxOrders /\ crashes \in 0 .. MaxCrashes
      /\ dataOrders \subseteq Workers /\ updateDue \subseteq Workers
  BY DEF TypeOK
<1>1. CASE Environment
  <2>1. /\ StateTypeOK'
        /\ UNCHANGED <<daemonVars, crashes>>
        /\ orders' \in 0 .. MaxOrders
        /\ dataOrders' \subseteq Workers
        /\ updateDue' \subseteq Workers
    BY <1>0, <1>1, EnvironmentType
  <2> QED
    BY <1>0, <2>1 
    DEF TypeOK, InitializerTypeOK, DeployerTypeOK, WaiterTypeOK, DeleterTypeOK,
        ThrottlerTypeOK, CleanerTypeOK
<1>2. CASE InitializerNext
  <2>1. StateTypeOK' /\ InitializerTypeOK'
    BY <1>0, <1>2, InitializerType DEF InitializerNext
  <2> QED
    BY <1>0, <1>2, <2>1
    DEF InitializerNext, TypeOK, DeployerTypeOK, WaiterTypeOK, DeleterTypeOK,
        ThrottlerTypeOK, CleanerTypeOK
<1>3. CASE DeployerNext
  <2>1. StateTypeOK' /\ DeployerTypeOK'
    BY <1>0, <1>3, DeployerType DEF DeployerNext
  <2> QED
    BY <1>0, <1>3, <2>1
    DEF DeployerNext, TypeOK, InitializerTypeOK, WaiterTypeOK, DeleterTypeOK,
        ThrottlerTypeOK, CleanerTypeOK
<1>4. CASE WaiterNext
  <2>1. StateTypeOK' /\ WaiterTypeOK'
    BY <1>0, <1>4, WaiterType DEF WaiterNext
  <2> QED
    BY <1>0, <1>4, <2>1
    DEF WaiterNext, TypeOK, InitializerTypeOK, DeployerTypeOK, DeleterTypeOK,
        ThrottlerTypeOK, CleanerTypeOK
<1>5. CASE DeleterNext
  <2>1. StateTypeOK' /\ DeleterTypeOK'
    BY <1>0, <1>5, DeleterType DEF DeleterNext
  <2> QED
    BY <1>0, <1>5, <2>1
    DEF DeleterNext, TypeOK, InitializerTypeOK, DeployerTypeOK, WaiterTypeOK,
        ThrottlerTypeOK, CleanerTypeOK
<1>6. CASE ThrottlerNext
  <2>1. PICK w \in Workers : ThrottleStart(w) \/ ThrottleMark(w) \/ ThrottleStop(w)
    BY <1>6 DEF ThrottlerNext
  <2>2. StateTypeOK' /\ ThrottlerTypeOK'
    BY <1>0, <2>1, ThrottlerType
  <2>3. orders' \in 0 .. MaxOrders
    BY <1>0, <1>6, BoundsAssumption DEF ThrottlerNext, Order
  <2> QED
    BY <1>0, <1>6, <2>2, <2>3
    DEF ThrottlerNext, TypeOK, InitializerTypeOK, DeployerTypeOK, WaiterTypeOK, DeleterTypeOK,
        CleanerTypeOK
<1>7. CASE CleanerNext
  <2>1. StateTypeOK' /\ CleanerTypeOK'
    BY <1>0, <1>7, CleanerType DEF CleanerNext
  <2>2. orders' \in 0 .. MaxOrders
    BY <1>0, <1>7, BoundsAssumption DEF CleanerNext, Order
  <2> QED
    BY <1>0, <1>7, <2>1, <2>2
    DEF CleanerNext, TypeOK, InitializerTypeOK, DeployerTypeOK, WaiterTypeOK, DeleterTypeOK,
        ThrottlerTypeOK
<1>8. CASE Crash
  <2>1. crashes' \in 0 .. MaxCrashes
    BY <1>0, <1>8, BoundsAssumption DEF Crash
  <2>2. /\ StateTypeOK' /\ InitializerTypeOK' /\ DeployerTypeOK' /\ WaiterTypeOK'
        /\ DeleterTypeOK' /\ ThrottlerTypeOK' /\ CleanerTypeOK'
    <3>1. CASE InitializerCrash /\ UNCHANGED <<deployerVars, waiterVars, deleterVars, throttlerVars, cleanerListed>>
      BY <1>0, <3>1, InitializerType
      DEF DeployerTypeOK, WaiterTypeOK, DeleterTypeOK, ThrottlerTypeOK, CleanerTypeOK
    <3>2. CASE DeployerCrash /\ UNCHANGED <<initializerVars, waiterVars, deleterVars, throttlerVars, cleanerListed>>
      BY <1>0, <3>2, DeployerType
      DEF InitializerTypeOK, WaiterTypeOK, DeleterTypeOK, ThrottlerTypeOK, CleanerTypeOK
    <3>3. CASE WaiterCrash /\ UNCHANGED <<initializerVars, deployerVars, deleterVars, throttlerVars, cleanerListed>>
      BY <1>0, <3>3, WaiterType
      DEF InitializerTypeOK, DeployerTypeOK, DeleterTypeOK, ThrottlerTypeOK, CleanerTypeOK
    <3>4. CASE DeleterCrash /\ UNCHANGED <<initializerVars, deployerVars, waiterVars, throttlerVars, cleanerListed>>
      BY <1>0, <3>4, DeleterType
      DEF InitializerTypeOK, DeployerTypeOK, WaiterTypeOK, ThrottlerTypeOK, CleanerTypeOK
    <3>5. CASE ThrottlerCrash /\ UNCHANGED <<initializerVars, deployerVars, waiterVars, deleterVars, cleanerListed>>
      <4>1. /\ ThrottlerTypeOK'
            /\ UNCHANGED stateVars
        BY <1>0, <3>5 DEF ThrottlerCrash, ThrottlerTypeOK
      <4> QED
        BY <1>0, <3>5, <4>1
        DEF StateTypeOK, HostnameTypeOK, CacheTypeOK, WorkerTypeOK, ClusterTypeOK,
            InitializerTypeOK, DeployerTypeOK, WaiterTypeOK, DeleterTypeOK, CleanerTypeOK
    <3>6. CASE CleanerCrash /\ UNCHANGED <<initializerVars, deployerVars, waiterVars, deleterVars, throttlerVars>>
      BY <1>0, <3>6, CleanerType
      DEF InitializerTypeOK, DeployerTypeOK, WaiterTypeOK, DeleterTypeOK, ThrottlerTypeOK
    <3> QED BY <1>8, <3>1, <3>2, <3>3, <3>4, <3>5, <3>6 DEF Crash
  <2> QED
    BY <1>0, <1>8, <2>1, <2>2 DEF Crash, TypeOK
<1>9. CASE UNCHANGED vars
  BY <1>0, <1>9
  DEF TypeOK, StateTypeOK, HostnameTypeOK, CacheTypeOK, WorkerTypeOK, ClusterTypeOK,
      InitializerTypeOK, DeployerTypeOK, WaiterTypeOK, DeleterTypeOK, ThrottlerTypeOK,
      CleanerTypeOK
<1> QED
  BY <1>1, <1>2, <1>3, <1>4, <1>5, <1>6, <1>7, <1>8, <1>9 DEF Next

\* Every key, snapshot and subprocess keeps to its values; in particular no
\* worker is ever given more than DEPLOYER_MAX_ATTEMPT_NUMBERS retries.
THEOREM TypeCorrect == Spec => []TypeOK
<1>1. Init => TypeOK
  BY TypeInit
<1>2. TypeOK /\ [Next]_vars => TypeOK'
  BY TypeNext
<1> QED
  BY <1>1, <1>2, PTL DEF Spec
=============================================================================
