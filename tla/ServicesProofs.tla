--------------------------- MODULE ServicesProofs ---------------------------
(***************************************************************************)
(* Proofs about the throttler, the cleaner, the alerter and the clear      *)
(* cacher, and about all the services together: what was proved of each    *)
(* one alone holds of a behaviour of them all.                             *)
(***************************************************************************)
EXTENDS Services, NodesProofs, MetricsProofs, WorkersCheckerProofs, TLAPS

-----------------------------------------------------------------------------
(* The throttler *)

StopsWhenOver == throttlerPhase = "stop" => throttleExpiry = "over"

\* Every step keeps StopsWhenOver: nobody else touches the expiry once it is over.
LEMMA ThrottlingStep ==
  ASSUME StopsWhenOver, [ThrottlingNext]_throttlingVars
  PROVE  StopsWhenOver'
<1> USE DEF StopsWhenOver
<1>1. CASE ThrottlerDaemon
  BY <1>1 DEF ThrottlerDaemon, CheckThrottle, MarkThrottled, CheckExpiry, StopThrottle, throttleKeys
<1>2. CASE ThrottlerCrash \/ ThrottleExpires
  BY <1>2 DEF ThrottlerCrash, ThrottleExpires, throttleKeys
<1>3. CASE RedisCleanerStep
  BY <1>3 DEF RedisCleanerStep, CleanFailed, CleanAny, throttleKeys
<1>4. CASE ThrottlingFlow
  BY <1>4 DEF ThrottlingFlow, FlowStart, LeaveFlow, Publish, FailWorker, DeleteWorker, throttleKeys
<1>5. CASE UNCHANGED throttlingVars
  BY <1>5 DEF throttlingVars, throttleKeys
<1> QED
  BY <1>1, <1>2, <1>3, <1>4, <1>5 DEF ThrottlingNext

\* Without with_throttle the deletion of error keys spares those of throttled
\* hostnames, and a worker's error is never taken for none.
LEMMA MarkStays ==
  ASSUME NEW h \in ThrottledHostnames, NEW H, errorKey[h] = "throttled",
         DelErrors(H, FALSE) \/ SetError(H, "failed") \/ SetError(H, "throttled")
  PROVE  errorKey'[h] # "none"
BY DEF DelErrors, SetError

\* A throttled hostname stays so until its period is over, for any number of
\* hostnames, whoever deletes keys meanwhile (del_worker_hostname_keys).
THEOREM ThrottleKeptHolds == ThrottlingSpec => ThrottleKept
<1> DEFINE Kept == \A h \in ThrottledHostnames :
                     errorKey[h] = "throttled" /\ errorKey'[h] = "none" => throttleExpiry = "over"
<1>1. ThrottlingInit => StopsWhenOver
  BY DEF ThrottlingInit, StopsWhenOver
<1>2. StopsWhenOver /\ [ThrottlingNext]_throttlingVars => [Kept]_throttlingVars
  <2> SUFFICES ASSUME StopsWhenOver, ThrottlingNext,
                      NEW h \in ThrottledHostnames, errorKey[h] = "throttled", errorKey'[h] = "none"
               PROVE  throttleExpiry = "over"
    OBVIOUS
  <2>1. CASE ThrottlerDaemon
    <3>1. CASE MarkThrottled
      <4>1. PICK H : SetError(H, "throttled")
        BY <3>1 DEF MarkThrottled
      <4> QED
        BY <4>1, MarkStays
    <3>2. CASE StopThrottle
      BY <3>2 DEF StopThrottle, StopsWhenOver
    <3> QED
      BY <2>1, <3>1, <3>2 DEF ThrottlerDaemon, CheckThrottle, CheckExpiry
  <2>2. CASE ThrottlerCrash \/ ThrottleExpires
    BY <2>2 DEF ThrottlerCrash, ThrottleExpires
  <2>3. CASE RedisCleanerStep
    <3>1. PICK g \in ThrottledHostnames : DelErrors({g}, FALSE)
      BY <2>3 DEF RedisCleanerStep, CleanFailed, CleanAny
    <3> QED
      BY <3>1, MarkStays
  <2>4. CASE FlowStart \/ Publish
    BY <2>4 DEF FlowStart, Publish
  <2>5. CASE LeaveFlow \/ FailWorker \/ DeleteWorker
    <3>1. PICK H : DelErrors(H, FALSE) \/ SetError(H, "failed")
      BY <2>5 DEF LeaveFlow, FailWorker, DeleteWorker
    <3> QED
      BY <3>1, MarkStays
  <2> QED
    BY <2>1, <2>2, <2>3, <2>4, <2>5 DEF ThrottlingNext, ThrottlingFlow
<1>3. ThrottlingSpec => []StopsWhenOver
  BY <1>1, ThrottlingStep, PTL DEF ThrottlingSpec
<1> QED
  BY <1>2, <1>3, PTL DEF ThrottlingSpec, ThrottleKept

-----------------------------------------------------------------------------
(* The cleaner *)

\* While the cleaner looks for pods and deletes, the node takes no new ones,
\* so that what it saw is still so.
LookIsCurrent ==
  /\ cleanerPhase \in {"create", "list", "pods", "clear"} => cordoned
  /\ cleanerPhase = "clear" => ~podOnNode \/ isValid \/ listingFailed

\* Every step keeps LookIsCurrent: no pod comes to a cordoned node.
LEMMA CleanerStepCurrent ==
  ASSUME LookIsCurrent, [CleanerNext]_cleanerVars
  PROVE  LookIsCurrent'
<1> USE DEF LookIsCurrent
<1>1. CASE WorkerMoves
  BY <1>1 DEF WorkerMoves, nodeState, cleanerBounds
<1>2. CASE StartCleaner \/ StartNode \/ LabelNode \/ UnlabelNode \/ UncordonNode
  BY <1>2 DEF StartCleaner, StartNode, LabelNode, UnlabelNode, UncordonNode, CleanerStep, nodeState, podState
<1>3. CASE CordonNode
  BY <1>3 DEF CordonNode, Cordoned, CleanerStep
<1>4. CASE CreateCleanupPod \/ ListCaches
  BY <1>4 DEF CreateCleanupPod, ListCaches, CleanerStep, nodeState
<1>5. CASE LookForPods
  BY <1>5 DEF LookForPods, CleanerStep, nodeState, podState
<1>6. CASE ClearCache
  BY <1>6 DEF ClearCache, CleanerStep
<1>7. CASE CommandFails \/ CleanerDies
  BY <1>7 DEF CommandFails, CleanerDies
<1>8. CASE UNCHANGED cleanerVars
  BY <1>8 DEF cleanerVars, nodeState, podState, cleanerBounds
<1> QED
  BY <1>1, <1>2, <1>3, <1>4, <1>5, <1>6, <1>7, <1>8 DEF CleanerNext, CleanerDaemon

\* A cache goes only while the worker has no pod on the node, or may have none,
\* for any number of failures and moves: the cordon keeps new pods away
\* (NodeCleanupPod.init).
THEOREM UsedCacheKeptHolds == CleanerSpec => UsedCacheKept
<1> DEFINE Kept == cached /\ ~cached' => ~podOnNode \/ isValid \/ listingFailed
<1>1. CleanerInit => LookIsCurrent
  BY DEF CleanerInit, LookIsCurrent
<1>2. LookIsCurrent /\ [CleanerNext]_cleanerVars => [Kept]_cleanerVars
  <2> SUFFICES ASSUME LookIsCurrent, CleanerNext, cached, ~cached'
               PROVE  ~podOnNode \/ isValid \/ listingFailed
    OBVIOUS
  <2>1. CASE ClearCache
    BY <2>1 DEF ClearCache, CleanerStep, LookIsCurrent
  <2>2. CASE WorkerMoves
    BY <2>2 DEF WorkerMoves
  <2>3. CASE CommandFails \/ CleanerDies
    BY <2>3 DEF CommandFails, CleanerDies, CleanerFails
  <2> QED
    BY <2>1, <2>2, <2>3
    DEF CleanerNext, CleanerDaemon, StartCleaner, StartNode, LabelNode, CordonNode,
        CreateCleanupPod, ListCaches, LookForPods, UnlabelNode, UncordonNode
<1>3. CleanerSpec => []LookIsCurrent
  BY <1>1, CleanerStepCurrent, PTL DEF CleanerSpec
<1> QED
  BY <1>2, <1>3, PTL DEF CleanerSpec, UsedCacheKept

\* The label is there from before the cordon until the cleaner takes it off.
CordonInv ==
  /\ CordonIsFound
  /\ cleanerPhase \in {"cordon", "create", "list", "pods", "clear"} => labelled

\* Every step keeps CordonInv.
LEMMA CordonInvStep ==
  ASSUME CordonInv, [CleanerNext]_cleanerVars
  PROVE  CordonInv'
<1> USE DEF CordonInv, CordonIsFound, CleanerStep, nodeState
<1>1. CASE WorkerMoves
  BY <1>1 DEF WorkerMoves, cleanerBounds
<1>2. CASE StartCleaner \/ StartNode \/ LabelNode
  BY <1>2 DEF StartCleaner, StartNode, LabelNode
<1>3. CASE CordonNode \/ CreateCleanupPod \/ ListCaches \/ ClearCache
  BY <1>3 DEF CordonNode, CreateCleanupPod, ListCaches, ClearCache
<1>4. CASE LookForPods
  BY <1>4 DEF LookForPods
<1>5. CASE UnlabelNode \/ UncordonNode
  BY <1>5 DEF UnlabelNode, UncordonNode
<1>6. CASE CommandFails \/ CleanerDies
  <2>1. halfUncordoned \/ (cleanerPhase = "uncordon" /\ CleanerDies) => halfUncordoned'
    BY <1>6 DEF CommandFails, CleanerDies
  <2>2. /\ cleanerPhase' \in {"unlabel", "start"} /\ UNCHANGED <<cordoned, labelled>>
        /\ cleanerPhase # "uncordon" \/ CleanerDies
    BY <1>6 DEF CommandFails, CleanerDies, CleanerFails
  <2> QED
    BY <2>1, <2>2
<1>7. CASE UNCHANGED cleanerVars
  BY <1>7 DEF cleanerVars, cleanerBounds
<1> QED
  BY <1>1, <1>2, <1>3, <1>4, <1>5, <1>6, <1>7 DEF CleanerNext, CleanerDaemon

\* A node the cleaner cordoned has its label, whatever fails or dies, unless
\* that was between taking the label off and uncordoning (cordon_node,
\* uncordon_node).
THEOREM CordonIsFoundHolds == CleanerSpec => []CordonIsFound
<1>1. CleanerInit => CordonInv
  BY DEF CleanerInit, CordonInv, CordonIsFound
<1>2. CordonInv => CordonIsFound
  BY DEF CordonInv
<1> QED
  BY <1>1, <1>2, CordonInvStep, PTL DEF CleanerSpec

-----------------------------------------------------------------------------
(* The alerter *)

\* Times are those of the past.
AlerterTimes ==
  /\ alertClock \in Nat
  /\ lastSentAlert \in Nat /\ lastSentAlert <= alertClock
  /\ lastNotice \in Nat /\ lastNotice <= alertClock
  /\ held \subseteq Nat /\ alertsSeen \subseteq Nat /\ noticesSeen \subseteq Nat
  /\ \A t \in held : t <= alertClock

\* What the throttle remembers was sent, or is about to be.
ThrottleIsTrue ==
  /\ lastSentAlert # 0 /\ alerterPhase # "alert" =>
       \E s \in alertsSeen : lastSentAlert <= s /\ s <= alertClock
  /\ lastNotice # 0 /\ alerterPhase # "notice" => \E s \in noticesSeen : lastNotice <= s

AlerterInv == AlerterTimes /\ ThrottleIsTrue /\ HeldAlertsAnnounced

\* AlerterInv holds at the start, when nothing was sent or held back.
LEMMA AlerterInvInit == AlerterInit => AlerterInv
BY DEF AlerterInit, AlerterInv, AlerterTimes, ThrottleIsTrue, HeldAlertsAnnounced

\* An alert is held back in the window of one sent, and with a notice due or sent.
LEMMA PopKeepsAlerterInv ==
  ASSUME AlerterInv, PopAlert
  PROVE  AlerterInv'
<1> USE AlertsAssumption
<1>1. UNCHANGED <<alertClock, alertsSeen, noticesSeen>> /\ alerterPhase = "pop"
  BY DEF PopAlert
<1>2. CASE IsAlertDue(lastSentAlert)
  <2>1. lastSentAlert' = alertClock /\ alerterPhase' = "alert" /\ UNCHANGED <<lastNotice, held>>
    BY <1>2 DEF PopAlert
  <2> QED
    BY <1>1, <2>1 DEF AlerterInv, AlerterTimes, ThrottleIsTrue, HeldAlertsAnnounced
<1>3. CASE ~IsAlertDue(lastSentAlert)
  <2>1. /\ held' = held \union {alertClock} /\ lastSentAlert' = lastSentAlert
        /\ lastNotice' = IF IsNoticeDue THEN alertClock ELSE lastNotice
        /\ alerterPhase' = IF IsNoticeDue THEN "notice" ELSE "pop"
    BY <1>3 DEF PopAlert
  <2>2. lastSentAlert # 0 /\ alertClock < lastSentAlert + AlertWindow
    BY <1>3 DEF IsAlertDue, AlerterInv, AlerterTimes
  <2>3. \E s \in alertsSeen : s <= alertClock /\ alertClock < s + AlertWindow
    BY <1>1, <2>2 DEF AlerterInv, AlerterTimes, ThrottleIsTrue
  <2>4. IsNoticeDue \/ \E s \in noticesSeen : alertClock < s + AlertWindow
    BY <1>1 DEF IsNoticeDue, IsAlertDue, AlerterInv, AlerterTimes, ThrottleIsTrue
  <2>5. AlerterTimes'
    BY <1>1, <2>1 DEF AlerterInv, AlerterTimes
  <2>6. ThrottleIsTrue'
    BY <1>1, <2>1 DEF AlerterInv, AlerterTimes, ThrottleIsTrue
  <2>7. HeldAlertsAnnounced'
    BY <1>1, <2>1, <2>3, <2>4 DEF AlerterInv, HeldAlertsAnnounced
  <2> QED
    BY <2>5, <2>6, <2>7 DEF AlerterInv
<1> QED
  BY <1>2, <1>3

\* The end of a message makes true what the throttle took for sent.
LEMMA MessageKeepsAlerterInv ==
  ASSUME AlerterInv, MessageDone, UNCHANGED <<alertClock, held>>,
         \/ UNCHANGED <<lastSentAlert, lastNotice>>
         \/ lastSentAlert' = 0 /\ lastNotice' = 0
  PROVE  AlerterInv'
<1> USE AlertsAssumption
<1>1. /\ alertsSeen \subseteq alertsSeen' /\ noticesSeen \subseteq noticesSeen'
      /\ alertsSeen' \subseteq alertsSeen \union {alertClock}
      /\ noticesSeen' \subseteq noticesSeen \union {alertClock}
      /\ alerterPhase' = "pop"
      /\ alerterPhase = "alert" => alertClock \in alertsSeen'
      /\ alerterPhase = "notice" => alertClock \in noticesSeen'
  BY DEF MessageDone
<1>2. AlerterTimes'
  BY <1>1 DEF AlerterInv, AlerterTimes
<1>3. ThrottleIsTrue'
  BY <1>1 DEF AlerterInv, AlerterTimes, ThrottleIsTrue
<1>4. HeldAlertsAnnounced'
  <2> SUFFICES ASSUME NEW t \in held
               PROVE  /\ \E s \in alertsSeen' : s <= t /\ t < s + AlertWindow
                      /\ \E s \in noticesSeen' : t < s + AlertWindow
    BY DEF HeldAlertsAnnounced
  <2>1. t \in Nat /\ t <= alertClock /\ alertClock \in Nat
    BY DEF AlerterInv, AlerterTimes
  <2>2. \E s \in alertsSeen : s <= t /\ t < s + AlertWindow
    BY DEF AlerterInv, HeldAlertsAnnounced
  <2>3. alerterPhase = "notice" \/ \E s \in noticesSeen : t < s + AlertWindow
    BY DEF AlerterInv, HeldAlertsAnnounced
  <2>4. t < alertClock + AlertWindow
    BY <2>1
  <2> QED
    BY <1>1, <2>2, <2>3, <2>4
<1> QED
  BY <1>2, <1>3, <1>4 DEF AlerterInv

\* Every step keeps AlerterInv.
LEMMA AlerterInvStep ==
  ASSUME AlerterInv, [AlerterNext]_alerterVars
  PROVE  AlerterInv'
<1> USE AlertsAssumption
<1>1. CASE AlertTick
  BY <1>1 DEF AlertTick, AlerterInv, AlerterTimes, ThrottleIsTrue, HeldAlertsAnnounced
<1>2. CASE PushAlert
  BY <1>2 DEF PushAlert, AlerterInv, AlerterTimes, ThrottleIsTrue, HeldAlertsAnnounced
<1>3. CASE PopAlert
  BY <1>3, PopKeepsAlerterInv
<1>4. CASE SendToSlack \/ SlackFails
  BY <1>4, MessageKeepsAlerterInv DEF SendToSlack, SlackFails
<1>5. CASE AlerterRestarts
  <2>1. CASE MessageDone
    BY <1>5, <2>1, MessageKeepsAlerterInv DEF AlerterRestarts
  <2>2. CASE UNCHANGED <<alerterPhase, alertsSeen, noticesSeen>>
    BY <1>5, <2>2 DEF AlerterRestarts, AlerterInv, AlerterTimes, ThrottleIsTrue, HeldAlertsAnnounced
  <2> QED
    BY <1>5, <2>1, <2>2 DEF AlerterRestarts
<1>6. CASE UNCHANGED alerterVars
  BY <1>6 DEF alerterVars, AlerterInv, AlerterTimes, ThrottleIsTrue, HeldAlertsAnnounced
<1> QED
  BY <1>1, <1>2, <1>3, <1>4, <1>5, <1>6 DEF AlerterNext

\* No alert is held back without one sent, or tried, shortly before and a
\* notice to tell of it, for any window, any number of alerts and any restarts
\* (SendAlertsThrottle).
THEOREM HeldAlertsAnnouncedHolds == AlerterSpec => []HeldAlertsAnnounced
<1>1. AlerterInv => HeldAlertsAnnounced
  BY DEF AlerterInv
<1> QED
  BY <1>1, AlerterInvInit, AlerterInvStep, PTL DEF AlerterSpec

-----------------------------------------------------------------------------
(* The types of these services *)

\* A lookup answers what the API may, or what is cached.
LEMMA AnswerType ==
  ASSUME ThrottlingTypeOK, NEW answer \in ThrottleAnswers \union {cachedConfig}
  PROVE  answer \in {"none", "valid", "error"} /\ HostnamesOf(answer) \subseteq ThrottledHostnames
BY ThrottlingAssumption DEF ThrottlingTypeOK, HostnamesOf, ThrottledHostnames

\* The helpers that write hostname:error keep its type.
LEMMA ErrorType ==
  ASSUME ThrottlingTypeOK, NEW H, NEW withThrottle,
         DelErrors(H, withThrottle) \/ SetError(H, "failed") \/ SetError(H, "throttled")
  PROVE  errorKey' \in [ThrottledHostnames -> {"none", "failed", "throttled"}]
BY DEF ThrottlingTypeOK, DelErrors, SetError

\* Every step keeps the types of the throttler.
LEMMA ThrottlingStepType ==
  ASSUME ThrottlingTypeOK, [ThrottlingNext]_throttlingVars
  PROVE  ThrottlingTypeOK'
<1> USE ThrottlingAssumption
<1>1. ASSUME FlowMayStop
      PROVE  flowPhase' \in {"idle", "flow", "publish"} /\ toPublish' \subseteq ThrottledHostnames
  BY <1>1 DEF FlowMayStop, ThrottlingTypeOK
<1>2. CASE CheckThrottle
  <2>1. throttleChecked' \in BOOLEAN /\ lookupFailed' \in BOOLEAN
    BY <1>2 DEF CheckThrottle, ThrottlingTypeOK, throttleKeys
  <2>2. throttles' \in 0 .. MaxThrottles /\ throttleExpiry' \in {"none", "running", "over"}
    BY <1>2 DEF CheckThrottle, ThrottlingTypeOK, throttleKeys
  <2> QED
    BY <1>2, <2>1, <2>2 DEF CheckThrottle, ThrottlingTypeOK, flowState
<1>3. CASE MarkThrottled
  <2>1. PICK answer \in ThrottleAnswers \union {cachedConfig} :
          cachedConfig' = answer /\ SetError(HostnamesOf(answer), "throttled")
    BY <1>3 DEF MarkThrottled
  <2>2. served' \subseteq ThrottledHostnames /\ cachedConfig' \in {"none", "valid", "error"}
    BY <2>1, AnswerType DEF SetError, ThrottlingTypeOK
  <2>3. errorKey' \in [ThrottledHostnames -> {"none", "failed", "throttled"}]
    BY <2>1, ErrorType
  <2> QED
    BY <1>1, <1>3, <2>2, <2>3 DEF MarkThrottled, ThrottlingTypeOK, throttleKeys, throttlingBounds
<1>4. CASE StopThrottle
  <2>1. PICK answer \in ThrottleAnswers \union {cachedConfig} :
          /\ DelErrors(HostnamesOf(answer), TRUE)
          /\ served' = served \ HostnamesOf(answer)
          /\ lookupFailed' = (lookupFailed \/ answer = "error")
    BY <1>4 DEF StopThrottle
  <2>2. served' \subseteq ThrottledHostnames /\ lookupFailed' \in BOOLEAN
    BY <2>1 DEF ThrottlingTypeOK
  <2>3. errorKey' \in [ThrottledHostnames -> {"none", "failed", "throttled"}]
    BY <2>1, ErrorType
  <2> QED
    BY <1>1, <1>4, <2>2, <2>3 DEF StopThrottle, ThrottlingTypeOK, throttlingBounds
<1>5. CASE CheckExpiry \/ ThrottlerCrash \/ ThrottleExpires
  BY <1>5 DEF CheckExpiry, ThrottlerCrash, ThrottleExpires, ThrottlingTypeOK, throttleKeys, flowState,
              throttlingBounds
<1>6. CASE RedisCleanerStep
  <2>1. PICK h \in ThrottledHostnames : CleanFailed(h) \/ CleanAny(h)
    BY <1>6 DEF RedisCleanerStep
  <2>2. /\ DelErrors({h}, FALSE) /\ served' = served \ {h}
        /\ UNCHANGED <<throttleKeys, throttlerPhase, flowState, throttlingBounds, lookupFailed>>
        /\ cachedConfig' \in ThrottleAnswers \union {cachedConfig}
    BY <2>1 DEF CleanFailed, CleanAny
  <2>3. errorKey' \in [ThrottledHostnames -> {"none", "failed", "throttled"}]
    BY <2>2, ErrorType
  <2> QED
    BY <2>2, <2>3, AnswerType DEF ThrottlingTypeOK, throttleKeys, flowState, throttlingBounds
<1>7. CASE FlowStart \/ Publish
  BY <1>7 DEF FlowStart, Publish, ThrottlingTypeOK, throttleKeys, throttlingBounds
<1>8. CASE LeaveFlow
  <2>1. PICK answer \in ThrottleAnswers \union {cachedConfig} :
          /\ cachedConfig' = answer
          /\ toPublish' = HostnamesOf(answer)
          /\ DelErrors(HostnamesOf(answer), FALSE)
    BY <1>8 DEF LeaveFlow
  <2>2. errorKey' \in [ThrottledHostnames -> {"none", "failed", "throttled"}]
    BY <2>1, ErrorType
  <2> QED
    BY <1>8, <2>1, <2>2, AnswerType DEF LeaveFlow, ThrottlingTypeOK, throttleKeys, throttlingBounds
<1>9. CASE FailWorker
  <2>1. PICK answer \in ThrottleAnswers \union {cachedConfig} :
          cachedConfig' = answer /\ SetError(HostnamesOf(answer), "failed")
    BY <1>9 DEF FailWorker
  <2>2. served' \subseteq ThrottledHostnames
    BY <2>1 DEF SetError, ThrottlingTypeOK
  <2>3. errorKey' \in [ThrottledHostnames -> {"none", "failed", "throttled"}]
    BY <2>1, ErrorType
  <2> QED
    BY <1>9, <2>1, <2>2, <2>3, AnswerType DEF FailWorker, ThrottlingTypeOK, throttleKeys, throttlingBounds
<1>10. CASE DeleteWorker
  <2>1. PICK answer \in ThrottleAnswers \union {cachedConfig} :
          DelErrors(HostnamesOf(answer), FALSE) /\ served' = served \ HostnamesOf(answer)
    BY <1>10 DEF DeleteWorker
  <2>2. errorKey' \in [ThrottledHostnames -> {"none", "failed", "throttled"}]
    BY <2>1, ErrorType
  <2> QED
    BY <1>1, <1>10, <2>1, <2>2 DEF DeleteWorker, ThrottlingTypeOK, throttleKeys, throttlingBounds
<1>11. CASE UNCHANGED throttlingVars
  BY <1>11 DEF throttlingVars, ThrottlingTypeOK, throttleKeys, flowState, throttlingBounds
<1> QED
  BY <1>2, <1>3, <1>4, <1>5, <1>6, <1>7, <1>8, <1>9, <1>10, <1>11
  DEF ThrottlingNext, ThrottlerDaemon, ThrottlingFlow

\* The types of the throttler, for any hostnames and numbers of throttlings.
THEOREM ThrottlingTypeCorrect == ThrottlingSpec => []ThrottlingTypeOK
<1>1. ThrottlingInit => ThrottlingTypeOK
  <2> SUFFICES ASSUME ThrottlingInit PROVE ThrottlingTypeOK
    OBVIOUS
  <2>1. throttleChecked \in BOOLEAN /\ lookupFailed \in BOOLEAN
    BY DEF ThrottlingInit
  <2>2. throttles \in 0 .. MaxThrottles /\ throttlerCrashes \in 0 .. MaxThrottlerCrashes
    BY ThrottlingAssumption DEF ThrottlingInit
  <2> QED
    BY <2>1, <2>2 DEF ThrottlingInit, ThrottlingTypeOK
<1> QED
  BY <1>1, ThrottlingStepType, PTL DEF ThrottlingSpec

\* Hostnames are marked while there is an expiry.
ThrottleMarks ==
  /\ MarkHasExpiry
  /\ throttlerPhase = "mark" => throttleExpiry # "none"

\* Where the config is found, it names every marked hostname.
LEMMA StopUnmarks ==
  ASSUME ThrottlingTypeOK, NEW answer \in ThrottleAnswers \union {cachedConfig},
         answer # "error", DelErrors(HostnamesOf(answer), TRUE)
  PROVE  \A h \in ThrottledHostnames : errorKey'[h] # "throttled"
<1>1. \A h \in ThrottledHostnames :
        h \notin HostnamesOf(answer) => errorKey[h] = "none"
  BY DEF HostnamesOf, ThrottledHostnames
<1>2. \A h \in ThrottledHostnames :
        errorKey'[h] = IF h \in HostnamesOf(answer) THEN "none" ELSE errorKey[h]
  BY DEF DelErrors
<1> QED
  BY <1>1, <1>2

\* No other writer of hostname:error makes a mark.
LEMMA NoNewMarks ==
  ASSUME NEW H, NEW withThrottle, DelErrors(H, withThrottle) \/ SetError(H, "failed")
  PROVE  \A h \in ThrottledHostnames : errorKey'[h] = "throttled" => errorKey[h] = "throttled"
BY DEF DelErrors, SetError

\* Every step keeps ThrottleMarks.
LEMMA ThrottleMarksStep ==
  ASSUME ThrottlingTypeOK, ThrottleMarks, [ThrottlingNext]_throttlingVars
  PROVE  ThrottleMarks'
<1> USE DEF ThrottleMarks, MarkHasExpiry
<1>1. CASE CheckThrottle \/ CheckExpiry
  BY <1>1 DEF CheckThrottle, CheckExpiry, throttleKeys
<1>2. CASE MarkThrottled
  BY <1>2 DEF MarkThrottled, throttleKeys
<1>3. CASE StopThrottle
  <2>1. PICK answer \in ThrottleAnswers \union {cachedConfig} :
          /\ DelErrors(HostnamesOf(answer), TRUE)
          /\ lookupFailed' = (lookupFailed \/ answer = "error")
    BY <1>3 DEF StopThrottle
  <2>2. throttlerPhase' = "check"
    BY <1>3 DEF StopThrottle
  <2>3. CASE answer = "error"
    BY <2>1, <2>2, <2>3
  <2>4. CASE answer # "error"
    BY <2>1, <2>2, <2>4, StopUnmarks
  <2> QED
    BY <2>3, <2>4
<1>4. CASE ThrottlerCrash \/ ThrottleExpires
  BY <1>4 DEF ThrottlerCrash, ThrottleExpires, throttleKeys
<1>5. CASE RedisCleanerStep \/ LeaveFlow \/ FailWorker \/ DeleteWorker
  <2>1. PICK H : DelErrors(H, FALSE) \/ SetError(H, "failed")
    BY <1>5 DEF RedisCleanerStep, CleanFailed, CleanAny, LeaveFlow, FailWorker, DeleteWorker
  <2>2. UNCHANGED <<throttleExpiry, throttlerPhase, lookupFailed>>
    BY <1>5
    DEF RedisCleanerStep, CleanFailed, CleanAny, LeaveFlow, FailWorker, DeleteWorker, throttleKeys
  <2> QED
    BY <2>1, <2>2, NoNewMarks
<1>6. CASE FlowStart \/ Publish
  BY <1>6 DEF FlowStart, Publish, throttleKeys
<1>7. CASE UNCHANGED throttlingVars
  BY <1>7 DEF throttlingVars, throttleKeys
<1> QED
  BY <1>1, <1>2, <1>3, <1>4, <1>5, <1>6, <1>7 DEF ThrottlingNext, ThrottlerDaemon, ThrottlingFlow

\* No hostname is marked without an expiry that will end it, for any hostnames
\* and crashes, unless the config was not found when a period was over
\* (_throttle_start sets the expiry first).
THEOREM MarkHasExpiryHolds == ThrottlingSpec => []MarkHasExpiry
<1>1. ThrottlingInit => ThrottleMarks
  BY DEF ThrottlingInit, ThrottleMarks, MarkHasExpiry
<1>2. ThrottlingSpec => []ThrottleMarks
  BY <1>1, ThrottlingTypeCorrect, ThrottleMarksStep, PTL DEF ThrottlingSpec
<1>3. ThrottleMarks => MarkHasExpiry
  BY DEF ThrottleMarks
<1> QED
  BY <1>2, <1>3, PTL

\* Every step keeps the types of the cleaner.
LEMMA CleanerStepType ==
  ASSUME CleanerTypeOK, [CleanerNext]_cleanerVars
  PROVE  CleanerTypeOK'
<1> USE CleanerAssumption DEF CleanerTypeOK, nodeState, podState, cleanerBounds
<1>1. CASE WorkerMoves
  <2>1. podOnNode' \in BOOLEAN /\ cached' \in BOOLEAN /\ isOpen' \in BOOLEAN
    BY <1>1 DEF WorkerMoves
  <2>2. podMoves' \in 0 .. MaxPodMoves /\ UNCHANGED <<nodeState, cleanerPhase, isValid, cleanerBounds>>
    BY <1>1 DEF WorkerMoves
  <2> QED
    BY <2>1, <2>2
<1>2. CASE StartCleaner \/ StartNode \/ LabelNode \/ UnlabelNode \/ UncordonNode \/ CreateCleanupPod
  <2>1. cordoned' \in BOOLEAN /\ labelled' \in BOOLEAN
    BY <1>2 DEF StartCleaner, StartNode, LabelNode, UnlabelNode, UncordonNode, CreateCleanupPod
  <2>2. /\ cleanerPhase' \in {"start", "idle", "label", "cordon", "list", "unlabel", "uncordon"}
        /\ UNCHANGED <<podState, cached, isValid, cleanerBounds>>
    BY <1>2 DEF StartCleaner, StartNode, LabelNode, UnlabelNode, UncordonNode, CreateCleanupPod, CleanerStep
  <2> QED
    BY <2>1, <2>2
<1>3. CASE CordonNode \/ ListCaches \/ ClearCache
  BY <1>3 DEF CordonNode, Cordoned, ListCaches, ClearCache, CleanerStep
<1>4. CASE LookForPods
  BY <1>4 DEF LookForPods, CleanerStep
<1>5. CASE CommandFails \/ CleanerDies
  <2>1. halfUncordoned' \in BOOLEAN
    BY <1>5 DEF CommandFails, CleanerDies
  <2>2. /\ cleanerPhase' \in {"unlabel", "start"} /\ cleanerFailures' \in 0 .. MaxCleanerFailures
        /\ UNCHANGED <<nodeState, podState, cached, isValid, listingFailed>>
    BY <1>5 DEF CommandFails, CleanerDies, CleanerFails
  <2> QED
    BY <2>1, <2>2
<1>6. CASE UNCHANGED cleanerVars
  BY <1>6 DEF cleanerVars
<1> QED
  BY <1>1, <1>2, <1>3, <1>4, <1>5, <1>6 DEF CleanerNext, CleanerDaemon

\* The types of the cleaner, for any number of moves and failures.
THEOREM CleanerTypeCorrect == CleanerSpec => []CleanerTypeOK
<1>1. CleanerInit => CleanerTypeOK
  <2> SUFFICES ASSUME CleanerInit PROVE CleanerTypeOK
    OBVIOUS
  <2>1. podMoves \in 0 .. MaxPodMoves /\ cleanerFailures \in 0 .. MaxCleanerFailures
    BY CleanerAssumption DEF CleanerInit
  <2> QED
    BY <2>1 DEF CleanerInit, CleanerTypeOK
<1> QED
  BY <1>1, CleanerStepType, PTL DEF CleanerSpec

\* Every step keeps the types of the alerter.
LEMMA AlerterStepType ==
  ASSUME AlerterTypeOK, [AlerterNext]_alerterVars
  PROVE  AlerterTypeOK'
<1> USE AlertsAssumption DEF AlerterTypeOK, AlertTimes
<1>1. CASE AlertTick \/ PushAlert
  <2>1. CASE AlertTick
    BY <2>1 DEF AlertTick
  <2>2. CASE PushAlert
    BY <2>2 DEF PushAlert
  <2> QED
    BY <1>1, <2>1, <2>2
<1>2. CASE PopAlert
  <2>1. /\ alerts' \in 0 .. pushed' /\ pushed' \in 0 .. MaxAlerts
        /\ UNCHANGED <<alertClock, pushed, alertFailures, alertsSeen, noticesSeen>>
    BY <1>2 DEF PopAlert
  <2>2. /\ lastSentAlert' \in {lastSentAlert, alertClock} /\ lastNotice' \in {lastNotice, alertClock}
        /\ held' \subseteq held \union {alertClock}
        /\ alerterPhase' \in {"pop", "alert", "notice"}
    BY <1>2 DEF PopAlert
  <2>3. alertClock \in 0 .. alertClock
    OBVIOUS
  <2> QED
    BY <2>1, <2>2, <2>3
<1>3. ASSUME MessageDone
      PROVE  /\ alertsSeen' \subseteq AlertTimes /\ noticesSeen' \subseteq AlertTimes
             /\ alerterPhase' = "pop"
  BY <1>3 DEF MessageDone
<1>4. CASE SendToSlack \/ SlackFails \/ AlerterRestarts
  <2>1. /\ alertsSeen' \subseteq AlertTimes /\ noticesSeen' \subseteq AlertTimes
        /\ alerterPhase' = "pop"
    BY <1>3, <1>4 DEF SendToSlack, SlackFails, AlerterRestarts
  <2>2. alertFailures' \in 0 .. MaxAlertFailures
    BY <1>4 DEF SendToSlack, SlackFails, AlerterRestarts
  <2>3. lastSentAlert' \in 0 .. alertClock /\ lastNotice' \in 0 .. alertClock
    BY <1>4 DEF SendToSlack, SlackFails, AlerterRestarts
  <2>4. UNCHANGED <<alertClock, pushed, alerts, held>>
    BY <1>4 DEF SendToSlack, SlackFails, AlerterRestarts
  <2> QED
    BY <2>1, <2>2, <2>3, <2>4
<1>5. CASE UNCHANGED alerterVars
  BY <1>5 DEF alerterVars
<1> QED
  BY <1>1, <1>2, <1>4, <1>5 DEF AlerterNext

\* The types of the alerter: no more alerts are in the list than were pushed,
\* for any window, times, alerts and failures.
THEOREM AlerterTypeCorrect == AlerterSpec => []AlerterTypeOK
<1>1. AlerterInit => AlerterTypeOK
  BY AlertsAssumption DEF AlerterInit, AlerterTypeOK, AlertTimes
<1> QED
  BY <1>1, AlerterStepType, PTL DEF AlerterSpec

\* Every step keeps the types of the clear cacher.
LEMMA ClearStepType ==
  ASSUME ClearTypeOK, [ClearNext]_clearVars
  PROVE  ClearTypeOK'
<1> USE ClearAssumption DEF ClearTypeOK, ClearTimes, clearHistory, ClearUnchanged
<1>1. CASE ClearTick \/ RenewConfig
  BY <1>1 DEF ClearTick, RenewConfig
<1>2. CASE RequestClear
  <2>1. sameSecond' \in BOOLEAN
    BY <1>2 DEF RequestClear
  <2> QED
    BY <1>2, <2>1 DEF RequestClear
<1>3. CASE ListPods \/ ExecRm \/ StoreLastClear
  BY <1>3 DEF ListPods, ExecRm, StoreLastClear, TimeOfClear
<1>4. CASE \E p \in podsTodo : CheckPod(p)
  BY <1>4 DEF CheckPod
<1>5. CASE ClearFails
  BY <1>5 DEF ClearFails
<1>6. CASE UNCHANGED clearVars
  BY <1>6 DEF clearVars
<1> QED
  BY <1>1, <1>2, <1>3, <1>4, <1>5, <1>6 DEF ClearNext, ClearDaemon

\* The types of the clear cacher, for any pods, times and failures.
THEOREM ClearTypeCorrect == ClearSpec => []ClearTypeOK
<1>1. ClearInit => ClearTypeOK
  <2> SUFFICES ASSUME ClearInit PROVE ClearTypeOK
    OBVIOUS
  <2>1. 0 \in ClearTimes /\ 1 \in ClearTimes /\ 0 \in 0 .. MaxClearFailures
    BY ClearAssumption DEF ClearTimes
  <2> QED
    BY <2>1 DEF ClearInit, ClearTypeOK
<1> QED
  BY <1>1, ClearStepType, PTL DEF ClearSpec

\* Times are those of the past, and a pod is cleared that there is.
ClearInv ==
  /\ wantedClear <= clearClock /\ lastClear <= clearClock /\ clearedAt <= clearClock
  /\ clearPhase = "exec" => clearPod # {}
  /\ RequestIsDue

\* Every step keeps ClearInv: a request is later than the clear under way, or
\* that is noted, or is served by it.
LEMMA ClearInvStep ==
  ASSUME ClearTypeOK, ClearInv, [ClearNext]_clearVars
  PROVE  ClearInv'
<1> USE ClearAssumption DEF ClearTypeOK, ClearTimes, ClearInv, RequestIsDue, clearHistory, ClearUnchanged
<1>1. CASE ClearTick \/ RenewConfig
  BY <1>1 DEF ClearTick, RenewConfig
<1>2. CASE RequestClear
  <2>1. clearClock = lastClear \/ clearClock = clearedAt => sameSecond'
    BY <1>2 DEF RequestClear
  <2>2. wantedClear' = clearClock /\ UNCHANGED <<clearClock, lastClear, clearPhase, clearPod, clearedAt>>
    BY <1>2 DEF RequestClear
  <2> QED
    BY <2>1, <2>2
<1>3. CASE ListPods
  BY <1>3 DEF ListPods
<1>4. CASE \E p \in podsTodo : CheckPod(p)
  <2>1. /\ clearPhase = "list" /\ clearPhase' # "store"
        /\ clearedAt' \in {clearedAt, clearClock}
        /\ clearPhase' = "exec" => clearPod' # {}
        /\ UNCHANGED <<clearClock, wantedClear, lastClear, stalePods, sameSecond>>
    BY <1>4 DEF CheckPod
  <2> QED
    BY <2>1
<1>5. CASE ExecRm
  <2>1. /\ stalePods' = stalePods \ clearPod /\ clearPod # {} /\ clearPod \subseteq NginxPods
        /\ clearPhase' = "store"
        /\ UNCHANGED <<clearClock, wantedClear, lastClear, clearedAt>>
    BY <1>5 DEF ExecRm
  <2>2. stalePods' # NginxPods
    BY <2>1
  <2> QED
    BY <2>1, <2>2
<1>6. CASE StoreLastClear
  BY <1>6 DEF StoreLastClear, TimeOfClear
<1>7. CASE ClearFails
  BY <1>7 DEF ClearFails
<1>8. CASE UNCHANGED clearVars
  BY <1>8 DEF clearVars
<1> QED
  BY <1>1, <1>2, <1>3, <1>4, <1>5, <1>6, <1>7, <1>8 DEF ClearNext, ClearDaemon

\* A request that no pod was cleared for is not taken for served, for any pods,
\* times and failures, unless it came in the second of a clear
\* (clear_cache_node takes the time before the command).
THEOREM RequestIsDueHolds == ClearSpec => []RequestIsDue
<1>1. ClearInit => ClearInv
  BY DEF ClearInit, ClearInv, RequestIsDue
<1>2. ClearSpec => []ClearInv
  BY <1>1, ClearTypeCorrect, ClearInvStep, PTL DEF ClearSpec
<1>3. ClearInv => RequestIsDue
  BY DEF ClearInv
<1> QED
  BY <1>2, <1>3, PTL

-----------------------------------------------------------------------------
(* All of them *)

\* A step of the services is one of each of them, or leaves it as it is.
LEMMA StepOfEach ==
  ASSUME ServicesNext
  PROVE  /\ [NodesNext]_nodesVars /\ [NasNext]_nasVars /\ [StreamerNext]_streamerVars
         /\ [MetricsNext]_metricsVars /\ [ThrottlingNext]_throttlingVars
         /\ [CheckNext]_checkVars /\ [AlerterNext]_alerterVars /\ [CleanerNext]_cleanerVars
         /\ [ClearNext]_clearVars /\ [PoolNext]_poolVars
         /\ UNCHANGED studied
BY DEF ServicesNext, OthersRest

\* Together the services do what each of them may do alone: nothing that is
\* proved of one of them is lost where all of them are.
THEOREM ServicesImplementEach ==
  ServicesSpec =>
    /\ NodesSpec /\ NasSpec /\ StreamerSpec /\ MetricsSpec /\ ThrottlingSpec
    /\ CheckSpec /\ AlerterSpec /\ CleanerSpec /\ ClearSpec /\ PoolSpec
<1> DEFINE vars == <<nodesVars, nasVars, streamerVars, metricsVars, throttlingVars, checkVars,
                     alerterVars, cleanerVars, clearVars, poolVars, studied>>
<1>1. ServicesInit =>
        /\ NodesInit /\ NasInit /\ StreamerInit /\ MetricsInit /\ ThrottlingInit
        /\ CheckInit /\ AlerterInit /\ CleanerInit /\ ClearInit /\ PoolInit
  BY DEF ServicesInit
<1>2. [ServicesNext]_vars =>
        /\ [NodesNext]_nodesVars /\ [NasNext]_nasVars /\ [StreamerNext]_streamerVars
        /\ [MetricsNext]_metricsVars /\ [ThrottlingNext]_throttlingVars
        /\ [CheckNext]_checkVars /\ [AlerterNext]_alerterVars /\ [CleanerNext]_cleanerVars
        /\ [ClearNext]_clearVars /\ [PoolNext]_poolVars
  BY StepOfEach
<1> QED
  BY <1>1, <1>2, PTL
  DEF ServicesSpec, NodesSpec, NasSpec, StreamerSpec, MetricsSpec, ThrottlingSpec, CheckSpec,
      AlerterSpec, CleanerSpec, ClearSpec, PoolSpec

\* The types of all the services, in every behaviour of them together.
THEOREM ServicesTypeCorrect == ServicesSpec => []ServicesTypeOK
<1>1. ServicesInit => studied \in Components
  BY DEF ServicesInit
<1>2. studied \in Components /\ [ServicesNext]_<<nodesVars, nasVars, streamerVars, metricsVars,
        throttlingVars, checkVars, alerterVars, cleanerVars, clearVars, poolVars, studied>>
        => (studied \in Components)'
  BY StepOfEach
<1>3. ServicesSpec => [](studied \in Components)
  BY <1>1, <1>2, PTL DEF ServicesSpec
<1>4. PoolInv => PoolTypeOK
  BY DEF PoolInv
<1> QED
  BY <1>3, <1>4, ServicesImplementEach, NodesTypeCorrect, NasTypeCorrect, StreamerTypeCorrect,
     MetricsTypeCorrect, ThrottlingTypeCorrect, CheckTypeCorrect, AlerterTypeCorrect,
     CleanerTypeCorrect, ClearTypeCorrect, PoolInvariant, PTL
  DEF ServicesTypeOK

\* The safety properties of all the services, in every behaviour of them
\* together, whichever is at work: each
\* of their invariants, and that throttled hostnames and caches in use stay.
\* The sending limit is that of the metrics (updater.send_agg_metrics).
THEOREM ServicesSafe ==
  ASSUME SendLimit <= SampleLimit
  PROVE  ServicesSpec =>
           /\ [](DnsConsistent /\ IterationAchieves /\ HealthyWasReachable)
           /\ [](CountedBeforeGone /\ CountedOncePerFailure /\ SamplesAccountedFor)
           /\ [](AlertedInTime /\ HeldAlertsAnnounced)
           /\ [](MarkHasExpiry /\ CordonIsFound /\ RequestIsDue)
           /\ [](PoolBounded /\ PoolResult /\ PoolNotStuck)
           /\ ThrottleKept /\ UsedCacheKept
<1>1. ServicesSpec => [](DnsConsistent /\ IterationAchieves /\ HealthyWasReachable)
  BY ServicesImplementEach, DnsConsistentHolds, IterationAchievesHolds, HealthyWasReachableHolds, PTL
<1>2. MetricsSpec => []SamplesAccountedFor
  BY SamplesAccountedForHolds
<1>3. ServicesSpec => [](CountedBeforeGone /\ CountedOncePerFailure /\ SamplesAccountedFor)
  BY <1>2, ServicesImplementEach, CountedBeforeGoneHolds, CountedOncePerFailureHolds, PTL
<1>4. ServicesSpec => [](AlertedInTime /\ HeldAlertsAnnounced)
  BY ServicesImplementEach, AlertedInTimeHolds, HeldAlertsAnnouncedHolds, PTL
<1>5. ServicesSpec => [](MarkHasExpiry /\ CordonIsFound /\ RequestIsDue)
  BY ServicesImplementEach, MarkHasExpiryHolds, CordonIsFoundHolds, RequestIsDueHolds, PTL
<1>6. ServicesSpec => [](PoolBounded /\ PoolResult /\ PoolNotStuck)
  BY ServicesImplementEach, PoolBoundedHolds, PoolResultHolds, PoolNotStuckHolds, PTL
<1>7. ServicesSpec => ThrottleKept /\ UsedCacheKept
  BY ServicesImplementEach, ThrottleKeptHolds, UsedCacheKeptHolds, PTL
<1> QED
  BY <1>1, <1>3, <1>4, <1>5, <1>6, <1>7, PTL
=============================================================================
