------------------------------ MODULE Alerter ------------------------------
(***************************************************************************)
(* The alerter daemon (alerter.py): it pops the alerts the daemons push    *)
(* (logs.alert) and sends one every AlertWindow seconds to Slack; for the  *)
(* others it sends, as seldom, a notice that there are too many.  What it  *)
(* sent when is known to the process only.                                 *)
(***************************************************************************)
EXTENDS Naturals

CONSTANTS
  AlertWindow,      \* 120 seconds
  MaxAlertClock,    \* bound on the time
  MaxAlerts,        \* bound on the alerts
  MaxAlertFailures  \* bound on failed calls to Slack and restarts

ASSUME AlertsAssumption ==
  /\ AlertWindow \in Nat \ {0}
  /\ MaxAlertClock \in Nat \ {0} /\ MaxAlerts \in Nat /\ MaxAlertFailures \in Nat

VARIABLES
  alertClock,
  pushed,        \* alerts so far
  alerts,        \* the length of the list in Redis
  lastSentAlert, \* last_sent_alert, 0 for None
  lastNotice,    \* last_sent_throttle_alert, 0 for None
  alerterPhase,  \* what the daemon is about to send
  alertFailures, \* failures so far
  held,          \* history: when alerts were popped and not sent
  alertsSeen,    \* history: when alerts were sent, or failed to be
  noticesSeen    \* history: when notices were

alerterVars == <<alertClock, pushed, alerts, lastSentAlert, lastNotice, alerterPhase,
                 alertFailures, held, alertsSeen, noticesSeen>>

AlertTimes == 1 .. MaxAlertClock

AlerterTypeOK ==
  /\ alertClock \in AlertTimes
  /\ pushed \in 0 .. MaxAlerts /\ alerts \in 0 .. pushed
  /\ lastSentAlert \in 0 .. alertClock /\ lastNotice \in 0 .. alertClock
  /\ alerterPhase \in {"pop", "alert", "notice"}
  /\ alertFailures \in 0 .. MaxAlertFailures
  /\ held \subseteq AlertTimes /\ alertsSeen \subseteq AlertTimes /\ noticesSeen \subseteq AlertTimes

AlerterInit ==
  /\ alertClock = 1
  /\ pushed = 0 /\ alerts = 0
  /\ lastSentAlert = 0 /\ lastNotice = 0
  /\ alerterPhase = "pop"
  /\ alertFailures = 0
  /\ held = {} /\ alertsSeen = {} /\ noticesSeen = {}

AlertTick ==
  /\ alertClock < MaxAlertClock
  /\ alertClock' = alertClock + 1
  /\ UNCHANGED <<pushed, alerts, lastSentAlert, lastNotice, alerterPhase, alertFailures, held,
                 alertsSeen, noticesSeen>>

\* logs.alert, in whichever daemon.
PushAlert ==
  /\ pushed < MaxAlerts
  /\ pushed' = pushed + 1
  /\ alerts' = alerts + 1
  /\ UNCHANGED <<alertClock, lastSentAlert, lastNotice, alerterPhase, alertFailures, held,
                 alertsSeen, noticesSeen>>

IsAlertDue(last) == last = 0 \/ alertClock >= last + AlertWindow

\* The next notice, with a mistake: it is due with the next alert.
NoticeDueWithAlert == IsAlertDue(lastSentAlert)

IsNoticeDue == IsAlertDue(lastNotice)

\* alerts_pop, and process_alert of SendAlertsThrottle: what is to be sent is
\* taken for sent before it is.
PopAlert ==
  /\ alerterPhase = "pop"
  /\ alerts > 0
  /\ alerts' = alerts - 1
  /\ IF IsAlertDue(lastSentAlert)
     THEN /\ lastSentAlert' = alertClock
          /\ alerterPhase' = "alert"
          /\ UNCHANGED <<lastNotice, held>>
     ELSE /\ held' = held \union {alertClock}
          /\ lastNotice' = IF IsNoticeDue THEN alertClock ELSE lastNotice
          /\ alerterPhase' = IF IsNoticeDue THEN "notice" ELSE "pop"
          /\ UNCHANGED lastSentAlert
  /\ UNCHANGED <<alertClock, pushed, alertFailures, alertsSeen, noticesSeen>>

\* The message is out, or is as good as lost.
MessageDone ==
  /\ alerterPhase # "pop"
  /\ alerterPhase' = "pop"
  /\ IF alerterPhase = "alert"
     THEN alertsSeen' = alertsSeen \union {alertClock} /\ UNCHANGED noticesSeen
     ELSE noticesSeen' = noticesSeen \union {alertClock} /\ UNCHANGED alertsSeen

SendToSlack ==
  /\ MessageDone
  /\ UNCHANGED <<alertClock, pushed, alerts, lastSentAlert, lastNotice, alertFailures, held>>

\* The call fails, which is caught, and the throttle stands.
SlackFails ==
  /\ alertFailures < MaxAlertFailures
  /\ alertFailures' = alertFailures + 1
  /\ MessageDone
  /\ UNCHANGED <<alertClock, pushed, alerts, lastSentAlert, lastNotice, held>>

\* The pod dies, and the throttle with it.
AlerterRestarts ==
  /\ alertFailures < MaxAlertFailures
  /\ alertFailures' = alertFailures + 1
  /\ lastSentAlert' = 0 /\ lastNotice' = 0
  /\ \/ MessageDone
     \/ alerterPhase = "pop" /\ UNCHANGED <<alerterPhase, alertsSeen, noticesSeen>>
  /\ UNCHANGED <<alertClock, pushed, alerts, held>>

AlerterNext == AlertTick \/ PushAlert \/ PopAlert \/ SendToSlack \/ SlackFails \/ AlerterRestarts

AlerterSpec == AlerterInit /\ [][AlerterNext]_alerterVars

-----------------------------------------------------------------------------
(* Properties *)

\* An alert is held back only in the wake of one that was sent, or failed to
\* be, less than AlertWindow before, and there is a notice of it: at most that
\* much older, or still to come.  So nothing is held back behind a reader of
\* Slack's back but for failures, restarts of the alerter in between included.
HeldAlertsAnnounced ==
  \A t \in held :
    /\ \E s \in alertsSeen : s <= t /\ t < s + AlertWindow
    /\ \/ \E s \in noticesSeen : t < s + AlertWindow
       \/ alerterPhase = "notice"
=============================================================================
