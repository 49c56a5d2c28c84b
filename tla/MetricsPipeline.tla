-------------------------- MODULE MetricsPipeline --------------------------
(***************************************************************************)
(* The metrics of one worker on their way to CWM: the metrics updater      *)
(* (metrics_updater.py) takes the aggregated metrics out of Redis, queries *)
(* for another sample and puts them back, while a subprocess of the        *)
(* updater (updater.send_agg_metrics) reads them and sends the oldest.     *)
(* A sample is known by the time it was taken at.                          *)
(***************************************************************************)
EXTENDS Naturals, Sequences, FiniteSets

CONSTANTS
  UpdateInterval,  \* update_interval_seconds
  SampleLimit,     \* the limit of update_agg_metrics
  SendInterval,    \* the seconds between two sends
  SendLimit,       \* how many measurements are sent
  MaxMetricsClock  \* bound on the time

ASSUME MetricsAssumption ==
  /\ UpdateInterval \in Nat \ {0} /\ SendInterval \in Nat
  /\ SampleLimit \in Nat \ {0} /\ SendLimit \in Nat \ {0}
  /\ MaxMetricsClock \in Nat \ {0}

VARIABLES
  metricsClock,
  aggMetrics,     \* worker:aggregated-metrics, without samples when it is ''
  metricsPhase,   \* where in update_release_metrics the metrics updater is
  takenMetrics,   \* agg_metrics there
  lastSentAt,     \* worker:aggregated-metrics:last-sent-update: when it was
  lastSentUpdate, \* and the last update that was sent, both 0 without one
  senderPhase,    \* where in send_agg_metrics the updater is
  sending,        \* the samples it read
  samples,        \* history: samples taken
  sent,           \* history: samples CWM received
  lost,           \* history: samples lost by a failure
  skipped,        \* history: samples dropped for want of a send, see TakeSample
  reported        \* history: the last sample of the last send

metricsKeys == <<aggMetrics, lastSentAt, lastSentUpdate>>
metricsHistory == <<samples, sent, lost, skipped, reported>>
metricsVars == <<metricsClock, metricsKeys, metricsPhase, takenMetrics, senderPhase, sending,
                 metricsHistory>>

Times == 0 .. MaxMetricsClock

MetricsTypeOK ==
  /\ metricsClock \in Times
  /\ aggMetrics \in Seq(Times) /\ takenMetrics \in Seq(Times) /\ sending \in Seq(Times)
  /\ metricsPhase \in {"idle", "taken", "put"}
  /\ senderPhase \in {"idle", "send", "sent"}
  /\ lastSentAt \in Times /\ lastSentUpdate \in Times /\ reported \in Times
  /\ samples \subseteq Times /\ sent \subseteq Times /\ lost \subseteq Times
  /\ skipped \subseteq Times

MetricsInit ==
  /\ metricsClock = 1
  /\ aggMetrics = <<>> /\ takenMetrics = <<>> /\ sending = <<>>
  /\ metricsPhase = "idle" /\ senderPhase = "idle"
  /\ lastSentAt = 0 /\ lastSentUpdate = 0 /\ reported = 0
  /\ samples = {} /\ sent = {} /\ lost = {} /\ skipped = {}

MetricsTick ==
  /\ metricsClock < MaxMetricsClock
  /\ metricsClock' = metricsClock + 1
  /\ UNCHANGED <<metricsKeys, metricsPhase, takenMetrics, senderPhase, sending, metricsHistory>>

LastOf(s) == s[Len(s)]
TimesOf(s) == {s[i] : i \in 1 .. Len(s)}

-----------------------------------------------------------------------------
(* The metrics updater *)

TakeMetrics ==
  /\ metricsPhase = "idle"
  /\ metricsPhase' = "taken"
  /\ takenMetrics' = aggMetrics
  /\ aggMetrics' = <<>>
  /\ UNCHANGED <<metricsClock, lastSentAt, lastSentUpdate, senderPhase, sending, metricsHistory>>

\* update_agg_metrics: over the limit, the oldest sample goes.
AppendSample(metrics) ==
  LET longer == Append(metrics, metricsClock)
  IN  IF Len(longer) > SampleLimit THEN Tail(longer) ELSE longer

\* A sample is dropped after as many were taken since the last that was sent
\* as a send takes: it was never among the oldest when the metrics were sent.
TakeSample ==
  /\ metricsPhase = "taken"
  /\ metricsPhase' = "put"
  /\ IF takenMetrics = <<>> \/ metricsClock >= LastOf(takenMetrics) + UpdateInterval
     THEN /\ takenMetrics' = AppendSample(takenMetrics)
          /\ samples' = samples \union {metricsClock}
          /\ skipped' = IF Len(takenMetrics) = SampleLimit
                           /\ Cardinality({s \in samples : s > reported}) >= SendLimit
                        THEN skipped \union ({takenMetrics[1]} \ sent)
                        ELSE skipped
     ELSE UNCHANGED <<takenMetrics, samples, skipped>>
  /\ UNCHANGED <<metricsClock, metricsKeys, senderPhase, sending, sent, lost, reported>>

PutMetrics ==
  /\ metricsPhase = "put"
  /\ metricsPhase' = "idle"
  /\ aggMetrics' = takenMetrics
  /\ takenMetrics' = <<>>
  /\ UNCHANGED <<metricsClock, lastSentAt, lastSentUpdate, senderPhase, sending, metricsHistory>>

\* A query raises, which is caught, or the pod dies: what was taken is lost.
MetricsFail ==
  /\ metricsPhase # "idle"
  /\ metricsPhase' = "idle"
  /\ takenMetrics' = <<>>
  /\ lost' = lost \union (TimesOf(takenMetrics) \ sent)
  /\ UNCHANGED <<metricsClock, metricsKeys, senderPhase, sending, samples, sent, skipped, reported>>

-----------------------------------------------------------------------------
(* The updater *)

\* Not within SendInterval of the last send, and not the same metrics again.
IsSendDue ==
  /\ lastSentAt = 0 \/ metricsClock >= lastSentAt + SendInterval
  /\ lastSentUpdate # LastOf(aggMetrics)

ReadMetrics ==
  /\ senderPhase = "idle"
  /\ aggMetrics # <<>>
  /\ IsSendDue
  /\ senderPhase' = "send"
  /\ sending' = aggMetrics
  /\ UNCHANGED <<metricsClock, metricsKeys, metricsPhase, takenMetrics, metricsHistory>>

\* The measurements CWM is sent, with a mistake: the newest ones.
NewestMeasurements(metrics) ==
  SubSeq(metrics, IF Len(metrics) > SendLimit THEN Len(metrics) - SendLimit + 1 ELSE 1, Len(metrics))

\* get_measurements: the oldest ones.
Measurements(metrics) == SubSeq(metrics, 1, IF Len(metrics) < SendLimit THEN Len(metrics) ELSE SendLimit)

SendMetrics ==
  /\ senderPhase = "send"
  /\ senderPhase' = "sent"
  /\ sent' = sent \union TimesOf(Measurements(sending))
  /\ reported' = LastOf(sending)
  /\ UNCHANGED <<metricsClock, metricsKeys, metricsPhase, takenMetrics, sending, samples, lost,
                 skipped>>

StoreLastSent ==
  /\ senderPhase = "sent"
  /\ senderPhase' = "idle"
  /\ lastSentAt' = metricsClock
  /\ lastSentUpdate' = LastOf(sending)
  /\ sending' = <<>>
  /\ UNCHANGED <<metricsClock, aggMetrics, metricsPhase, takenMetrics, metricsHistory>>

\* The call raises, which is caught, or the pod dies: with what CWM received
\* not recorded, it is sent again.
SendFails ==
  /\ senderPhase # "idle"
  /\ senderPhase' = "idle"
  /\ sending' = <<>>
  /\ UNCHANGED <<metricsClock, metricsKeys, metricsPhase, takenMetrics, metricsHistory>>

MetricsUpdaterStep == TakeMetrics \/ TakeSample \/ PutMetrics \/ MetricsFail

SenderStep == ReadMetrics \/ SendMetrics \/ StoreLastSent \/ SendFails

MetricsNext == MetricsTick \/ MetricsUpdaterStep \/ SenderStep

MetricsSpec == MetricsInit /\ [][MetricsNext]_metricsVars

-----------------------------------------------------------------------------
(* Properties *)

\* Every sample is on its way, was sent, or is one of the exceptions: taken
\* out of Redis when a query failed, or pushed out of the list while no send
\* came through for SendLimit samples.  The metrics are out of Redis while
\* the next sample is taken, the updater sends what it read some time before,
\* and it sends only the oldest half.
SamplesAccountedFor ==
  samples \subseteq TimesOf(aggMetrics) \union TimesOf(takenMetrics)
                      \union sent \union lost \union skipped
=============================================================================
