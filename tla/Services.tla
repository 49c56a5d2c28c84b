------------------------------ MODULE Services ------------------------------
(***************************************************************************)
(* The daemons and helpers beside the deployment flow.  Each keeps keys,   *)
(* pods, files or topics of its own and takes no notice of the others, so  *)
(* what they do together is what each does alone: a behaviour studies one  *)
(* of them, from start to end, while the others rest.                      *)
(***************************************************************************)
EXTENDS NodesChecker, NasChecker, KafkaStreamer, MetricsPipeline, Throttling,
        WorkersChecker, Alerter, CacheCleaner, ClearCacher, Multiprocessor

VARIABLE studied  \* the component at work

Components ==
  {"nodes", "nas", "streamer", "metrics", "throttling", "check", "alerter", "cleaner",
   "clear", "pool"}

ServicesTypeOK ==
  /\ studied \in Components
  /\ NodesTypeOK /\ NasTypeOK /\ StreamerTypeOK /\ MetricsTypeOK /\ ThrottlingTypeOK
  /\ CheckTypeOK /\ AlerterTypeOK /\ CleanerTypeOK /\ ClearTypeOK /\ PoolTypeOK

-----------------------------------------------------------------------------
OthersRest ==
  /\ UNCHANGED studied
  /\ IF studied = "nodes" THEN TRUE ELSE UNCHANGED nodesVars
  /\ IF studied = "nas" THEN TRUE ELSE UNCHANGED nasVars
  /\ IF studied = "streamer" THEN TRUE ELSE UNCHANGED streamerVars
  /\ IF studied = "metrics" THEN TRUE ELSE UNCHANGED metricsVars
  /\ IF studied = "throttling" THEN TRUE ELSE UNCHANGED throttlingVars
  /\ IF studied = "check" THEN TRUE ELSE UNCHANGED checkVars
  /\ IF studied = "alerter" THEN TRUE ELSE UNCHANGED alerterVars
  /\ IF studied = "cleaner" THEN TRUE ELSE UNCHANGED cleanerVars
  /\ IF studied = "clear" THEN TRUE ELSE UNCHANGED clearVars
  /\ IF studied = "pool" THEN TRUE ELSE UNCHANGED poolVars

\* Those at rest are all in the same one of their initial states.
ServicesInit ==
  /\ studied \in Components
  /\ NodesInit /\ NasInit /\ StreamerInit /\ MetricsInit /\ ThrottlingInit
  /\ CheckInit /\ AlerterInit /\ CleanerInit /\ ClearInit /\ PoolInit
  /\ studied # "nodes" => nodeIp = [n \in Nodes |-> 0]
  /\ studied # "nas" => workerNodes = {} /\ reachable = {}
  /\ studied # "cleaner" => ~podOnNode /\ ~isOpen /\ ~cached

ServicesNext ==
  \/ studied = "nodes" /\ NodesNext /\ OthersRest
  \/ studied = "nas" /\ NasNext /\ OthersRest
  \/ studied = "streamer" /\ StreamerNext /\ OthersRest
  \/ studied = "metrics" /\ MetricsNext /\ OthersRest
  \/ studied = "throttling" /\ ThrottlingNext /\ OthersRest
  \/ studied = "check" /\ CheckNext /\ OthersRest
  \/ studied = "alerter" /\ AlerterNext /\ OthersRest
  \/ studied = "cleaner" /\ CleanerNext /\ OthersRest
  \/ studied = "clear" /\ ClearNext /\ OthersRest
  \/ studied = "pool" /\ PoolNext /\ OthersRest

\* The daemons loop for ever, and the processes they start run; a message that
\* is there is polled now and then, and time passes for a throttled worker.
ServicesFairness ==
  /\ WF_nodesVars(studied = "nodes" /\ NodesDaemon)
  /\ WF_nasVars(studied = "nas" /\ NasDaemon)
  /\ WF_streamerVars(studied = "streamer" /\ StreamerDaemon)
  /\ SF_streamerVars(studied = "streamer" /\ PollMessage)
  /\ WF_throttlingVars(studied = "throttling" /\ ThrottlerDaemon)
  /\ WF_throttlingVars(studied = "throttling" /\ ThrottleExpires)
  /\ WF_cleanerVars(studied = "cleaner" /\ CleanerDaemon)
  /\ WF_clearVars(studied = "clear" /\ ClearDaemon)
  /\ WF_clearVars(studied = "clear" /\ RenewConfig)
  /\ WF_poolVars(studied = "pool" /\ PoolDaemon)
  /\ \A t \in Tasks : WF_poolVars(studied = "pool" /\ ProcessStep(t))

ServicesSpec ==
  ServicesInit /\ [][ServicesNext]_<<nodesVars, nasVars, streamerVars, metricsVars, throttlingVars,
    checkVars, alerterVars, cleanerVars, clearVars, poolVars, studied>> /\ ServicesFairness
=============================================================================
