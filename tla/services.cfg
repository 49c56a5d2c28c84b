\* The daemons beside the deployment flow, one at work in each behaviour.
CONSTANTS
  n1 = n1
  n2 = n2
  Nodes = {n1, n2}
  Ips = {1, 2}
  MaxNodeChanges = 2
  MaxNodeFailures = 1
  NasNodes = {n1, n2}
  NasIps = {"nas"}
  WithKubeletLogs = TRUE
  MaxNasChanges = 1
  MaxNasFailures = 2
  Namespaces = {"a", "b"}
  MaxMessages = 2
  MaxStreamerFailures = 2
  UpdateInterval = 1
  SampleLimit = 2
  SendInterval = 2
  SendLimit = 1
  MaxMetricsClock = 4
  ListedHostnames = {"h1"}
  OtherHostnames = {"h2"}
  ThrottleAnswers = {"valid", "error"}
  MaxThrottles = 2
  MaxThrottlerCrashes = 1
  LastingConditions = {"pending", "terminating"}
  Healths = {{}, {"pending"}, {"pending", "terminating"}}
  AlertAfter <- AlertDelays
  MaxHealthItems = 3
  MaxCheckClock = 3
  MaxCheckFailures = 1
  AlertWindow = 2
  MaxAlertClock = 5
  MaxAlerts = 4
  MaxAlertFailures = 1
  MaxPodMoves = 3
  MaxCleanerFailures = 2
  NginxPods = {"p1", "p2"}
  MaxClearClock = 4
  MaxClearFailures = 1
  Tasks = {"t1", "t2", "t3"}
  Outputs = {0, 1, 2}
  PipeCapacity = 1
  MaxProcesses = 2
SPECIFICATION ServicesSpec
INVARIANT ServicesTypeOK
INVARIANT DnsConsistent
INVARIANT IterationAchieves
INVARIANT HealthyWasReachable
INVARIANT CountedBeforeGone
INVARIANT CountedOncePerFailure
INVARIANT SamplesAccountedFor
INVARIANT AlertedInTime
INVARIANT HeldAlertsAnnounced
INVARIANT MarkHasExpiry
INVARIANT CordonIsFound
INVARIANT RequestIsDue
INVARIANT PoolBounded
INVARIANT PoolResult
INVARIANT PoolNotStuck
PROPERTY NodesConverge
PROPERTY HealthComesTrue
PROPERTY RequestsCounted
PROPERTY ThrottleEnds
 
PROPERTY UsedCacheKept
PROPERTY NodeUncordoned
PROPERTY ClearRequestServed
PROPERTY PoolEnds
\* The cleaner has nothing to do on a node left cordoned.
CHECK_DEADLOCK FALSE
