\* One worker and its hostname; any answer of the API; a routine order, throttling or cleaning; a restart.
CONSTANTS
  w1 = w1
  w2 = w2
  h1 = h1
  h2 = h2
  h3 = h3
  Workers = {w1}
  Hostnames = {h1}
  Listed = {h1}
  Subdomains = {}
  Uncached = {}
  WorkerOf <- OneOwner
  ApiAnswers = {"valid", "gateway", "elsewhere", "error"}
  MaxErrorAttempts = 2
  MaxDeployAttempts = 1
  MaxParallel = 2
  MaxChecks = 2
  OrderKinds = {"routine_update", "routine_delete", "throttle", "clean"}
  MaxOrders = 1
  MaxCrashes = 1
SPECIFICATION Spec
INVARIANT ErrorAttemptsBounded
PROPERTY DataDeletedOnlyIfOrdered
