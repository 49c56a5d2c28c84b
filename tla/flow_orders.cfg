\* One worker and its hostname; the API always answers; any two orders, throttlings or cleanings.
CONSTANTS
  w1 = w1
  w2 = w2
  h1 = h1
  h2 = h2
  h3 = h3
  Workers = {w1}
  Hostnames = {h1}
  Listed = {h1}
  Subdomains = {}
  Uncached = {}
  WorkerOf <- OneOwner
  ApiAnswers = {"valid"}
  MaxErrorAttempts = 2
  MaxDeployAttempts = 1
  MaxParallel = 2
  MaxChecks = 2
  OrderKinds = {"delete", "routine_delete", "routine_update", "throttle", "clean"}
  MaxOrders = 2
  MaxCrashes = 0
SPECIFICATION Spec
INVARIANT TypeOK
INVARIANT FailedIsNotAvailable
PROPERTY DeletionTakesHostnamesDown
PROPERTY DataDeletedOnlyIfOrdered
