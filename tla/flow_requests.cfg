\* One worker and its hostname; an ordered update; liveness.
CONSTANTS
  w1 = w1
  w2 = w2
  h1 = h1
  h2 = h2
  h3 = h3
  Workers = {w1}
  Hostnames = {h1}
  Listed = {h1}
  Subdomains = {}
  Uncached = {}
  WorkerOf <- OneOwner
  ApiAnswers = {"valid"}
  MaxErrorAttempts = 2
  MaxDeployAttempts = 1
  MaxParallel = 2
  MaxChecks = 2
  OrderKinds = {"update"}
  MaxOrders = 1
  MaxCrashes = 0
SPECIFICATION ReadyClusterSpec
PROPERTY RequestAnswered
PROPERTY UpdatesConsumed
