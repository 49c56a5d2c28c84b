\* Two workers, one without a cache; a daemon restarts.
CONSTANTS
  w1 = w1
  w2 = w2
  h1 = h1
  h2 = h2
  h3 = h3
  Workers = {w1, w2}
  Hostnames = {h1, h2}
  Listed = {h1, h2}
  Subdomains = {}
  Uncached = {w2}
  WorkerOf <- TwoOwners
  ApiAnswers = {"valid"}
  MaxErrorAttempts = 1
  MaxDeployAttempts = 1
  MaxParallel = 2
  MaxChecks = 2
  OrderKinds = {}
  MaxOrders = 1
  MaxCrashes = 1
SPECIFICATION Spec
INVARIANT DeployerExcludesWaiting
