\* One worker; a listed hostname, one below it, and one that is neither.
CONSTANTS
  w1 = w1
  w2 = w2
  h1 = h1
  h2 = h2
  h3 = h3
  Workers = {w1}
  Hostnames = {h1, h2, h3}
  Listed = {h1}
  Subdomains = {h2}
  Uncached = {}
  WorkerOf <- OneOwner
  ApiAnswers = {"valid", "error"}
  MaxErrorAttempts = 1
  MaxDeployAttempts = 0
  MaxParallel = 2
  MaxChecks = 2
  OrderKinds = {}
  MaxOrders = 1
  MaxCrashes = 0
SPECIFICATION Spec
INVARIANT FailedIsNotQueued
INVARIANT NotReadyTwice
PROPERTY ImplementsLifecycle
