\* One listed hostname and one below it; the API may fail.
CONSTANTS
  ListedHostnames = {"h1"}
  OtherHostnames = {"h2"}
  ThrottleAnswers = {"valid", "error"}
  MaxThrottles = 2
  MaxThrottlerCrashes = 1
SPECIFICATION ThrottlingFairSpec
PROPERTY ThrottleAlwaysEnds
