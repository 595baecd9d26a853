SPECIFICATION LifecycleSpec
CONSTANTS
  w1 = w1
  w2 = w2
  Executions = {w1}
  MaxRuns = 2
  mode <- MCmode
  limits <- MClimitOne
  Responders = {}
  Waiters = {w1}
  Stoppable = {w1}
  resumeBy = {"timer"}
  quietStartup = TRUE
  ends = {}
  crashRecoveryMode = "extensive"
  MaxBoots = 1
INVARIANT NoCapacityLeak
CHECK_DEADLOCK FALSE
