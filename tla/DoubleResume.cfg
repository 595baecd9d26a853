SPECIFICATION LifecycleSpec
CONSTANTS
  w1 = w1
  w2 = w2
  Executions = {w1}
  MaxRuns = 3
  mode <- MCmode
  limits <- MClimitTwo
  Responders = {}
  Waiters = {w1}
  Stoppable = {}
  resumeBy = {"timer"}
  quietStartup = TRUE
  ends = {}
  crashRecoveryMode = "extensive"
  MaxBoots = 1
INVARIANT OneEngine
CHECK_DEADLOCK FALSE
