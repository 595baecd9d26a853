SPECIFICATION LifecycleSpec
CONSTANTS
  w1 = w1
  w2 = w2
  Executions = {w1}
  MaxRuns = 2
  mode <- MCmode
  limits <- MClimitTwo
  Responders = {}
  Waiters = {}
  Stoppable = {}
  resumeBy = {}
  quietStartup = FALSE
  ends = {}
  crashRecoveryMode = "extensive"
  MaxBoots = 1
INVARIANT OneEngine
CHECK_DEADLOCK FALSE
