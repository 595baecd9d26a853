SPECIFICATION FairLifecycleSpec
CONSTANTS
  w1 = w1
  w2 = w2
  Executions = {w1}
  MaxRuns = 3
  mode <- MCmode
  limits <- MClimitOne
  Responders = {}
  Waiters = {w1}
  Stoppable = {}
  resumeBy = {"timer"}
  quietStartup = TRUE
  ends = {"crash", "shutdown", "force"}
  crashRecoveryMode = "extensive"
  MaxBoots = 2
PROPERTY WaitingIsResumed
CHECK_DEADLOCK FALSE
