SPECIFICATION FairLifecycleSpec
CONSTANTS
  w1 = w1
  w2 = w2
  Executions = {w1}
  MaxRuns = 2
  mode <- MCmode
  limits <- MClimitOne
  Responders = {}
  Waiters = {w1}
  Stoppable = {}
  resumeBy = {"timer"}
  quietStartup = TRUE
  ends = {"shutdown"}
  crashRecoveryMode = "extensive"
  MaxBoots = 2
PROPERTY ShutdownCompletes
CHECK_DEADLOCK FALSE
