SPECIFICATION FairLifecycleSpec
CONSTANTS
  w1 = w1
  w2 = w2
  Executions = {w1, w2}
  MaxRuns = 2
  mode <- MCmode
  limits <- MClimitOne
  Responders = {w1}
  Waiters = {}
  Stoppable = {w1}
  resumeBy = {}
  quietStartup = TRUE
  ends = {"crash", "shutdown"}
  crashRecoveryMode = "simple"
  MaxBoots = 2
INVARIANTS LifecycleTypeOK NoCapacityLeak RunningIsLive
PROPERTIES EnqueuedIsRun ShutdownCompletes
CHECK_DEADLOCK FALSE
