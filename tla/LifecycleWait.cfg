SPECIFICATION FairLifecycleSpec
CONSTANTS
  w1 = w1
  w2 = w2
  Executions = {w1, w2}
  MaxRuns = 3
  mode <- MCmode
  limits <- MClimitOne
  Responders = {w1}
  Waiters = {w1}
  Stoppable = {}
  resumeBy = {"timer", "webhook"}
  quietStartup = TRUE
  ends = {}
  crashRecoveryMode = "extensive"
  MaxBoots = 1
INVARIANT NoCapacityLeak
PROPERTIES WaitingIsResumed ImplementsConcurrencyControl
CHECK_DEADLOCK FALSE
