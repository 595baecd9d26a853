SPECIFICATION EngineSpec
CONSTANTS
  partialState <- runPartialWorkflow2
  Workflows <- Overfull
  maxTries = 2
  MaxRestarts = 0
  MaxIterations = 0
INVARIANT NothingLost
CHECK_DEADLOCK FALSE
