SPECIFICATION EngineSpec
CONSTANTS
  partialState <- runPartialWorkflow2
  Workflows <- DisabledBetween
  maxTries = 2
  MaxRestarts = 1
  MaxIterations = 0
INVARIANT OnlyParallelSkipped
CHECK_DEADLOCK FALSE
