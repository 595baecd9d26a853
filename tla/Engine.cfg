SPECIFICATION EngineSpec
CONSTANTS
  partialState <- runPartialWorkflow2
  Workflows <- AllWorkflows
  maxTries = 2
  MaxRestarts = 2
  MaxIterations = 2
INVARIANTS EngineTypeOK SourceMatchesData NothingLost NothingReadyAtEnd MergeNotEarly DestinationIsRun
CHECK_DEADLOCK FALSE
