SPECIFICATION FairScalingSpec
CONSTANTS
  e1 = e1
  e2 = e2
  w1 = w1
  w2 = w2
  Executions = {e1}
  Workers = {w1, w2}
  concurrency = 1
  maxStalledCount = 1
  Stoppable = {e1}
  MaxFaults = 2
PROPERTY SuccessNeverReplaced
CHECK_DEADLOCK FALSE
