SPECIFICATION FairSpec
CONSTANTS
  w1 = w1
  w2 = w2
  w3 = w3
  v1 = v1
  m1 = m1
  Executions = {w1, w2, v1}
  MaxRuns = 2
  mode <- MCmode
  limits <- MClimits
INVARIANTS TypeOK QueueMatchesPending CapacityAccounting WorkConserving
PROPERTIES NoResumeAfterDisable AdmittedInOrder EventuallyAdmitted
CHECK_DEADLOCK FALSE
