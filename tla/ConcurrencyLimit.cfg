SPECIFICATION Spec
CONSTANTS
  w1 = w1
  w2 = w2
  w3 = w3
  v1 = v1
  m1 = m1
  Executions = {w1, w2, w3, m1}
  MaxRuns = 1
  mode <- MCmode
  limits <- MCproductionOnly
INVARIANT ConcurrencyLimit
CHECK_DEADLOCK FALSE
