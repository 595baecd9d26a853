SPECIFICATION BrokerSpec
CONSTANTS
  q1 = q1
  q2 = q2
  r1 = r1
  r2 = r2
  NoRequest = NoRequest
  Requests = {q1, q2}
  Runners = {r1, r2}
  Launchers = {}
  Mortal = {r1}
  maxConcurrency = 1
  MaxIds = 2
  runnersMode = "external"
  MaxDelays = 1
SYMMETRY RequestSymmetry
INVARIANTS BrokerTypeOK RunnerCapacity OneAcceptPerRequest ExecutedOnce SettingsExpected NoOrphanedRequest
CHECK_DEADLOCK FALSE
