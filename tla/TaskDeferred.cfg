SPECIFICATION FairBrokerSpec
CONSTANTS
  q1 = q1
  q2 = q2
  r1 = r1
  r2 = r2
  NoRequest = NoRequest
  Requests = {q1, q2}
  Runners = {r1, r2}
  Launchers = {r2}
  Mortal = {}
  maxConcurrency = 1
  MaxIds = 3
  runnersMode = "external"
  MaxDelays = 1
INVARIANT LeftoverIsInert
PROPERTY RequestAnswered
CHECK_DEADLOCK FALSE
