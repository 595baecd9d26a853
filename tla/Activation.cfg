SPECIFICATION ActivationSpec
CONSTANTS
  Mains = {m1, m2}
  NoMain = NoMain
  GoneMain = GoneMain
  Setups = {TRUE, FALSE}
  MaxEdits = 2
  MaxFaults = 2
INVARIANTS ActivationTypeOK TriggersFollowLeader
PROPERTIES ActiveIsRun LeadershipSettles
CHECK_DEADLOCK FALSE
