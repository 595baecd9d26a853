SPECIFICATION ActivationSpec
CONSTANTS
  Mains = {m1, m2}
  NoMain = NoMain
  GoneMain = GoneMain
  Setups = {TRUE, FALSE}
  MaxEdits = 2
  MaxFaults = 2
INVARIANT NotDuplicated
CHECK_DEADLOCK FALSE
