SPECIFICATION FairSpec
CONSTANTS
  MaxStored = 2
  Refusals = {}
  NoRefusal = none
  NoFile = nofile
  FaultKinds = {"send", "crash", "damage", "timeout", "stuck"}
  CrashPoints <- Anywhere
  MaxFaults = 2
  MaxId = 3
CHECK_DEADLOCK FALSE
PROPERTY EveryReportSettles
