\* Updater and sender on one directory, with everything that may go wrong.
SPECIFICATION Spec
CONSTANTS
  MaxStored = 2
  Refusals = {r1, r2}
  NoRefusal = none
  NoFile = nofile
  FaultKinds = {"append", "send", "answer", "remove", "crash", "marker", "retry", "timeout", "disk", "write", "list", "stuck", "rename", "unclaim"}
  CrashPoints <- Anywhere
  MaxFaults = 3
  MaxId = 4
SYMMETRY Symmetric
CHECK_DEADLOCK FALSE
INVARIANTS ArrivesInOrder NothingVanishes SuppressedWasQueued EachDropCountsOnce NoSilentGap
PROPERTY DirectoryIsBounded
