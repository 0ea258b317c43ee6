\* A hand-over that fails, and a journal that cannot be saved for a while.
CONSTANTS
  Versions = {1, 2}
  MaxAttempts = 2
  DefaultMaxAttempts = 2
  ReportMaxAttempts = 2
  Procs = {svc}
  NoProc = none
  InitialVersion = 1
  FailOpen = TRUE
  SlowStage = FALSE
  Requests = {"tick"}
  FaultKinds = {"save", "execute"}
  MaxFaults = 4
  MaxSeq = 3
SPECIFICATION Spec
INVARIANT EdgeSeesOneEvent
