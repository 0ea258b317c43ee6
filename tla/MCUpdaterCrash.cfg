\* Crashes and failed saves, with the service and an operator at work.
CONSTANTS
  Versions = {1, 2}
  MaxAttempts = 2
  DefaultMaxAttempts = 2
  ReportMaxAttempts = 2
  Procs = {svc, op}
  NoProc = none
  InitialVersion = 1
  FailOpen = TRUE
  SlowStage = TRUE
  Requests = {"tick", "rollback"}
  FaultKinds = {"crash", "save"}
  MaxFaults = 3
  MaxSeq = 3
SPECIFICATION Spec
SYMMETRY Symmetric
INVARIANTS
  TypeOK
  OneInstaller
  LossesAreCounted
PROPERTIES
  PoisonIsPermanent
  PoisonedIsNotInstalled
  OnlyLateIsWrittenOff
