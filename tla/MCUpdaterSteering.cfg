\* Everything that can go wrong, slow downloads included: what becomes of steering.
CONSTANTS
  Versions = {1, 2}
  MaxAttempts = 2
  DefaultMaxAttempts = 2
  ReportMaxAttempts = 2
  Procs = {svc, op}
  NoProc = none
  InitialVersion = 1
  FailOpen = TRUE
  SlowStage = TRUE
  Requests = {"tick", "rollback"}
  FaultKinds = {"crash", "save", "outbox", "disarm", "execute", "rearm", "abort", "agent"}
  MaxFaults = 2
  MaxSeq = 2
SPECIFICATION Spec
SYMMETRY Symmetric
INVARIANTS
  SteeringIsRestored
  SteeringLossIsOnRecord
PROPERTIES
  RollbackBlamesNobody
