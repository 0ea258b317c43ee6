\* The service alone, on a device that is not disarmed; as many faults as it takes to
\* refuse an append until the report is quarantined, and again.
SPECIFICATION FairSpec
CONSTANTS
  Versions = {1, 2}
  MaxAttempts = 2
  DefaultMaxAttempts = 2
  ReportMaxAttempts = 2
  Procs = {svc}
  NoProc = none
  InitialVersion = 1
  FailOpen = FALSE
  SlowStage = FALSE
  Requests = {"tick"}
  FaultKinds = {"crash", "save", "outbox", "execute", "abort", "agent"}
  MaxFaults = 4
  MaxSeq = 3
INVARIANTS LossesAreCounted OneReportPerOutcome FailuresAreBounded
PROPERTIES EveryOutcomeIsSettled OpenAttemptIsClosed
