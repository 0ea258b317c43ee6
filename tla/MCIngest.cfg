\* Three events and two handlers over a table of one receipt, with either store.
SPECIFICATION Spec
CONSTANTS
  Keys = {e1, e2, e3}
  Requests = {h1, h2}
  None = none
  Backends = {"memory", "postgres"}
  MaxSeen = 1
  FaultKinds = {"timeout", "audit", "telemetry", "domain", "rotate", "restart"}
  MaxFaults = 2
  MaxDrops = 1
SYMMETRY Symmetric
CHECK_DEADLOCK FALSE
INVARIANTS WriterHoldsReceipt NoOrphanedReceipt ReceiptsAreBounded AuditedOnce 
PROPERTY PromiseKept
