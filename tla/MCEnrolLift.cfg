\* One Edge; an identity enrols, is removed and let in again, twice.
CONSTANTS
  Ids = {d1}
  Edges = {e1}
  Tokens = {t1, t2, t3}
  Requests = {r1}
  None = none
  FaultKinds = {"spend", "sign", "claim", "save", "release", "post", "queue", "rewrite", "crash", "late"}
  MaxFaults = 0
  MaxPermits = 2
SPECIFICATION Spec
SYMMETRY Symmetric
PROPERTY PermissionBeatsClaim
