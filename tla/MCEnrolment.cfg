\* Two Edges, races, lost answers, failed saves and restarts.
CONSTANTS
  Ids = {d1}
  Edges = {e1, e2}
  Tokens = {t1, t2, t3}
  Requests = {r1, r2}
  None = none
  FaultKinds = {"spend", "sign", "claim", "save", "release", "post", "queue", "rewrite", "crash", "late"}
  MaxFaults = 1
  MaxPermits = 1
SPECIFICATION Spec
SYMMETRY Symmetric
INVARIANTS
  OneCertificatePerToken
  OneCertificatePerGrant
PROPERTIES
  OneTime
  OffStaysOff
