\* A device whose signed list loses the region it steers through.
CONSTANTS
  Endpoints = {"a", "b", "c"}
  None = none
  Priority <- Preferred
  Lists <- TheLists
  Seed <- TheSeed
  Strikes = 3
  Postures <- ThePostures
  FaultKinds = {}
  MaxFaults = 0
SPECIFICATION Spec
PROPERTY
  InsideBoundary
