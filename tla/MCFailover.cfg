\* Three endpoints, shrinking and growing lists, every posture.
CONSTANTS
  Endpoints = {"a", "b", "c"}
  None = none
  Priority <- Preferred
  Lists <- TheLists
  Seed <- TheSeed
  Strikes = 3
  Postures <- ThePostures
  FaultKinds = {"switch", "rearm", "restart"}
  MaxFaults = 2
SPECIFICATION FairSpec
INVARIANTS
  HoldIsBounded
  DisarmedIsRetried
PROPERTIES
  ChoiceIsRight
  SteersAgain
