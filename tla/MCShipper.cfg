\* A queue of two and four records, of which up to three are refused for good.
SPECIFICATION FairSpec
CONSTANTS
  MaxPending = 2
  BadSets <- AnyOfThree
  FaultKinds = {"down", "denying", "answer", "disk", "crash", "stop"}
  MaxFaults = 2
  MaxRecords = 4
CHECK_DEADLOCK FALSE
INVARIANTS QueueIsOnDisk NothingVanishes OneAsidePerDelivery SpoolIsBounded
PROPERTY OneBadRecordBlocksNobody
