SPECIFICATION FairSpec
CONSTANTS
  RingSize = 5
INVARIANTS
  RingHoldsTheBacklog
  PageIsAPrefix
  VerdictIsKept
PROPERTIES
  CallsReturn
  LogDrains
CHECK_DEADLOCK FALSE
