SPECIFICATION FairSpec
CONSTANTS
  WarnEnter = 55
  WarnExit = 45
  WarnDwell = 3
  CountBound = 3
INVARIANTS
  CountIsHonest
PROPERTY LoneWorkerDecides
