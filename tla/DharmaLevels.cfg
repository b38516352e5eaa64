SPECIFICATION FairHistorySpec
CONSTANTS
  SmoothWin = 4
  WarnEnter = 55
  WarnExit = 45
  WarnDwell = 3
  CritEnter = 80
  CritExit = 70
  CritDwell = 8
  CritExitDwell = 5
  EscalateEpochs = 20
  Shares = {44, 60, 100}
  PassLimit = 2
INVARIANTS
  SeverityIsEarned
PROPERTIES
  PassIsTaken
  SteadyLoadSettles
  LoadDecides
  CarryOverIsBounded
