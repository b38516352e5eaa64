SPECIFICATION FairSupervisionSpec
CONSTANTS
  NSpares = 2
  RecoveryBase = 10
  Beats = 2
  CounterBound = 2
  RepeatDeadlock = TRUE
  MissLimit = 2
  PassBound = 3
  TcbEnforced = TRUE
  MayRefuse = {}
  MaxRestarts = 2
  WaitPolls = 1
  Severities = {0, 1, 2}
  SmoothWin = 1
  WarnEnter = 55
  WarnExit = 45
  WarnDwell = 1
  CritEnter = 80
  CritExit = 70
  CritDwell = 2
  CritExitDwell = 1
  EscalateEpochs = 1
  Shares = {0, 100}
INVARIANTS
  OneLateRestart
  StaleEscalationIsBrief
PROPERTIES
  StallIsResolved
  ImplementsLoop
