SPECIFICATION FairSpec
CONSTANTS
  NSpares = 3
  RecoveryBase = 10
  Beats = 2
  CounterBound = 3
  RepeatDeadlock = FALSE
  MissLimit = 2
  PassBound = 2
  TcbEnforced = FALSE
  MayRefuse = {}
  MaxRestarts = 3
  WaitPolls = 2
  Severities = {0, 2}
INVARIANTS
  BootPrecedesRecovery
  RequestEndsWithAttempt
  AckIsGenuine
PROPERTIES
  StallIsDetected
  AttemptEnds
