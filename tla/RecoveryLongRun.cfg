\* A cooperative build whose worker beats past RecoveryBase.
SPECIFICATION Spec
CONSTANTS
  NSpares = 3
  RecoveryBase = 4
  Beats = 2
  CounterBound = 5
  RepeatDeadlock = FALSE
  MissLimit = 2
  PassBound = 2
  TcbEnforced = FALSE
  MayRefuse = {}
  MaxRestarts = 3
  WaitPolls = 2
  Severities = {0}
INVARIANT PassProvesRespawn
