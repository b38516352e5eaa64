SPECIFICATION Spec
CONSTANTS
  NSpares = 3
  RecoveryBase = 10
  Beats = 2
  CounterBound = 2
  RepeatDeadlock = FALSE
  MissLimit = 2
  PassBound = 2
  TcbEnforced = TRUE
  MayRefuse = {"suspend", "configure", "setPriority", "writeRegisters", "resume"}
  MaxRestarts = 3
  WaitPolls = 2
  Severities = {0}
INVARIANTS
  TypeOK
  ActiveServes
  PassProvesRespawn
PROPERTIES
  SignalFollowsKill
  ImplementsFailover
