SPECIFICATION Spec
CONSTANTS
  NSpares = 3
  RecoveryBase = 10
  Beats = 2
  CounterBound = 2
  RepeatDeadlock = FALSE
  MissLimit = 2
  PassBound = 1
  TcbEnforced = TRUE
  MayRefuse = {"suspend", "retype", "configure", "writeRegisters", "resume"}
  MaxRestarts = 3
  WaitPolls = 2
INVARIANT OneWorkerRuns
PROPERTIES
  RebuiltIsOutOfReach
  OutageIsAnswered
