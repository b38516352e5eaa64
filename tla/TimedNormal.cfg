SPECIFICATION TimedSpec
CONSTANTS
  NSpares = 3
  RecoveryBase = 1000000
  Beats = 5
  CounterBound = 5
  RepeatDeadlock = FALSE
  MissLimit = 50
  PassBound = 4
  TcbEnforced = TRUE
  MayRefuse = {"suspend"}
  MaxRestarts = 3
  WaitPolls = 2000
  Severities = {0}
  BeatDelay = 20
  StallDelay = 2
  WatchDelay = 2
  PollDelay = 1
  BackoffDelay = 4
  Slices = {10, 20}
  SliceMin = 10
  SliceMax = 20
INVARIANTS
  NoFalseAlarm
  NoSecondRestart
PROPERTIES
  NormalPassReached
  WorkerRevives
