SPECIFICATION TimedSpec
CONSTANTS
  NSpares = 3
  RecoveryBase = 1000000
  Beats = 5
  CounterBound = 5
  RepeatDeadlock = TRUE
  MissLimit = 50
  PassBound = 4
  TcbEnforced = TRUE
  MayRefuse = {}
  MaxRestarts = 3
  WaitPolls = 2000
  Severities = {0}
  BeatDelay = 20
  StallDelay = 2
  WatchDelay = 2
  PollDelay = 1
  BackoffDelay = 4
  Slices = {4, 10}
  SliceMin = 4
  SliceMax = 10
INVARIANTS
  NoMissedReport
PROPERTIES
  ThreePassesThenQuarantine
