SPECIFICATION FairSpec
CONSTANTS
  Calls = {c1, c2}
  ControlPlane = cp
  Workers = {w1, w2}
  Nobody = nobody
  ReadinessTimeout = 3
  PollInterval = 1
  CriticalTimeout = 1
  CallTime = 1
  MaxAttempts = 2
INVARIANTS
  TypeOK
  OneInstallation
  NoReleaseClash
  ChartsOnReadyCluster
  CriticalWasNeverReady
  SteadyTroubleEndsPoll
  PollIsBounded
PROPERTY EveryPollEnds
CHECK_DEADLOCK FALSE
