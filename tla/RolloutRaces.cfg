SPECIFICATION FairSpec
CONSTANTS
  Deployments = {d1}
  StatefulSets = {s1}
  ScaleToZero = {d1}
  Timeout = 2
  PollInterval = 1
  RetryLimit = 1
  RetryDelay = 1
  CallTime = 1
INVARIANTS
  TypeOK
  SuccessWasConfirmed
  UnrecoverableWasTroubled
  RolloutIsNotOverslept
  OverrunBounded
  AnswerIsWarranted
PROPERTY EveryCallEnds
CHECK_DEADLOCK FALSE
