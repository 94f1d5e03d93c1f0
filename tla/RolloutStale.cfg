SPECIFICATION Spec
CONSTANTS
  Deployments = {d1}
  StatefulSets = {}
  ScaleToZero = {}
  Timeout = 2
  PollInterval = 1
  RetryLimit = 1
  RetryDelay = 1
  CallTime = 1
INVARIANT SuccessIsCurrent
CHECK_DEADLOCK FALSE
