SPECIFICATION Spec
CONSTANTS
  Calls = {c1, c2}
  Shutdowns = {s1}
  NoCall = NoCall
  NumRoles = 1
  MaxAttempts = 2
  HealthAttempts = 2
INVARIANTS
  TypeOK
  ReleaseStands
  DeployedMeansReady
  BrokerRuns
PROPERTIES
  RemovalIsAnnounced
CHECK_DEADLOCK FALSE
