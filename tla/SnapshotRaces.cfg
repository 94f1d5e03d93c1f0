SPECIFICATION FairSpec
CONSTANTS
  Requests = {r1, r2}
  Required = {metadata, resources}
  Optional = {vpa}
  MaxAttempts = 2
INVARIANTS
  TypeOK
  FlagIsLock
  SumsNeverAhead
  ConfirmedMeansStored
PROPERTIES
  ImplementsBundle
  UploadsRelease
CHECK_DEADLOCK FALSE
