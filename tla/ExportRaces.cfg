SPECIFICATION FairSpec
CONSTANTS
  Requests = {r1, r2}
  NumItems = 2
  Times = {t1}
  NoTime = NoTime
INVARIANTS
  TypeOK
  OneAuthor
  AccountedFor
  TempDirBelongs
PROPERTIES
  WindowStands
  MetricsExportEnds
CHECK_DEADLOCK FALSE
