SPECIFICATION FairSpec
CONSTANTS
  Requests = {r1, r2}
  Roles = {g1, g2}
  Trials = {t1}
  NoTrial = NoTrial
  Ops = {"initialize", "start", "abort", "status", "shutdown"}
  MaxClock = 0
  MaxStarts = 1
  MaxRestarts = 0
PROPERTIES
  EveryRequestEnds
CHECK_DEADLOCK FALSE
