SPECIFICATION Spec
CONSTANTS
  Requests = {r1, r2}
  Roles = {g1, g2}
  Trials = {t1, t2}
  NoTrial = NoTrial
  Ops = {"initialize", "start"}
  MaxClock = 1
  MaxStarts = 1
  MaxRestarts = 0
PROPERTY ConfigPersists
CHECK_DEADLOCK FALSE
