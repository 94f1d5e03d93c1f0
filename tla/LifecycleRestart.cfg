SPECIFICATION Spec
CONSTANTS
  Requests = {r1, r2}
  Roles = {g1, g2}
  Trials = {t1, t2}
  NoTrial = NoTrial
  Ops = {"initialize", "start", "status", "abort"}
  MaxClock = 1
  MaxStarts = 1
  MaxRestarts = 1
SYMMETRY Symmetry
INVARIANTS
  TrialHeldOnce
  VerdictMatchesLoad
PROPERTIES
  KeepsWindow
CHECK_DEADLOCK FALSE
