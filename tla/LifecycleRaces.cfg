SPECIFICATION Spec
CONSTANTS
  Requests = {r1, r2}
  Roles = {g1, g2}
  Trials = {t1}
  NoTrial = NoTrial
  Ops = {"initialize", "start", "abort", "status", "shutdown"}
  MaxClock = 1
  MaxStarts = 2
  MaxRestarts = 0
SYMMETRY Symmetry
INVARIANTS
  TypeOK
  InitializedMeansInstalled
  WindowOpensBeforeLoad
  WindowIsOrdered
CHECK_DEADLOCK FALSE
