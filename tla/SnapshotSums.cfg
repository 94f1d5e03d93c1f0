SPECIFICATION Spec
CONSTANTS
  Requests = {r1}
  Required = {metadata, resources}
  Optional = {vpa}
  MaxAttempts = 1
INVARIANT SumsMeanComplete
CHECK_DEADLOCK FALSE
