SPECIFICATION Spec
CONSTANTS
  Periods = {3, 10}
  Timeout = 10
  Latency = 4
INVARIANT LeaseKept
INVARIANT ZombieBounded
CHECK_DEADLOCK FALSE
