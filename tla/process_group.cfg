SPECIFICATION Spec
CONSTANTS
  Names = {n1}
  Pids = {p1}
  NoPid = NoPid
  Callers = {c1}
CHECK_DEADLOCK FALSE
INVARIANT StopEndsGroup
