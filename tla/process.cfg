SPECIFICATION FairSpec
CONSTANTS
  Names = {n1, n2}
  Pids = {p1, p2, p3}
  NoPid = NoPid
  Callers = {c1}
CHECK_DEADLOCK FALSE
INVARIANTS ProcTypeOK RecordsAreChildren DestructionLeavesNone CallsMayGoOn
PROPERTIES ImplementsSlots StopEnds ExitIsReaped
