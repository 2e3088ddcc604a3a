SPECIFICATION FairSpec
CONSTANTS
  Maps = {m1}
  NoMap = NoMap
  Callbacks = {c1}
  AutoStart = {}
  GraceTicks = 1
  KillMayFail = FALSE
PROPERTY SensorFailureStopsLocalization
