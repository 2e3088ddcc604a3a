SPECIFICATION Spec
CONSTANTS
  Maps = {m1}
  NoMap = NoMap
  Callbacks = {c1, c2}
  AutoStart = {}
  GraceTicks = 1
  KillMayFail = FALSE
PROPERTY LocalizedNeedsCorrection
