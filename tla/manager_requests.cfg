SPECIFICATION Spec
CONSTANTS
  Maps = {m1, m2}
  NoMap = NoMap
  Callbacks = {c1, c2}
  AutoStart = {}
  GraceTicks = 1
  KillMayFail = FALSE
SYMMETRY Symmetry
INVARIANTS ErrorHasCode IdleIsClean SessionMapOnDisk
