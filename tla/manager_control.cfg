SPECIFICATION FairSpec
CONSTANTS
  Maps = {m1}
  NoMap = NoMap
  Callbacks = {c1}
  AutoStart = {"mapping"}
  GraceTicks = 0
  KillMayFail = TRUE
INVARIANTS TypeOK MutualExclusion FlagHasOneOwner ProcessHasMode MonitorSeesRealExit AdmittedRequestProceeds NobodyWaits
PROPERTIES RecoveryStopsEverything ImplementsSlamModes OperationCompletes ExitIsNoticed
