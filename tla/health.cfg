SPECIFICATION FairSpec
CONSTANTS
  Streams = {pointcloud, imu}
  Timeout <- MCTimeout
  Window = 1
  MinRate = 1
  Grace = 1
  MaxLag = 1
  Cap = 3
  MaxSamples = 2
  MaxCallbacks = 2
INVARIANTS HealthTypeOK
PROPERTIES SilenceIsSeen LossIsReal FailureNeedsGrace SilenceFails
