SPECIFICATION Spec
CONSTANTS
  Maps = {m1, m2}
  NoMap = NoMap
  Callbacks = {c1, c2}
  MaxRequests = 1
CHECK_DEADLOCK FALSE
PROPERTY SavedPoseIsOfTheMap
