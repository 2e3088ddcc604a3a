SPECIFICATION FairSpec
CONSTANTS
  Maps = {m1}
  NoMap = NoMap
  Callbacks = {c1, c2}
  MaxRequests = 0
CHECK_DEADLOCK FALSE
PROPERTY CorrectionEndsRelocalizing
