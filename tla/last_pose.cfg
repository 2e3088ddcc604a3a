SPECIFICATION FairSpec
CONSTANTS
  Maps = {m1, m2}
  NoMap = NoMap
  Callbacks = {c1}
  MaxRequests = 2
CHECK_DEADLOCK FALSE
INVARIANTS LastPoseTypeOK TrustNeedsSession ThreadsMayGoOn
PROPERTIES SavesGoToSessionMap ImplementsSaveSlot AcceptedIsWritten
