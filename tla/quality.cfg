SPECIFICATION FairSpec
CONSTANTS
  BadToDegraded = 1
  BadToLost = 3
  GoodToRecover = 2
  CountLimit = 3
INVARIANTS QualityTypeOK ValidHasEvidence
PROPERTIES ImplementsHysteresis SilenceIsLost
