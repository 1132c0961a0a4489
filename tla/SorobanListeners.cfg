SPECIFICATION FairSpec
CONSTANTS
  w1 = w1
  w2 = w2
  Workers = {w1, w2}
  Deployments <- ThreeDeployments
  Contents <- FewContents
  MaxLedger = 4
  PageSize = 2
  Depth = 2
  ReorgDepth = 1
  Drift = 1
  MaxFaults = 2
CHECK_DEADLOCK FALSE
INVARIANT TypeOK
INVARIANT ActsOnFinalEventsOnly
INVARIANT WatermarkHidesNothing
INVARIANT PausedFollowsChain
PROPERTY EventuallyHandled
