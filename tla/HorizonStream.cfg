SPECIFICATION FairSpec
CONSTANTS
  e1 = e1
  e2 = e2
  Endpoints = {e1, e2}
  Primary = e1
  MaxTrade = 3
  BadTrades <- SecondMayBeBad
  Stores = {"file", "sqlite", "memory"}
  MaxAttempts = 2
  FlushEvery = 2
  MaxFaults = 2
INVARIANT TypeOK
INVARIANT PositionsCoverProcessed
PROPERTY PassedOverOnlyIfUnsaved
PROPERTY DeliveredInOrder
PROPERTY CatchesUp
