SPECIFICATION FairSpec
CONSTANTS
  w1 = w1
  w2 = w2
  p1 = p1
  p2 = p2
  t1 = t1
  t2 = t2
  t3 = t3
  Poison = Poison
  Nobody = Nobody
  Workers = {w1, w2}
  Partitions = {p1, p2}
  DeadLetter = {p2}
  Trades = {t1, t2}
  Log <- LogWithDuplicate
  HWM = 2
  LWM = 1
  MaxRetries = 1
  Faults = {"dispatch", "dedup", "offset", "crash", "stop", "rebalance", "expire"}
  MaxFaults = 2
INVARIANT TypeOK
INVARIANT NoLossWithoutSkipping
INVARIANT CommittedMeansHandled
INVARIANT DepthIsExact
INVARIANT DeadLetterNeedsRebalances
PROPERTY OffsetNeverMovesBack
PROPERTY NoDispatchAfterCommit
PROPERTY ReadsLikeOneConsumer
PROPERTY EverythingCommitted
