SPECIFICATION Spec
CONSTANTS
  w1 = w1
  w2 = w2
  p1 = p1
  p2 = p2
  t1 = t1
  t2 = t2
  t3 = t3
  Poison = Poison
  Nobody = Nobody
  Workers = {w1}
  Partitions = {p1}
  DeadLetter = {}
  Trades = {t1, t2, t3}
  Log <- LogOfThree
  HWM = 3
  LWM = 1
  MaxRetries = 1
  Faults = {"dispatch"}
  MaxFaults = 1
INVARIANT NoSilentLoss
