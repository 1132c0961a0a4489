SPECIFICATION FairSpec
CONSTANTS
  a = a
  b = b
  c1 = c1
  c2 = c2
  c3 = c3
  None = None
  Clients = {a, b}
  Conns = {c1, c2, c3}
  Sub <- TwiceAndOnce
  MaxClients = 2
  QueueDepth = 1
  ReplaySize = 1
  Policies = {"drop_oldest", "disconnect"}
  MaxDrops = 1
  Requests = {{"wallet"}, {"pair", "all"}}
  MaxEvents = 2
  MaxRequests = 2
CHECK_DEADLOCK FALSE
INVARIANT TypeOK
INVARIANT NothingVanishes
INVARIANT StaysRegistered
INVARIANT NothingLeaks
INVARIANT LossesCanBeReplayed
PROPERTY EverybodyIsServed
