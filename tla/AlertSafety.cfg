SPECIFICATION Spec
CONSTANTS
  d1 = d1
  d2 = d2
  r1 = r1
  r2 = r2
  r3 = r3
  a = a
  Nowhere = Nowhere
  Dispatchers = {d1, d2}
  Deployments = {{d1}, {d1, d2}}
  Requests = {r1, r2}
  Wallets = {a}
  WalletOf <- OneWallet
  ScoreOf <- TwoAlerts
  Thresholds = {2, 3}
  Cooldown = 2
  Channels = {"webhook", "websocket", "stdout"}
  MaxRetries = 1
  Reconciling = {TRUE, FALSE}
  MaxTime = 2
  MaxFaults = 3
INVARIANT TypeOK
INVARIANT AccountedFor
INVARIANT SentImpliesIntent
INVARIANT AtMostOncePerKey
INVARIANT CooldownSpacing
INVARIANT NoSilentSuppression
INVARIANT OpenIntentsOwned
SYMMETRY Interchangeable
