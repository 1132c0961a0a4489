SPECIFICATION Spec
CONSTANTS
  d1 = d1
  d2 = d2
  r1 = r1
  r2 = r2
  r3 = r3
  a = a
  Nowhere = Nowhere
  Dispatchers = {d1}
  Deployments = {{d1}}
  Requests = {r1}
  Wallets = {a}
  WalletOf <- OneWallet
  ScoreOf <- TwoAlerts
  Thresholds = {2}
  Cooldown = 2
  Channels = {"webhook", "websocket", "stdout"}
  MaxRetries = 1
  Reconciling = {FALSE}
  MaxTime = 2
  MaxFaults = 1
INVARIANT SuppressedBehindAnAlert
