SPECIFICATION Spec
CONSTANTS
  a = a
  b = b
  w1 = w1
  w2 = w2
  t1 = t1
  t2 = t2
  t3 = t3
  e1 = e1
  e2 = e2
  e3 = e3
  None = None
  Threads = {a, b}
  Wallets = {w1, w2}
  Trades = {t1, t2, t3}
  Parties <- ThreeTrades
  MaxTrades = 2
  Bounds = {0, 1}
  Entries = {e1, e2, e3}
SYMMETRY Interchangeable
INVARIANT TypeOK
INVARIANT LockedWalletIsWhole
PROPERTY UpdatesTakeEffectAtOnce
