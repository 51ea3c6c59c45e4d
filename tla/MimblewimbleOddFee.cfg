\* What Block.with_reward says of the transactions it is given.
SPECIFICATION Spec
CONSTANTS
  ka = ka
  kb = kb
  kc = kc
  kd = kd
  kr = kr
  ks = ks
  kt = kt
  km = km
  Keys = {ka, kb, kc, kd, kr, ks, kt, km}
  MaxUlong = 255
  MaxBlockInputs = 2
  RewardAmount = 10
  MaxBlockWeight = 50
  Orders <- MCOrders
  MinerKeys = {km}
  Heights = {1, 2}
  MaxExchanges = 3
  MaxBlocks = 3
INVARIANT ValidatedTxs
CHECK_DEADLOCK FALSE
