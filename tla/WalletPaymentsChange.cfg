\* One send and its timeout: is the change of a mined transaction kept?
SPECIFICATION Spec
CONSTANTS
  s1 = s1
  s2 = s2
  i1 = i1
  i2 = i2
  b1 = b1
  ULong = 256
  BaseFee = 1
  KeyRank <- MCKeyRank
  Sends = {s1}
  Infos = {}
  Coinbases = {}
  Wallets = {"alice", "bob"}
  WalletOf <- MCWalletOf
  Dest <- MCDest
  Amount <- MCAmount
  MinConf = 2
  MaxOutputs = 1
  Reward = 25
  Maturity = 1
  Genesis <- MCOneCoin
  MaxHeight = 2
  MaxFaults = 0
INVARIANT ChangeTracked
