\* Two sends, one to its own wallet, and a coinbase at once, one fault, timeouts at any time.
SPECIFICATION FairSpec
CONSTANTS
  s1 = s1
  s2 = s2
  i1 = i1
  i2 = i2
  b1 = b1
  ULong = 256
  BaseFee = 1
  KeyRank <- MCKeyRank
  Sends = {s1, s2}
  Infos = {}
  Coinbases = {b1}
  Wallets = {"alice", "bob"}
  WalletOf <- MCWalletOf
  Dest <- MCDestMixed
  Amount <- MCAmount
  MinConf = 2
  MaxOutputs = 1
  Reward = 25
  Maturity = 1
  Genesis <- MCOneCoin
  MaxHeight = 2
  MaxFaults = 1
INVARIANTS
  SentCoinsStayLocked
  LockedOnlyIfPushed
  ReceivedTracked
  UnspentWasMined
PROPERTIES
  StatusMoves
  RequestEnds
