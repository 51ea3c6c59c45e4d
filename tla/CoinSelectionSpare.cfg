\* Wallets of spendable outputs: does Select take only as many as necessary?
SPECIFICATION Spec
CONSTANTS
  ULong = 256
  BaseFee = 1
  KeyRank <- MCKeyRank
  Root <- MCOwn
  Wallets <- MCMature
  MCValues = {1, 2, 3}
  MCChildren = {1, 3}
  MCMatures = {1, 2, 4, 5}
  CurrentHeight = 4
  Amounts = {1, 2, 3, 4, 5, 7}
  Confirmations = {0, 2, 5}
  Limits = {1, 2, 3}
INVARIANT NoSpareInput
