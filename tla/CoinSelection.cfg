\* Wallets of two outputs in any stage, and of four spendable ones.
SPECIFICATION Spec
CONSTANTS
  ULong = 256
  BaseFee = 1
  KeyRank <- MCKeyRank
  Root <- MCOwn
  Wallets <- MCAll
  MCValues = {1, 2, 3}
  MCChildren = {1, 3}
  MCMatures = {1, 2, 4, 5}
  CurrentHeight = 4
  Amounts = {0, 1, 2, 3, 4, 5, 7}
  Confirmations = {0, 2, 5}
  Limits = {1, 2, 3}
INVARIANTS
  SelectionSpendable
  
  NextChildFresh
