SPECIFICATION Spec
CONSTANTS
  Account <- Accounts2
  NormalSide <- Sides
  Early <- EarlyAccounts
  Tx <- Txs
  Offset <- Synchronous
  Movement <- Movements
  SnapshotSeqs = {}
  MaxTime = 2
  Query = {}
  Limit = 1
PROPERTIES
  PastStands
CHECK_DEADLOCK FALSE
