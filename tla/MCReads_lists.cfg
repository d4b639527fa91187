SPECIFICATION Spec
CONSTANTS
  Account <- Accounts4
  NormalSide <- Sides
  Early <- EarlyAccounts
  Tx <- Txs
  Offset <- Lagging
  Movement <- Movements
  SnapshotSeqs = {}
  MaxTime = 2
  Query <- Lists
  Limit = 1
INVARIANTS
  PagesAdvance
  RunningBalancesAreReplays
  NothingOldIsSkipped
CHECK_DEADLOCK FALSE
