SPECIFICATION Spec
CONSTANTS
  Account <- Accounts2
  NormalSide <- Sides
  Early <- EarlyAccounts
  Tx <- Txs
  Offset <- Lagging
  Movement <- Movements
  SnapshotSeqs = {2}
  MaxTime = 2
  Query <- Trails
  Limit = 1
INVARIANTS
  TimelineInv
  PointInTimeIsReplay
  BooksBalanceAtEveryInstant
  RunningBalancesAreReplays
  TrailsCloseOnTheirBalance
PROPERTIES
  SettledPastStands
CHECK_DEADLOCK FALSE
