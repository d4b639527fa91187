SPECIFICATION Spec
CONSTANTS
  r1 = r1 r2 = r2 r3 = r3 r4 = r4 ref1 = ref1
  NoRequest = NoRequest NoRef = NoRef
  Request <- Requests3
  Account <- Accounts3
  Ref = {ref1}
  MAX_UNITS = 2
  Currency <- Currencies
  CurrencyOf <- MCCurrencyOf
  NormalSide <- MCNormalSide
  Vault <- MCVault
  VaultLimit = 1
  Opened <- Customers
  InitialLimit <- Limit1
  Workload <- Movements
  SNAPSHOT_INTERVAL_EVENTS = 2
  SNAPSHOT_MAX_LAG_EVENTS = 3
  TX_MAX_RETRIES = 1
SYMMETRY Symmetry
INVARIANTS
  TypeOK
  LockedRowsAreCurrent
  ContiguousHistories
  SnapshotsAreExact
  BalancesAreReplays
  ReferencesAreIdempotent
  RejectionsLeaveNoTrace
  SomeoneCanMove
PROPERTIES
  AppendOnly
CHECK_DEADLOCK FALSE
