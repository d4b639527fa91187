SPECIFICATION FairSpec
CONSTANTS
  r1 = r1 r2 = r2 r3 = r3 r4 = r4 ref1 = ref1
  NoRequest = NoRequest NoRef = NoRef
  Request <- Requests2
  Account <- Accounts3
  Ref = {ref1}
  MAX_UNITS = 2
  Currency <- Currencies
  CurrencyOf <- MCCurrencyOf
  NormalSide <- MCNormalSide
  Vault <- MCVault
  VaultLimit = 100
  Opened <- Customers
  InitialLimit <- Limit1
  Workload <- SameWithdrawal
  SNAPSHOT_INTERVAL_EVENTS = 0
  SNAPSHOT_MAX_LAG_EVENTS = 0
  TX_MAX_RETRIES = 0
PROPERTIES
  DuplicatesResolve
CHECK_DEADLOCK FALSE
