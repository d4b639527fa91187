SPECIFICATION FairSpec
CONSTANTS
  c1 = c1 c2 = c2 c3 = c3 p1 = p1 p2 = p2
  NoVault = NoVault
  Call <- Calls
  Process <- Processes
  Currency = {"USD", "EUR"}
  TX_MAX_RETRIES = 1
INVARIANTS
  TypeOK
  VaultsInv
  NeverUnresolved
PROPERTIES
  ImplementsOneVault
  EveryCallEnds
CHECK_DEADLOCK FALSE
