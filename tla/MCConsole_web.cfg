SPECIFICATION Spec
CONSTANTS
  Account <- Accounts
  AsOf <- PointsInTime
  EntriesBy <- OneByThen
  AUDIT_PAGE = 1
  Studies <- AllStudies
  Write = {1}
  MaxEntries = 2
  Current = "now"
INVARIANTS
  TypeOK
  FreshAnswersHaveOwnWrites
  TimelineIsOfItsWindow
  TimelineIsContiguous
PROPERTIES
  TimelineOnlyGrows
CHECK_DEADLOCK FALSE
