SPECIFICATION FairSpec
CONSTANTS
  MaxRows = 2
  MaxDay = 3
  DaysAhead = 1
  InitAhead = 1
  Keep = 1
  BatchSize = 1
  MaxResets = 1
CHECK_DEADLOCK FALSE
INVARIANTS
  TypeOK
  SuccessCoversWindow
PROPERTIES
  NothingBehindArrears
  AggregatedUnlessDropped
