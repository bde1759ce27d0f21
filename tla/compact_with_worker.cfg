SPECIFICATION FairSpec
CONSTANTS
  Event <- MCFourEvents
  Merchant <- MCMerchants
  MerchantOf <- MCMerchantOf
  Worker <- MCTwoWorkers
  Run <- MCTwoRuns
  TopLimit = 1
  ReportLimit = 2
CHECK_DEADLOCK FALSE
INVARIANTS
  TypeOK
  DayNeverExceedsHours
  LossIsReported
PROPERTIES
  QuietRunRepairs
  QuietRunRanksTheDay
  EveryTransactionEnds
