SPECIFICATION Spec
CONSTANTS
  Event <- MCFourEvents
  Merchant <- MCMerchants
  MerchantOf <- MCMerchantOf
  Worker <- MCOneWorker
  Run <- MCTwoRuns
  TopLimit = 1
  ReportLimit = 2
CHECK_DEADLOCK FALSE
PROPERTY
  SnapshotIsPointInTime
