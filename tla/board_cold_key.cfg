SPECIFICATION Spec
CONSTANTS
  Event <- MCTwoPayments
  Merchant <- MCMerchants
  MerchantOf <- MCMerchantOf
  AmountOf <- MCAmountOf
  DayOf <- MCDayOf
  FirstDay = 1
  NextFirst = 2
  Reader <- MCOneReader
  TopOf <- MCWide
  BatchSize = 1
  MaxKeyLosses = 1
  MaxPipeLosses = 0
CHECK_DEADLOCK FALSE
PROPERTY
  ColdKeyIsRebuilt
