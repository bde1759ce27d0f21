SPECIFICATION Spec
CONSTANTS
  Event <- MCFivePayments
  Merchant <- MCMerchants
  MerchantOf <- MCMerchantOf
  AmountOf <- MCAmountOf
  DayOf <- MCDayOf
  FirstDay = 1
  NextFirst = 2
  Reader <- MCTwoReaders
  TopOf <- MCNarrowAndWide
  BatchSize = 2
  MaxKeyLosses = 1
  MaxPipeLosses = 1
CHECK_DEADLOCK FALSE
INVARIANTS
  TypeOK
  OvershootBounded
  LacksOnlyMissing
  EmptyOnlyAfterLoss
