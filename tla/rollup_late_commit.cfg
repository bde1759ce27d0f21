SPECIFICATION Spec
CONSTANTS
  Event <- MCTwoEvents
  Consumer <- MCConsumer
  MerchantOf <- MCMerchantOf
  TypeOf <- MCTypeOf
  TsOf <- MCTsOf
  AmountOf <- MCAmountOf
  Worker <- MCWorker
  ConsumerOf <- MCSharedConsumerOf
  Request <- MCTwoEvents
  RequestOf <- MCRowRequestOf
  BatchSize = 2
  NoEvent = NoEvent
  MaxClock = 2
  MaxFaults = 0
INVARIANT
  NothingOlderThanOffset
