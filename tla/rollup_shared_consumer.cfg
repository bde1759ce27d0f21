SPECIFICATION FairSpec
CONSTANTS
  Event <- MCEvent
  Consumer <- MCConsumer
  MerchantOf <- MCMerchantOf
  TypeOf <- MCTypeOf
  TsOf <- MCTsOf
  AmountOf <- MCAmountOf
  Worker <- MCWorker
  ConsumerOf <- MCSharedConsumerOf
  Request <- MCBatchRequest
  RequestOf <- MCBatchRequestOf
  BatchSize = 2
  NoEvent = NoEvent
  MaxClock = 2
  MaxFaults = 2
INVARIANTS
  TypeOK
  RollupMatchesMarkers
  InFlightBatches
  OffsetIsAggregated
  NeverOvercounts
  LostOnlyLateOrTied
PROPERTIES
  LedgerSpec
  EventuallyAggregated
