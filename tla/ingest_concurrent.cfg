SPECIFICATION FairSpec
CONSTANTS
  Request <- MCFive
  Key <- MCKey
  EventsOf <- MCEventsOf
  Batch <- MCBatch
  UnknownMerchant = {"r5"}
  DayOf <- MCDayOf
  DroppedDay = {1}
  NoId = NoId
  NilId = NilId
  MaxFaults = 1
  MaxNotifyFaults = 1
CHECK_DEADLOCK FALSE
INVARIANTS
  TypeOK
  OneClaimant
  RowsAreKeyed
  AnswersNameTheRow
PROPERTIES
  LogSpec
  EveryRequestEnds
