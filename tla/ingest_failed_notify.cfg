SPECIFICATION Spec
CONSTANTS
  Request <- MCSingles
  Key <- MCKey
  EventsOf <- MCEventsOf
  Batch <- MCBatch
  UnknownMerchant = {}
  DayOf <- MCDayOf
  DroppedDay = {}
  NoId = NoId
  NilId = NilId
  MaxFaults = 0
  MaxNotifyFaults = 1
CHECK_DEADLOCK FALSE
INVARIANT
  AnsweredIsStored
