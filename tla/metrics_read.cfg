SPECIFICATION Spec
CONSTANTS
  Event <- MCEvent
  TsOf <- MCTsOf
  Settled = {"e1"}
  Reader <- MCReader
  Range <- MCRange
  Window <- MCWindow
  Width <- MCWidth
  MinuteLimit = 1
  HourLimit = 3
  MaxRange = 8
  Ttl <- MCTtl
  MaxLatency = 1
  MaxClock = 5
  r1 = r1
  r2 = r2
SYMMETRY MCReaders
CHECK_DEADLOCK FALSE
INVARIANTS
  TypeOK
  EdgesWithinOneBucket
PROPERTIES
  FreshWithinTtl
