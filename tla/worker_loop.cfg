SPECIFICATION LoopSpec
CONSTANTS
  Event <- MCEvent
  BatchSize = 2
  MaxErrors = 1
  MaxLosses = 2
CHECK_DEADLOCK FALSE
INVARIANTS
  LoopTypeOK
  NoLostWakeup
PROPERTIES
  PollIsEnough
  ShutdownEnds
