SPECIFICATION SideSpec

CONSTANTS
  Threshold = 2
  MaxLinks = 2
  MaxPeriods = 1
  Attempts = 2
  LossThreshold = 2
  EventMax = 2
  MaxGen = 3
  MaxPending = 1
  MaxFaults = 2
  Patient = TRUE

INVARIANTS
  DeliveredInOrder
PROPERTIES
  LossDeclaredOnce
  HalfOpenIsDropped
  CloseReturns
  Recovers

CHECK_DEADLOCK FALSE
