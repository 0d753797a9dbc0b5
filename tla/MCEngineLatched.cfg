\* Expected violation: the rate limiter is switched on.
CONSTANTS
  OrderQCap = 2
  FillQCap = 2
  OrderSize = 1
  MaxOrders = 3
  Touch <- MCTouch
  ThrNum = 1
  ThrDen = 2
  InFlightCapacity = 2
  MaxPosition = 1
  MaxOrderSize = 1
  RateLimited = TRUE
  Faults = {}
  MayKill = FALSE
  MaxRestarts = 0
  MaxCopies = 0
SPECIFICATION FairSpec
PROPERTY FlowStaysAlive
