\* Lost, repeated and reordered datagrams, the kill switch, the rate limiter,
\* stop() and a second start().
CONSTANTS
  OrderQCap = 2
  FillQCap = 2
  OrderSize = 1
  MaxOrders = 3
  Touch <- MCTouch
  ThrNum = 1
  ThrDen = 2
  InFlightCapacity = 2
  MaxPosition = 2
  MaxOrderSize = 1
  RateLimited = TRUE
  Faults = {"loseOrder", "loseFill", "dupOrder", "dupFill"}
  MayKill = TRUE
  MaxRestarts = 1
  MaxCopies = 1
SPECIFICATION FairSpec
INVARIANTS TypeOK OneOutstanding PositionsAgree StrategyBand KillStopsFlow TruePositionWithinLimit
PROPERTIES StopReturns LatchReleased
