CONSTANTS
  MaxPosition = 2
  MaxOrderSize = 2
  CyclesPerToken = 2
  Burst = 2
  Size = {0, 1, 3}
  MaxFilled = 3
  MaxNow = 8
  MaxAccepts = 6
SPECIFICATION Spec
INVARIANTS TypeOK RateBound RateExact
