\* Expected violation: an order that was never announced is replaced.
CONSTANTS
  NumRefs = 3
  ItchPrice = {1, 2, 8}
  Shares = {0, 1, 2}
  PriceScale = 1
  ItchPriceDivisor = 1
  NumTicks = 4
  Base = 0
  Tick = 2
  IntSpan = 32
  MaxLevelSize = 6
  CounterMod = 1
  Price <- EnginePrice
SPECIFICATION Spec
INVARIANT AnnouncedSharesShown
