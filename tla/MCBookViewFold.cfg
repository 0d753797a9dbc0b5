\* Expected violation: a price one unit below the window.
CONSTANTS
  NumTicks = 4
  Base = 10
  Tick = 2
  IntSpan = 32
  MaxLevelSize = 1
  CounterMod = 2
  Price <- MCOffTickPrice
SPECIFICATION BookSpec
PROPERTY OutsideIsDropped
