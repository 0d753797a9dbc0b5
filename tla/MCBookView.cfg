CONSTANTS
  NumTicks = 4
  Base = 10
  Tick = 2
  IntSpan = 32
  MaxLevelSize = 2
  CounterMod = 2
  Price <- MCPrice
SPECIFICATION BookSpec
INVARIANTS BookTypeOK TopOfBook
