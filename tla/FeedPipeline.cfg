\* Datagrams of at most three messages split a requote; only the feed thread is fair.
CONSTANTS
  Mid0 = 12
  HalfBand = 1
  QuoteSize = {1}
  InitSize = 1
  ConfigBatch = 5
  BatchCap = 3
  MaxMsgs = 4
  SocketCap = 1
  FeedQCap = 2
  MaxSteps = 3
  NumTicks = 5
  Base = 8
  Tick = 2
  IntSpan = 32
  MaxLevelSize = 8
  CounterMod = 2
  Price <- QuotePrice
SPECIFICATION FairSpec
INVARIANTS TypeOK CoherentWhenDrained OneLevelPerSide QuotesInWindow
PROPERTY FeedNeverWedged
