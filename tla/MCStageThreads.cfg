\* One shared core where nobody is pinned or everybody yields, two cores of which
\* one may be dedicated to a stage, and threads that only spin on a core they share.
CONSTANTS
  Core = {0, 1}
  Setups <- MCAll
  CpuSetSize = 4
  SpinsBeforeYield = 2
  FeedQCap = 2
  Batch = 1
SPECIFICATION FairSpec
INVARIANTS TypeOK NoIdleHogging
PROPERTIES EveryStageRuns StopReturns
