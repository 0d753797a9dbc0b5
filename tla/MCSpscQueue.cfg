\* Safety, refinement and liveness.
CONSTANTS
  v0 = v0
  v1 = v1
  Value <- MCValue
  InitValue = v0
  Capacity = 4
  PosMod = 8
SPECIFICATION FairSpec
INVARIANTS TypeOK NoSlotRace CachesConservative
PROPERTIES ImplementsFifo PublishedIsConsumed
