SPECIFICATION FairSpec
CONSTANTS
  Batches = {1, 2}
  NoBatch = NoBatch
  Useful <- MCUseful
  c1 = c1
  c2 = c2
  Circuits <- TwoCircuits
  Budget <- MCBudget
  kills = 2
  ios = 2
  torns = 2
  powers = 2
  misreads = 2
  faults = 2
INVARIANTS
  TypeOK
  ChainVerifies
  BrokenOnlyByMisreads
  OutputsAudit
  NoUsefulLost
  CreditsBounded
  NoStaleTmp
PROPERTIES
  NeverCutInLine
  ImplementsStore
  PendingDrains
CHECK_DEADLOCK FALSE
