SPECIFICATION FairSpec
CONSTANTS
  DefaultNum = 8
  MaxDecimals = 1
  SigDigits = 2
  FixedFrom <- MCFixedFrom
  Precision = 1
  Longest = 5
  Word = 768
  HalfLimb = 8
  Limbs = 5
  Window = 2
  Gap = 3
  Bench = 3
  Elapses = {1, 2}
  Rate = 1
  InitText <- MCInitText
  MinText <- MCMinText
  MaxText <- MCMaxText
  HashRates <- MCHashRates
  MaxFound = 2
INVARIANTS
  TypeOK
  TargetWithinFloor
PROPERTIES
  TowardsRate
  BacklogRaises
  Settles
CHECK_DEADLOCK FALSE
