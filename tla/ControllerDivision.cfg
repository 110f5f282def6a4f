SPECIFICATION Spec
CONSTANTS
  DefaultNum = 8
  MaxDecimals = 1
  SigDigits = 2
  FixedFrom <- MCFixedFrom
  Precision = 1
  Longest = 5
  Word = 10000
  HalfLimb = 10
  Limbs = 5
  Window = 2
  Gap = 3
  Bench = 3
  Elapses = {1, 2}
  Rate = 1
  InitText <- MCInitText
  MinText <- MCMinText
  MaxText <- MCHighText
  HashRates <- MCHashRates
  MaxFound = 2
INVARIANT TargetFloor
CHECK_DEADLOCK FALSE
