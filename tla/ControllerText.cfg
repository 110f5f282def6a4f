SPECIFICATION Spec
CONSTANTS
  DefaultNum = 8
  MaxDecimals = 1
  SigDigits = 2
  FixedFrom <- MCFixedFrom
  Precision = 2
  Longest = 9
  Word = 4096
  HalfLimb = 8
  Limbs = 5
  Window = 2
  Gap = 3
  Bench = 3
  Elapses = {1, 2}
  Rate = 1
  InitText <- MCLowText
  MinText <- MCLowText
  MaxText <- MCMaxText
  HashRates <- MCHashRates
  MaxFound = 2
PROPERTY TowardsRate
CHECK_DEADLOCK FALSE
