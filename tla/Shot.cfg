\* The code of distance 3 with two rounds, at most one error.
SPECIFICATION Spec
CONSTANTS
  Distance = 3
  Rounds = 2
  MaxErrors = 1
  MaxOnes = 2
INVARIANTS
  QuietWithoutErrors
  NoSilentError
CHECK_DEADLOCK FALSE
