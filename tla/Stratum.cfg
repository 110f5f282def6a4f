SPECIFICATION Spec
CONSTANTS
  Keep = 0
  NtimeRoll = 1
  Diffs = {1, 2}
  a = a
  b = b
  none = none
  x2 = x2
  n1 = n1
  n2 = n2
  v1 = v1
  c1 = c1
  c2 = c2
  Ex1s <- MCTwoEx1s
  NoEx1 <- none
  Ex2s <- MCEx2s
  Ntimes <- MCNtimes
  Nonces <- MCOneNonce
  VersionBits <- MCVersionBits
  Malformed = {}
  Reads <- MCReads
  Work <- MCWork
  MaxJobs = 2
  MaxTime = 0
  Conns <- MCTwoConns
  NoConn = NoConn
  InitDiff = 1
  Interval = 1
  IdleLimit = 0
  Burst = 3
  BurstWindow = 0
  MaxConns = 2
SYMMETRY MCSymmetry
INVARIANTS
  TypeOK
  HonestNeverLow
  DifficultiesAgree
  OnCurrentWork
CHECK_DEADLOCK FALSE
