\* Retention of 2 time units, 2 jobs, so that jobs and keys are pruned while
\* others of the same job and of later jobs are live.
SPECIFICATION Spec
CONSTANTS
  Keep = 2
  NtimeRoll = 1
  Diffs = {1, 2}
  a = a
  b = b
  x2 = x2
  n1 = n1
  n2 = n2
  v1 = v1
  lower = lower
  upper = upper
  bad = bad
  Ex1s <- MCEx1s
  Ex2s <- MCEx2s
  Ntimes <- MCNtimes
  Nonces <- MCNonces
  VersionBits <- MCVersionBits
  Malformed <- MCMalformed
  Reads <- MCReads
  Work <- MCWork
  MaxJobs = 2
  MaxTime = 4
INVARIANTS
  TypeOK
  TextAcceptedOnce
  JobRetention
  LiveAcceptsAreSeen
CHECK_DEADLOCK FALSE
