\* An old output that does not parse, and one that the pipeline adds.
SPECIFICATION FairSpec
CONSTANTS
  Files = {"f1", "f2"}
  Old = {"f1"}
  Damaged = {"f1"}
  Handlers = {h1, h2}
  CacheLimit = 1
  MaxVersion = 2
  MaxRequests = 2
INVARIANTS
  FreshAnswers
  CacheBounded
PROPERTY
  IndexCatchesUp
