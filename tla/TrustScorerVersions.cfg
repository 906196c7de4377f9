CONSTANTS
  a = a
  b = b
  c = c
  v1 = v1
  v2 = v2
  Names = {a}
  Versions = {v1, v2}
  Counts <- MCCounts
  MaxTime = 3
  TTL = 1
  NoEntry = NoEntry
  Never = Never
  Nodes <- TwoVersions
  Mature <- MCMature
  Policies <- AllPolicies
  Concurrency = 1
  MaxRun = 1
  Corrupt = Corrupt
  NoAudit = NoAudit
  NoScore = NoScore
  NoNode = NoNode
SPECIFICATION Spec
INVARIANTS FetchInv SavedCacheExplainsVerdict FailClosedEarnsNothing
PROPERTY CacheFileOnlyGrows
