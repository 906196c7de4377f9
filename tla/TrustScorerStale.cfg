CONSTANTS
  a = a
  b = b
  c = c
  v1 = v1
  v2 = v2
  Names = {a}
  Versions = {v1, v2}
  Counts <- MCCounts
  MaxTime = 4
  TTL = 1
  NoEntry = NoEntry
  Never = Never
  Nodes <- OneNode
  Mature <- MCMature
  Policies <- Open
  Concurrency = 1
  MaxRun = 1
  Corrupt = Corrupt
  NoAudit = NoAudit
  NoScore = NoScore
  NoNode = NoNode
SPECIFICATION Spec
INVARIANT StaleCountUsed
