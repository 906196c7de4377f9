CONSTANTS
  a = a
  b = b
  c = c
  v1 = v1
  v2 = v2
  Names = {a, b, c}
  Versions = {v1, v2}
  Counts <- OneCount
  MaxTime = 0
  TTL = 1
  NoEntry = NoEntry
  Never = Never
  Nodes <- ThreeNames
  Mature <- MCMature
  Policies <- Open
  Concurrency = 2
  MaxRun = 0
  Corrupt = Corrupt
  NoAudit = NoAudit
  NoScore = NoScore
  NoNode = NoNode
SPECIFICATION FairSpec
INVARIANTS TypeOK PoolInv
PROPERTY Terminates
