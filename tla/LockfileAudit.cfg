CONSTANTS
  k1 = k1
  k2 = k2
  d1 = d1
  d2 = d2
  Keys = {k1, k2}
  Dirs = {d1, d2}
  LocalDir <- MCLocalDir
  Trees <- MCTrees
  Contents = {c1, c2}
  Missing = Missing
  Outside = Outside
  Unreadable = Unreadable
  NoEntry = NoEntry
  NoDir = NoDir
  Unsigned = Unsigned
  Truncated = Truncated
  MaxDrift = 1
SPECIFICATION Spec
INVARIANTS TypeOK SavedIsInstalled NoFalseAlarm CleanAuditIsTrue StaleSignatureMeansNoKey
SYMMETRY Symmetry
