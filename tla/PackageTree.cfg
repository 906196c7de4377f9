CONSTANTS
  Node <- Nodes
  Root = 0
  maxFlattenNodes = 3
  Names = {a, b, bad}
  BadNames = {bad}
  Versions = {1}
  Missing = Missing

SPECIFICATION Spec
INVARIANTS FlattenTypeOK ItemsHang ListIsComplete TruncatedOnlyAtLimit
  EveryPackageListed BunListsUniqueNames DepthIsNesting
CHECK_DEADLOCK FALSE
