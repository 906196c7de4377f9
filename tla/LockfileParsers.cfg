CONSTANTS
  YarnScopes <- SomeYarn
  PnpmScopes <- SomePnpm
  BunScopes <- SomeBun
  NpmScopes <- SomeNpm
  maxEntries = 2
  Nil = Nil

SPECIFICATION Spec
INVARIANTS TypeOK AcceptedIsListed ListsWhatIsWritten KeysUnderstood OnlyTrailingCommasGo
CHECK_DEADLOCK FALSE
