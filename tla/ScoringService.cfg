SPECIFICATION FairSpec
CONSTANTS
  btc = btc
  eth = eth
  Symbols <- MCSymbols
  Log <- MCLog
  CheckpointEvery = 2
  MaxStarts = 3
INVARIANTS
  TypeOK
  CheckpointBeforeCommit
  AppliedExactlyOnce
  ReplayBoundedPerSymbol
PROPERTIES
  ScoringGoesOn
CHECK_DEADLOCK FALSE
