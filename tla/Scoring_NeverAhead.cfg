SPECIFICATION Spec
CONSTANTS
  btc = btc
  eth = eth
  Symbols <- MCSymbols
  Log <- MCLog
  CheckpointEvery = 2
  MaxStarts = 3
INVARIANTS
  NeverAhead
CHECK_DEADLOCK FALSE
