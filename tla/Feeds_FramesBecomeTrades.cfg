SPECIFICATION Spec
CONSTANTS
  Configs <- MCConfigs
  OutSize = 1
  Tape <- MCTape
  SymbolOf <- MCSymbolOf
  Noise <- MCNoise
  Timed <- MCTimed
  Limit = 1
  ReconnectMin = 1
  ReconnectMax = 4
  MaxAttempts = 2
  MaxPasses = 3
  Keys <- MCKeys
  ShardOf <- MCShardOf
  PerShard = 1
  TTL = 2
  Lag = 1
  MaxTime = 4
  Simulated <- MCSimulated
  MaxGap = 1
  MaxBehind = 2
PROPERTY FramesBecomeTrades
CHECK_DEADLOCK FALSE
