SPECIFICATION Spec
CONSTANTS
  Raws <- MCRaws
  Foreign <- MCForeign
  Settings <- MCSettings
  Now = 10
  Huge = 1000
  NaN = NaN
  Inf = Inf
  Bad = Bad
  Missing = Missing
  Alpha = 1
  K = 3
  Epsilon = 100000
  ThresholdOf <- MCThresholdOf
  MinTrades = 2
  MaxTrades = 4
INVARIANTS
  PublishedIsScored
  NoPoison
  ScoresAreTheDefinition
CHECK_DEADLOCK FALSE
