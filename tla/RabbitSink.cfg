SPECIFICATION FairSpec
CONSTANTS
  NumMessages <- MCNumMessages
  BatchSize = 2
  MaxCalls <- MCMaxCalls
  MaxExceptions = 2
INVARIANTS
  FreshNilMeansAccepted
  BrokenChannelCostsOneCall
PROPERTIES
  SendReturns
CHECK_DEADLOCK FALSE
