SPECIFICATION FairSpec
CONSTANTS
  w1 = w1
  w2 = w2
  Workers <- MCWorkers
  Log <- MCLog
  MaxStarts = 2
INVARIANTS
  LossBoundedByWorkers
PROPERTIES
  ShutdownCompletes
CHECK_DEADLOCK FALSE
