SPECIFICATION FairSpec
CONSTANTS
  t1 = t1
  t2 = t2
  t3 = t3
  r1 = r1
  btc = btc
  eth = eth
  Idle = Idle
  Publishers = {p1, p2}
  Closers = {c1}
  Trades <- MCTwoTrades
  Rejects <- MCRejects
  KeyOf <- MCKeyOf
  QueueSize = 1
  BatchSize = 2
  DLQBatchSize = 2
  MaxRetries = 1
  SinkInOrder = FALSE
PROPERTIES
  AcceptedIsSettled
  CallsReturn
  ContractHolds
CHECK_DEADLOCK FALSE
