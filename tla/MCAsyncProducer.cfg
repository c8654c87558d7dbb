SPECIFICATION Spec
CONSTANTS
  t1 = t1
  t2 = t2
  t3 = t3
  r1 = r1
  btc = btc
  eth = eth
  Idle = Idle
  Publishers = {p1, p2}
  Closers = {c1}
  Trades <- MCTrades
  Rejects <- MCRejects
  KeyOf <- MCKeyOf
  QueueSize = 1
  BatchSize = 2
  DLQBatchSize = 1
  MaxRetries = 1
  SinkInOrder = TRUE
SYMMETRY MCSymmetry
INVARIANTS
  TypeOK
  NoSendOnClosedChannel
  Accounting
  CountedIsDurable
  FirstCopiesInQueueOrder
  BacklogBounded
  FlusherStopsDrained
CHECK_DEADLOCK FALSE
