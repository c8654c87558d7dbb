SPECIFICATION FairSpec
CONSTANTS
  Workers <- MCWorkers
  Records <- MCThreeRecords
  Symbol <- MCSymbol
  Hash <- MCHash
  TradeKey <- MCTradeKey
  Invalid <- MCInvalidOne
  FeedQueueSize = 1
  ChannelSize = 1
  MaxForgotten = 1
  QueueSize = 1
  BatchSize = 2
  DLQBatchSize = 1
  MaxRetries = 0
  SinkInOrder = TRUE
PROPERTIES
  RunReturns
CHECK_DEADLOCK FALSE
