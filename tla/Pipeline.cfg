SPECIFICATION FairSpec
CONSTANTS
  Workers <- MCWorkers
  Records <- MCRecords
  Symbol <- MCSymbol
  Hash <- MCHash
  TradeKey <- MCTradeKey
  Invalid <- MCInvalidOne
  FeedQueueSize = 1
  ChannelSize = 1
  MaxForgotten = 1
  QueueSize = 1
  BatchSize = 2
  DLQBatchSize = 1
  MaxRetries = 0
  SinkInOrder = TRUE
INVARIANTS
  TypeOK
  SymbolOrderEndToEnd
  OnePerTradeKey
  RecordsConserved
  NothingAbandoned
PROPERTIES
  RunReturnsAfterFeed
CHECK_DEADLOCK FALSE
