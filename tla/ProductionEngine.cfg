CONSTANTS
  Orders = {1, 2}
  Item = {1, 2}
  NoItem = 0
  MaxTrades = 2
  TradesOf <- OneAndTwo
  buffer_size_ = 2
  Capacity = 2
SPECIFICATION FairSpec
INVARIANTS RecordsKept CommittedIsSynced
PROPERTIES  PipelineMoves
CHECK_DEADLOCK FALSE
