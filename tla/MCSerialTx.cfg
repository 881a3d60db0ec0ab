SPECIFICATION FairSpec
INVARIANTS
  TypeOK
  WrittenOnceInOrder
  OverlapByInterrupt
  NoByteStranded
PROPERTIES
  FlushedIsSent
  
CONSTANTS
  t1 = t1
  t2 = t2
  Thread = {t1, t2}
  Calls <- MCWriters
  Priority <- MCPriority
  NoThread = NoThread
  TxCap = 2
  RxCap = 1
  FifoCap = 1
  ChunkSize = 2
  MaxSent <- MCMaxSent
  MaxArrived = 1
