SPECIFICATION Spec
INVARIANT ReadOnceInOrder
CONSTANTS
  t1 = t1
  t2 = t2
  Thread = {t1, t2}
  Calls <- MCReaders
  Priority <- MCPriority
  NoThread = NoThread
  TxCap = 2
  RxCap = 2
  FifoCap = 2
  ChunkSize = 2
  MaxSent <- MCNone
  MaxArrived = 3
