SPECIFICATION FairSpec
INVARIANTS
  TypeOK
  NoFrameStranded
  FramesOnceInOrder
  FlagsMatchMode
  BegunIsListening
PROPERTIES
  FiltersLostByBeginOnly
  CallbackQueueServed
CONSTANTS
  f = f
  g = g
  u = u
  v = v
  Callback = {f}
  Data = {u}
  DataOf <- MCDataOf
  NoCallback = NoCallback
  NoData = NoData
  FilterId = {1, 2}
  NoFilter = NoFilter
  RxCap = 2
  CbCap = 2
  MaxFrames = 3
