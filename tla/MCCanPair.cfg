SPECIFICATION Spec
INVARIANTS
  CallbackGetsItsData
CONSTANTS
  f = f
  g = g
  u = u
  v = v
  Callback = {f, g}
  Data = {u, v}
  DataOf <- MCDataOf
  NoCallback = NoCallback
  NoData = NoData
  FilterId = {1, 2}
  NoFilter = NoFilter
  RxCap = 2
  CbCap = 2
  MaxFrames = 3
