SPECIFICATION FairSpec
CONSTANTS
  Block = {b1, b2}
  NoBlock = NoBlock
  BlockSize = 2
  Request <- Sizes
  Reader <- BothReaders
  EndsInside = TRUE
  MaxCaptured = 3
  MaxBegins = 2
INVARIANTS TypeOK BlockInOnePlace CapturedOnceInOrder StatusIsTrue
PROPERTIES LeftoversOffered CallbacksEnd
CHECK_DEADLOCK FALSE
