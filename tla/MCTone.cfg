SPECIFICATION FairSpec
INVARIANTS
  TypeOK
  OneSlotPerPin
  SlotsAccounted
  NoPinStuckHigh
PROPERTIES
  SlotsKept
  TonesSpec
  FiniteToneEnds
CONSTANTS
  Thread = {t1, t2}
  Pin = {p1, p2, p3}
  t1 = t1
  t2 = t2
  p1 = p1
  p2 = p2
  p3 = p3
  NoPin = NoPin
  NoThread = NoThread
  NumSlots = 2
  MaxToggles = 3
  CountMod = 3
