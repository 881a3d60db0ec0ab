SPECIFICATION Spec
CONSTANTS
  Freq = 2
  Top = 7
  Word = 32
  Time <- Times
  NoAlarm = NoAlarm
  MaxTicks = 12
  MaxAlarms = 3
INVARIANTS TypeOK PendingIsArmed ReadingWithinASecond
PROPERTY AlarmServed
CHECK_DEADLOCK FALSE
