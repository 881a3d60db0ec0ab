SPECIFICATION Spec
CONSTANTS
  Walked <- Years
  Clock <- Times
  Tried <- Values
INVARIANTS ConversionsAgree SetterEffect
CHECK_DEADLOCK FALSE
