SPECIFICATION Spec
CONSTANTS
  Interval = 3
  MarkDelay = 1
  MaxTime = 24
CHECK_DEADLOCK FALSE
INVARIANTS
  TimerTypeOK
  SilenceEnds
  AnswerInOrderCounts
PROPERTIES
  HeartbeatGap
