\* Four buckets of two seconds.
SPECIFICATION FairSpec
CONSTANTS
  Workers = {w1, w2}
  Values = {v1, v2}
  NULL = NULL
  interval = 2
  expire = 3
  CntWrap = 256
  StartTime = 4
  MaxTime = 8
  Epochs = {1, 3, 4, 8}
  Lag = 1
CHECK_DEADLOCK FALSE
INVARIANTS
  BucketsAligned
  NoOverrun
  RightPeriod
  WrittenOnce
  LostWasLate
  DroppedOutOfTime
PROPERTIES
  StopReturns
