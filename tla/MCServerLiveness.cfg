SPECIFICATION FairSpec
CONSTANTS
  s1 = s1
  s2 = s2
  NULL = NULL
  Metrics = {m1, m2}
  Dispatchers = {d1}
  Servers = {s1, s2}
  Conns = {1}
  Configs <- LivenessConfigs
  BufSize = 1
  FAIL_WAIT_COUNT = 2
  Spread = 1
  maxstalls = 1
  StallWrap = 4
PROPERTIES
  FailedMemberDrained
  ShutdownEnds
