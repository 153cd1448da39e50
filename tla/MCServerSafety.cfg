SPECIFICATION Spec
CONSTANTS
  s1 = s1
  s2 = s2
  NULL = NULL
  Metrics = {m1, m2, m3}
  Dispatchers = {d1}
  Servers = {s1, s2}
  Conns = {1, 2}
  Configs <- SafetyConfigs
  BufSize = 1
  FAIL_WAIT_COUNT = 1
  Spread = 1
  maxstalls = 1
  StallWrap = 4
SYMMETRY SymmetricMetrics
INVARIANTS
  OneOwner
  LostIsPutBack
  SentNotOvercounted
  
  
  NoBatchLeft
  
