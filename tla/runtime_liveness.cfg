SPECIFICATION LiveSpec
CONSTANTS
  p1 = p1
  p2 = p2
  p3 = p3
  s1 = s1
  t1 = t1
  t2 = t2
  k1 = k1
  c1 = c1
  None = None
  PoolCo = {p1, p2, p3}
  ScriptCo = {}
  Task = {t1}
  Callback = {}
  Call = {}
  MaxHandle = 2
  OpKinds = {"sleep", "require", "loadfile"}
  TimeoutsUsed = FALSE
  ClearsForeign = FALSE
  PlainYields = TRUE
  Held = {}
  YieldAcrossC = FALSE
  HostOps = {"interrupt", "pause"}
PROPERTIES
  InterruptSettlesRunning
  AcceptedTaskEnds
CHECK_DEADLOCK FALSE
