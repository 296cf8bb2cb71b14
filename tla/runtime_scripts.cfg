SPECIFICATION Spec
CONSTANTS
  p1 = p1
  p2 = p2
  p3 = p3
  s1 = s1
  t1 = t1
  t2 = t2
  k1 = k1
  c1 = c1
  None = None
  PoolCo = {p1, p2}
  ScriptCo = {s1}
  Task = {t1}
  Callback = {}
  Call = {c1}
  MaxHandle = 2
  OpKinds = {"op", "sleep"}
  TimeoutsUsed = FALSE
  ClearsForeign = TRUE
  PlainYields = TRUE
  Held = {s1}
  YieldAcrossC = TRUE
  HostOps = {"interrupt"}
SYMMETRY PoolSymmetry
INVARIANTS
  ParkedNotFreed
  CompletionMatchesOwner
  FreeThreadsAreClean
  PassMeansInterrupted
CHECK_DEADLOCK FALSE
