SPECIFICATION Spec
CONSTANTS
  p1 = p1
  p2 = p2
  p3 = p3
  s1 = s1
  t1 = t1
  t2 = t2
  k1 = k1
  c1 = c1
  None = None
  PoolCo = {p1, p2}
  ScriptCo = {}
  Task = {t1}
  Callback = {}
  Call = {c1}
  MaxHandle = 2
  OpKinds = {"op", "sleep"}
  TimeoutsUsed = TRUE
  ClearsForeign = FALSE
  PlainYields = FALSE
  Held = {}
  YieldAcrossC = FALSE
  HostOps = {"interrupt", "two_hosts", "pause", "begin_shutdown", "destroy", "cancel"}
SYMMETRY PoolSymmetry
INVARIANTS
  TypeOK
  PendingIsCurrentYield
  ActiveTaskTracked
  PromisesIntact
  FreeThreadsAreClean
  CallbackRefsBalanced
  ParkedHasWaker
PROPERTIES
  PassLeavesNothing
  ResumesOwnYield
  KeepsTaskContract
CHECK_DEADLOCK FALSE
