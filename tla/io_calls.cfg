SPECIFICATION FairSpec
CONSTANTS
  s1 = s1
  s2 = s2
  f1 = f1
  p1 = p1
  p2 = p2
  w1 = w1
  m1 = m1
  None = None
  Body = Body
  Slot = {s1, s2}
  File = {f1}
  Proc = {p1, p2}
  Conn = {w1}
  Module = {m1}
  Mixes <- MCMixes
  MaxClient = 2
  PipeCap = 1
  ByteCount = 2
  Content <- MCContent
INVARIANTS
  LibrariesTypeOK
  StreamIntact
  PidsAreOurs
  ClientOutlivesUse
  FarewellIsLast
PROPERTIES
  CacheStable
  KeepsCallContract
  WaitEnds
  CallsReturn
CHECK_DEADLOCK FALSE
