SPECIFICATION Spec
CONSTANTS
  s1 = s1
  s2 = s2
  f1 = f1
  p1 = p1
  p2 = p2
  w1 = w1
  m1 = m1
  None = None
  Body = Body
  Slot = {s1}
  File = {}
  Proc = {}
  Conn = {w1}
  Module = {}
  Mixes <- MCSocketMixes
  MaxClient = 1
  PipeCap = 1
  ByteCount = 2
  Content <- MCContent
INVARIANTS
  ClientOutlivesRead
CHECK_DEADLOCK FALSE
