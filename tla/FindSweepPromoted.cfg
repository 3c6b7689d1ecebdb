SPECIFICATION Spec
CONSTANTS
  h1 = h1
  h2 = h2
  m1 = m1
  m2 = m2
  v1 = v1
  v2 = v2
  Hosts = {h1, h2}
  Memories = {m1, m2}
  Bodies = {v1, v2}
  Worlds <- TwoRequests
  NoNote = NoNote
  NoRow = NoRow
  NoMem = NoMem
  NoHost = NoHost
PROPERTY SweepOnlyScratch
CHECK_DEADLOCK FALSE
