SPECIFICATION Spec
CONSTANTS
  i1 = i1
  d1 = d1
  d2 = d2
  s1 = s1
  None = None
  Threads = {t1, t2}
  System = System
  Interfaces = {i1}
  Devices = {d1, d2}
  Streams = {s1}
  Parent <- TheParent
  Vanish = "yes"
  MaxCalls = 4
CHECK_DEADLOCK FALSE
INVARIANT NoDeadlock
