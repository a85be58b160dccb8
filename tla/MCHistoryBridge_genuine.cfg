SPECIFICATION Spec
CONSTANTS
  None = None
  p = p
  a = a
  chat1 = chat1
  k = k
  Plus = {p}
  Apis = {a}
  Threads = {chat1}
  MaxTurns = 2
  Keys = {k}
  Faults = {}
PROPERTY GenuineCallsKept
