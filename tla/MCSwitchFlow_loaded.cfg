SPECIFICATION Spec
CONSTANTS
  None = None
  p = p
  q = q
  c1 = c1
  c2 = c2
  Plus = {p, q}
  Apis = {}
  Clients = {c1, c2}
  l1 = l1
  l2 = l2
  Logins = {l1, l2}
  Interleave = {"reconnect"}
PROPERTY VerifiedIsLoaded
CHECK_DEADLOCK FALSE
