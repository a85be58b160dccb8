SPECIFICATION FairSpec
CONSTANTS
  None = None
  p = p
  q = q
  a = a
  c1 = c1
  c2 = c2
  Plus = {p, q}
  Apis = {a}
  Clients = {c1, c2}
  l1 = l1
  l2 = l2
  Logins = {l1, l2}
  Interleave = {}
INVARIANT TypeOK
INVARIANT PreviousStaysListed
INVARIANT NoClientLeftBehind
PROPERTY VerifiedIsLoaded
PROPERTY SwitchIsDecided
 
PROPERTY SwitchTerminates
CHECK_DEADLOCK FALSE
