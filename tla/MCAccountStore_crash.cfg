SPECIFICATION Spec
CONSTANTS
  None = None
  p = p
  q = q
  a = a
  Plus = {p, q}
  KeyLogins = {}
  Apis = {a}
  MaxToken = 1
  Faults = {"write", "undo", "crash"}
  Interleave = {}
  Windows = FALSE
SYMMETRY Symmetry
INVARIANT ListedAccountsUsable
INVARIANT ActiveIsListed
PROPERTY ActiveLoginKept
