\* A refresh during the backup of a switch.
CONSTANTS
  Plus = {p, q}
  Apis = {a}
  None = None
  Requests = {r1, r2}
  MaxChanges = 3
SPECIFICATION Spec
CHECK_DEADLOCK FALSE
INVARIANT ShownIsActive
