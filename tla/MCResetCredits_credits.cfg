\* Two accounts and an API connection, two requests under way, three changes
\* of the generation: a switch that is undone and another one, or a login.
CONSTANTS
  Plus = {p, q}
  Apis = {a}
  None = None
  Requests = {r1, r2}
  MaxChanges = 3
SPECIFICATION FairSpec
CHECK_DEADLOCK FALSE
INVARIANT ShownIsRecent
PROPERTY ShownIsRenewed
