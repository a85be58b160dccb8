SPECIFICATION FairSpec
CONSTANTS
  None = None
  p = p
  a = a
  chat1 = chat1
  k = k
  Plus = {p}
  Apis = {a}
  Threads = {chat1}
  MaxTurns = 2
  Keys = {k}
  Faults = {"io", "undo"}
INVARIANT TypeOK
INVARIANT ForwardedMatchesRuntime
INVARIANT DoneIsDone
INVARIANT MessagesKept
INVARIANT OriginalKept
PROPERTY ResumedIsPortable
PROPERTY RequestsAnswered
