\* Two chats on pages of one; the other client updates, archives and deletes
\* them while two switches run.
CONSTANTS
  Threads = {chat1, chat2}
  Lost = {chat2}
  None = None
  PageSize = 1
  MaxTime = 3
  Switches = 2
  Faults = {"write", "cursor"}
SPECIFICATION FairSpec
CHECK_DEADLOCK FALSE
INVARIANT UnchangedAreListed
INVARIANT SwitchIsBackedUp
INVARIANT FirstCopyIsOldest
PROPERTY ListingEnds
