SPECIFICATION FairSpec
CONSTANTS
  None = None
  Commands = 2
  MaxRequests = 3
  MaxNotices = 2
INVARIANT TypeOK
INVARIANT TableMatchesPromises
INVARIANT OpenIsLive
INVARIANT EndIsTold
INVARIANT NoticesInOrder
PROPERTY ImplementsRequestTable
PROPERTY RequestsSettled
CHECK_DEADLOCK FALSE
