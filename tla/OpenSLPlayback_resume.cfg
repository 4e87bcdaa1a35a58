CONSTANTS
  NumUpdates = 2
  MaxPosts = 3
SPECIFICATION FairSpec
CHECK_DEADLOCK FALSE
INVARIANT FailedIsDisconnected
