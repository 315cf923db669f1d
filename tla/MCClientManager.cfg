\* The manager is destroyed in the end, or joins a thread for ever.
SPECIFICATION ManagerSpec
CONSTANTS
    FeedKinds <- MCFeedKinds
    MAX_FEEDS = 3
CHECK_DEADLOCK FALSE
INVARIANTS  NothingLeft
PROPERTY ManagerStopReturns
