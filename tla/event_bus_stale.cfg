SPECIFICATION FairSpec
CONSTANTS
    c1 = c1
    w = w
    p1 = p1
    p2 = p2
    Conns <- OneConn
    Watcher = w
    Publishers <- OnePublisher
    Kinds <- OtherChanges
    Commands <- Requests
    Capacity = 1
    MaxChanges = 2
    MaxRefreshes = 1
PROPERTY StaleIsEnded
PROPERTY ShutdownIsTold
CHECK_DEADLOCK FALSE
