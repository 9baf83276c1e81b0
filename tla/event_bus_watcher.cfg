SPECIFICATION FairSpec
CONSTANTS
    c1 = c1
    w = w
    p1 = p1
    p2 = p2
    Conns <- NoConns
    Watcher = w
    Publishers <- OnePublisher
    Kinds <- NodeChanges
    Commands <- Listen
    Capacity = 2
    MaxChanges = 5
    MaxRefreshes = 0
PROPERTY GraphIsRepublished
CHECK_DEADLOCK FALSE
