SPECIFICATION Spec
CONSTANTS
    c1 = c1
    w = w
    p1 = p1
    p2 = p2
    Conns <- OneConn
    Watcher = w
    Publishers <- TwoPublishers
    Kinds <- NodeChanges
    Commands <- Listen
    Capacity = 2
    MaxChanges = 3
    MaxRefreshes = 0
INVARIANT ListenerIsInformed
INVARIANT GraphFollowsNodes
PROPERTY ImplementsEventStream
CHECK_DEADLOCK FALSE
