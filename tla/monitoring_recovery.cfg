SPECIFICATION FairSpec
CONSTANTS
    n1 = n1
    Nodes <- OneNode
    MaxInterval = 1
    MaxDelay = 0
    MaxChanges = 1
    MaxSubs = 3
    MaxOutages = 1
    MaxDrops = 1
    MaxTimeouts = 1
    MaxRequests = 0
    MaxUnsaved = 0
PROPERTIES
    EventuallyCurrent
    EventuallyUnavailable
CHECK_DEADLOCK FALSE
