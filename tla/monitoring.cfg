SPECIFICATION Spec
CONSTANTS
    n1 = n1
    Nodes <- OneNode
    MaxInterval = 2
    MaxDelay = 1
    MaxChanges = 1
    MaxSubs = 2
    MaxOutages = 1
    MaxDrops = 0
    MaxTimeouts = 1
    MaxRequests = 1
    MaxUnsaved = 1
INVARIANTS
    ReportsAreOurs
    SubscribedIsCurrent
    GoneStaysGone
    
PROPERTY
    NoFalseSilence
CHECK_DEADLOCK FALSE
