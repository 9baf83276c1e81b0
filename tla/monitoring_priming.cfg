SPECIFICATION Spec
CONSTANTS
    n1 = n1
    Nodes <- OneNode
    MaxInterval = 1
    MaxDelay = 0
    MaxChanges = 2
    MaxSubs = 2
    MaxOutages = 0
    MaxDrops = 0
    MaxTimeouts = 0
    MaxRequests = 0
    MaxUnsaved = 0
INVARIANT
    ReportingIsCurrent
CHECK_DEADLOCK FALSE
