SPECIFICATION Spec
CONSTANTS
    h1 = h1
    h2 = h2
    r1 = r1
    w = w
    s = s
    Handlers <- NoThreads
    Reporters <- OneReporter
    Writer = w
    Server = s
    Interval = 1
    NumInodes = 5
    MaxChanges = 1
    MaxExits = 1
    MaxCrashes = 0
    MaxFaults = 0
INVARIANT
    FlushLosesNothing
CHECK_DEADLOCK FALSE
