SPECIFICATION Spec
CONSTANTS
    h1 = h1
    h2 = h2
    r1 = r1
    w = w
    s = s
    Handlers <- TwoHandlers
    Reporters <- NoThreads
    Writer = w
    Server = s
    Interval = 1
    NumInodes = 5
    MaxChanges = 2
    MaxExits = 0
    MaxCrashes = 0
    MaxFaults = 0
INVARIANT
    SavedIsNotLost
CHECK_DEADLOCK FALSE
