SPECIFICATION ThreadsSpec
CONSTANTS
    h1 = h1
    r1 = r1
    w = w
    s = s
    Handlers <- OneHandler
    Reporters <- OneReporter
    Writer = w
    Server = s
    Interval = 2
    NumInodes = 4
    MaxChanges = 3
    MaxExits = 0
    MaxCrashes = 0
    MaxFaults = 0
    Callers = {"k1", "k2"}
    Ops = {"local", "read"}
    ChannelSize = 1
    MaxCalls = 2
    MaxChunks = 2
PROPERTIES
    PromiseKept
    StandsDown
    EveryCallReturns
CHECK_DEADLOCK FALSE
