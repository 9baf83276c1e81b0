SPECIFICATION Spec
CONSTANTS
    h1 = h1
    h2 = h2
    r1 = r1
    w = w
    s = s
    Handlers <- OneHandler
    Reporters <- OneReporter
    Writer = w
    Server = s
    Interval = 1
    NumInodes = 5
    MaxChanges = 2
    MaxExits = 1
    MaxCrashes = 2
    MaxFaults = 1
INVARIANTS
    WriterOwnsDirty
    NoLostWakeup
    IntactFile
    AckedOnDisk
    NothingForgotten
PROPERTIES
    CoalescedWritesPaced
    ImplementsDurableMap
CHECK_DEADLOCK FALSE
