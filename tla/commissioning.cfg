SPECIFICATION Spec
CONSTANTS
    c1 = c1
    c2 = c2
    d1 = d1
    d2 = d2
    d3 = d3
    Conns <- TwoConns
    Devices <- ThreeDevices
    Adopted <- OneAdopted
    AdoptedId <- FirstId
    AdoptedNext = 2
    MaxId = 4
    MaxKills = 2
    MaxTimeouts = 1
    MaxFaults = 1
    MaxRequests = 2
INVARIANTS
    IdsAreUnique
    NoStranger
    NoGhosts
PROPERTY
    NeverReissued
CHECK_DEADLOCK FALSE
