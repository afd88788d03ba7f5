SPECIFICATION FairSpec
CONSTANTS
    Requests <- MCRequests
    Workers <- MCWorkers
    Principals <- MCPrincipals
    Capacity = 2
    Rate = 1
    IdentityCapacity = 5
    IdentityRate = 4
    Pause = 13
    Second = 50
    ErrorPercent = 30
    MaxLatency = 1
    MinThroughput = 2
    Min429 = 1
    MaxSeconds = 2
    MaxFaults = 1
INVARIANTS
    CompliantLoadIsNeverLimited
    OverloadIsRefused
    UndisturbedLoadPasses
PROPERTIES
    LoadEnds
CHECK_DEADLOCK FALSE
