SPECIFICATION FairSpec
CONSTANTS
    p1 = p1
    p2 = p2
    p3 = p3
    i1 = i1
    i2 = i2
    c1 = c1
    c2 = c2
    c3 = c3
    Processes <- MCProcesses
    Pids <- MCPids
    PidOf <- MCPidOf
    Clients <- MCClients
    ProcessOf <- MCProcessOf
    MaxClients = 1
    MaxOpen = 2
    MaxRequests = 1
    None = None
CHECK_DEADLOCK FALSE
INVARIANTS
    TypeOK
    OrphansAreDead
    NotedIsConserved
PROPERTIES
    RetiresOnlyUnused
    OrphansHandedOver
    UnusedServiceStops
