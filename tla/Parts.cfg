CONSTANTS
    p1 = p1
    p2 = p2
    w1 = w1
    w2 = w2
    w3 = w3
    w4 = w4
    Services <- MCServices
    Timeout = 2
    HTTPLimit = 4
    MaxDials = 1
    Ports <- MCPorts
    TxIDs <- MCTxIDs
    Sockets <- MCSockets
    Probes = 2
    Workers <- MCWorkers
    Rate = 3
    MaxAge = 6
    Keys = {k1, k2}
    Payloads <- MCPayloads
    Open <- OpenPayloads
    Absent = absent
    MaxBatchSize = 2
    Capacity = 1
    MaxResults = 4
SPECIFICATION MCSpec
INVARIANTS PartsTypeOK ProbeIsTimely ObservationsAreGenuine OpenMeansAnswered BoundedStarts HistoryIsKept
PROPERTIES EveryWaitEnds ManagerReturns
CHECK_DEADLOCK FALSE
