CONSTANTS
    Absent = Absent
    Invalid = Invalid
    NoScan = NoScan
    NoRun = NoRun
    NoID = NoID
    r1 = r1
    r2 = r2
    r3 = r3
    i1 = i1
    i2 = i2
    j1 = j1
    j2 = j2
    x = x
    y = y
    n = n
    Contents <- MCContents
    OSHints <- MCOSHints
    Names = {n}
    Observations <- MCObservations
    Scopes = {x}
    Runs = {r1, r2, r3}
    Services = {1}
    Jobs = {j1}
    ScanIDs = {i1, i2}
    ScopeOf <- ThreeRuns
    ServiceOf <- OneOnly
    Replies <- TurnReply
    Silences = {"refused"}
    Outcomes <- Success
SPECIFICATION MCHistorySpec
SYMMETRY Symmetry
INVARIANTS ConsumerFollowsBaseline
