CONSTANTS
    Absent = Absent
    Invalid = Invalid
    NoScan = NoScan
    s1 = s1
    s2 = s2
    a = a
    b = b
    Services <- MCServices
    Contents <- MCContents
    OSHints <- MCOSHints
    Names <- MCNames
    Observations <- MCObservations
    Scopes = {x, y}
    ScanIDs = {i}
SPECIFICATION Spec
INVARIANTS TypeOK StateNeedsSchema
PROPERTIES DamagedBaselineIsFrozen PromotionConsumesItsScan ChangesExplainBaseline ImplementsLedger
CHECK_DEADLOCK FALSE
