CONSTANTS
    Absent = Absent
    Invalid = Invalid
    NoScan = NoScan
    NoRun = NoRun
    NoID = NoID
    r1 = r1
    r2 = r2
    r3 = r3
    i1 = i1
    i2 = i2
    j1 = j1
    j2 = j2
    x = x
    y = y
    n = n
    Contents <- MCContents
    OSHints <- MCOSHints
    Names = {n}
    Observations <- MCObservations
    Scopes = {x}
    Runs = {r1, r2}
    Services = {1, 2}
    Jobs = {j1, j2}
    ScanIDs = {i1, i2}
    ScopeOf <- OneScope
    ServiceOf <- OneEach
    Replies <- AnyReply
    Silences = {"refused"}
    Outcomes <- MCOutcomes
SPECIFICATION MCSpec
SYMMETRY Symmetry
INVARIANTS RTypeOK ResourcesAreHeldAndReleased ReservationIsOwn ConsumerFollowsBaseline ExitZeroMeansPromoted
PROPERTIES PromotionObservedEverything
