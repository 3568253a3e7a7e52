CONSTANTS
    Names = {n1, n2}
    Blank = Blank
    Comment = Comment
    Cut = Cut
    Contents <- MCContents
    MaxSignals = 2
SPECIFICATION FairSpec
INVARIANTS TypeOK NothingLeftBehind ScanReplaysTheScope
PROPERTIES ImplementsPreparedTargets PreparationEnds
