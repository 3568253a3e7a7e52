CONSTANTS
    Octets = 3
    Width = 1
    HostNames <- MCHostNames
    Resolutions <- MCResolutions
    MaxPort = 2
    TargetLists <- MCTargetLists
    PortTexts <- MCPortTexts
    Listenings <- MCListenings
    MaxScans = 2
    Ports = {23, 443, 3306}
    RuleFiles <- MCRuleFiles
    Observations <- MCObservations
    Absent = absent
SPECIFICATION MCSpec
INVARIANTS ScopesAndEventsTypeOK ScopeIsProbed ClosedWasProbed MostSpecificContext StandingEventFollowsState
PROPERTIES UnchangedNetworkIsSilent
