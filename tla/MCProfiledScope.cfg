SPECIFICATION MCSpec
CONSTANTS
    APIs = {1, 2, 3, 4}
    Service <- MCService
    Alerting = 1
    Dependencies <- MCDependencies
    Features <- MCFeatures
    Policies <- MCPolicies
    Threshold = 80
    NoAPI = 0
    Attempts = {1, 2}
    Entities <- MCEntities
    Steady <- MCSteady
    Collected = 2
    Lease = 1
    MaxTime = 3
    NoEnd = NoEnd

INVARIANT SeedsOrSourceScope
CHECK_DEADLOCK FALSE
