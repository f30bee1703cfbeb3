SPECIFICATION TelemetrySpec
CONSTANTS
    SourceStates <- MCSourceStates
    Window <- MCWindow
    MaxDrafts = 4
    Metrics <- MCMetrics
    ServiceNames <- MCServiceNames
    WorkloadPods <- MCWorkloadPods
    MaxSamples = 5
    Edges <- MCEdges
    MinAligned = 3
    Services <- MCServices
    Flows <- MCFlows
    Rooted <- MCRooted
    Selected <- MCSelected
    FlowBudget = 8
    PodPage = 2
    MaxPods = 3
    MaxKills = 2
    Scoped <- MCScoped
    Rolled = "cart"
    Templates = {1, 2, 3}
    HistoryLimit = 2
    SetPage = 1
    MaxReplicaSets = 2
    LastTick = 8
    LastRevision = 4
INVARIANTS NoChangesMeansUnchanged
CHECK_DEADLOCK FALSE
