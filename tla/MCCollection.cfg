\* Both claims of one Incident collect at once, with a slow, a hung and a lying
\* provider; pages of one object and of one Event, limits that are reached.
SPECIFICATION MCSpec
CONSTANTS
    Workers = {1, 2}
    Specs <- MCSpecs
    Batches <- MCBatches
    Scope <- MCScope
    Baseline = 1
    Opened = 3
    IncidentEnd = NoEnd
    NoEnd = NoEnd
    NoContext = NoContext
    MaxTime = 5
    Roots <- MCRoots
    Objects <- MCObjects
    Occurrences <- MCEvents
    Fleeting <- MCFleeting
    PageSize = 1
    MaxRaw = 9
    EventPage = 1
    MaxRawEvents = 2
    MaxEvents = 1
    MaxConfigMaps = 1
    MaxItems = 8
    Window <- MCWindow
    MaxDrafts = 4
    Metrics <- MCMetrics
    ServiceNames <- MCServiceNames
    WorkloadPods <- MCWorkloadPods
    MaxSamples = 5
    Edges <- MCEdges
    MinAligned = 3
    Services <- MCServices
    Flows <- MCFlows
    Rooted <- MCRooted
    Selected <- MCSelected
    FlowBudget = 8
    PodPage = 2
    MaxPods = 3
    MaxKills = 2
    Scoped <- MCScoped
    Rolled = "cart"
    Templates = {1, 2, 3}
    HistoryLimit = 2
    SetPage = 1
    MaxReplicaSets = 2
    LastTick = 7
    LastRevision = 3
    SourceStates <- MCSourceStates
INVARIANTS
    PunctualityDecides
    BatchesAreStoredWhole
    FrozenFromWholeRuns
    NothingIsMissingSilently
    OnlyWhatWasThere
    CollectedIsProjectable
    SummariesAreExact
\* Every run may end or die, and the bounded clock stops.
PROPERTIES HungProvidersDoNotHold
CHECK_DEADLOCK FALSE
