\* Two incident workers on one Incident, so that a stale worker meets the one
\* that took its claim over; no agent.
CONSTANTS
    Incidents = {i1}
    NoIncident = NoIncident
    MaxAttempts = 2
    ReapLimit = 50
    IncidentWorkers = {w1, w2}
    Profiled = {i1}
    ContinuousAgents = {}
    TargetedAgents = {}
    Eligible = {i1}
SYMMETRY WorkerSymmetry
SPECIFICATION Spec
INVARIANTS
    NoStrandedIncident
    SettledWorkMatchesIncident
    ExclusiveClaims
    AnalysesRestOnEvidence
PROPERTIES
    LiveLeaseProtects
    PinnedContextIsFixed
