\* One incident worker, the continuous agent and a targeted run on one
\* Incident: two analyses of it overlap.  No collection lease runs out.
CONSTANTS
    Incidents = {i1}
    NoIncident = NoIncident
    MaxAttempts = 2
    ReapLimit = 50
    IncidentWorkers = {w1}
    Profiled = {}
    ContinuousAgents = {a1}
    TargetedAgents = {a2}
    Eligible = {i1}
SPECIFICATION OverlapSpec
INVARIANTS
    ReportsAreBacked
PROPERTIES
    ImplementsLifecycle
    DatabaseActsAsMemory
