\* One worker of each kind, fair: every Incident ends, though two
\* of its three stages overrun their leases.
CONSTANTS
    Incidents = {i1}
    NoIncident = NoIncident
    MaxAttempts = 2
    ReapLimit = 50
    IncidentWorkers = {w1}
    Profiled = {}
    ContinuousAgents = {a1}
    TargetedAgents = {}
    Eligible = {i1}
SPECIFICATION ProgressSpec
PROPERTIES
    IncidentsEnd
    ClaimedWorkSettles
