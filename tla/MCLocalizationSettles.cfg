\* One worker of each kind, fair: the localization row of a REPORTED Incident.
CONSTANTS
    Incidents = {i1}
    NoIncident = NoIncident
    MaxAttempts = 2
    ReapLimit = 50
    IncidentWorkers = {w1}
    Profiled = {}
    ContinuousAgents = {a1}
    TargetedAgents = {}
    Eligible = {i1}
SPECIFICATION ProgressSpec
PROPERTIES
    LocalizationWorkSettles
