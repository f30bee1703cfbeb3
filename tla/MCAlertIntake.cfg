\* Two webhooks and a worker on two Incidents.
SPECIFICATION MCSpec
CONSTANTS
    Receivers = {r1, r2}
    Workers = {w1}
    Keys = {k1, k2}
    Ends = {e1, e2}
    NoEnd = NoEnd
    NoDocument = NoDocument
    Nobody = Nobody
    MaxAlerts = 2
    MaxStage = 1
SYMMETRY IntakeSymmetry
INVARIANTS AcceptedIsRecorded ConflictIsReal AuditedOnce
PROPERTIES EndIsFinal
