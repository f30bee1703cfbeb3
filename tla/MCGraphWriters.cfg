\* Two jobs that overlap and die on two Entities that change, through two slots; or one
\* job at a time and one Incident with late Evidence, within the first slot.
SPECIFICATION MCSpec
CONSTANTS
    Entities = {e1, e2}
    States = {1, 2}
    Gone = Gone
    Open = Open
    NoEntity = NoEntity
    Incidents = {i1}
    NoPin = NoPin
    OrdinaryHistory = 1
    PinnedHistory = 2
    Jobs = {j1, j2}
    Interval = 4
    JobLife = 1
    AppliedHistory = 3
    StagedHistory = 2
    Never = Never
    Baseline = 1
    MaxLag = 1
    OneState = 1
    MaxTime = 5
    NoEvidence = NoEvidence
SYMMETRY GraphSymmetry
INVARIANTS
    DisjointUnlessTied
    RetiredIsClosed
    AppliedIsReconciled
    RetryChangesNothing
PROPERTIES PinnedHistoryIsKept
