SPECIFICATION Spec
CONSTANTS
    Items <- MCItems
    Contexts <- MCContexts
    Corpora <- MCCorpora
    Stored <- MCStored
    Drafts <- MCDrafts
    Method = "hybrid"
    MaxCandidates = 3
    MaxToolCalls = 3
    MaxTurns = 3
    MaxRefs = 2
    CatalogRefs = 4
    MinChannels = 2
    MaxPaths = 2
    MaxEntities = 3
    TopK = 2
    SearchLimit = 3
    CharacterBudget = 10
    MaxExcerpt = 8
    AllowedTypes = {"runbook"}
INVARIANTS
    ReportsCiteWhatWasShown
    ReportedCausesAreProven
    ProofsAreReachable
    HonestDraftsPass
    FusionRespectsAgreement
CHECK_DEADLOCK FALSE
