CONSTANTS
    Within <- MCWithin
    Length <- MCLength
    CoreNames = {"auth"}
    EntryNames = {"auth"}
    MaxDepth = 2
    Graphs <- MCGraphs
    Questions <- MCQuestions
    Requests <- MCRequests
    Headers = {"none", "good", "bad"}
    AuthConfigs <- MCAuthConfigs
    HttpQueries <- MCHttpQueries
    Searches <- MCSearches
    MaxPrefixLength = 32
    Environments <- MCEnvironments
    Jobs <- MCJobs
    Rows = {1, 2, 3, 4}
    Tables <- MCTables
    PageSizes <- MCPageSizes
    MaxChanges = 2
SPECIFICATION MCSpec
INVARIANTS
    AnswersAgree
    SliceWithinBudget
    PlanMatchesImpact
    SpawnedServerAgrees
    EveryRowWritten
    WholeTableRead
    VaultLinksLead
    AnalysesSound
    ResolutionSound
CHECK_DEADLOCK FALSE
