SPECIFICATION Spec
CONSTANTS
    MaxAttempts = 2
    Sizes = {2, 3}
    MaxConcurrency = 2
    StoreConcurrency = 2
    Repeated = {2}
    Batches = {3}
    Tenants = {"default", "uuid"}
    Replies <- MCReplies
    ScoreConcurrency = 2
    Top = 2
    ScoreLists <- MCScoreLists
    Policies <- MCPolicies
    MinValids = {1, 2}
    Candidates = {1, 2}
    Malformed <- MCMalformed
    Callers = {c1, c2}
    MaxTries = 2
    Statuses <- MCStatuses
    Usages <- MCUsages
    PromptRate = 250
    OutputRate = 1000
INVARIANTS
    ResultsStored UndoneOnFailure
    EventsTrue ScoresTrue
    AggregateRight VerdictIsBest
    PaidOnce StatsTrue
PROPERTIES OutputFrozen TasksEnd
\* A task that has ended stops.
CHECK_DEADLOCK FALSE
