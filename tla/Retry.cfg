SPECIFICATION FairSpec
CONSTANTS
    Configs <- MCConfigs
    Responses <- MCResponses
    RetryAfters <- MCRetryAfters
    MaxCall = 2
    Lag = 2
INVARIANTS TypeOK SpendingBounded DeadlineKept GivesUpForAReason
PROPERTY RequestAnswered
CHECK_DEADLOCK FALSE
