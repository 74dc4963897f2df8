SPECIFICATION FairSpec
CONSTANTS
    Workers = {w1}
    Thresholds = {2, 3}
    SuccessThreshold = 2
    MaxHalfOpenProbes = 1
    OpenTimeout = 2
    MaxJitter = 1
    GuardEnabled = FALSE
PROPERTY ImplementsContract
