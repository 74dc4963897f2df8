SPECIFICATION FairSpec
CONSTANTS
    Workers = {w1, w2}
    Thresholds = {1, 2}
    SuccessThreshold = 2
    MaxHalfOpenProbes = 1
    OpenTimeout = 0
    MaxJitter = 0
    GuardEnabled = TRUE
INVARIANTS TypeOK SlotsAreOwned ProbesWithinLimit NoLostTrip NoLostClose
PROPERTY Recovers
