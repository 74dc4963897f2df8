SPECIFICATION ClientSpec
CONSTANTS
    Workers = {w1, w2}
    Thresholds = {1}
    SuccessThreshold = 1
    MaxHalfOpenProbes = 1
    OpenTimeout = 0
    MaxJitter = 0
    GuardEnabled = FALSE
SYMMETRY Goroutines
PROPERTY NoClosedToHalfOpen
