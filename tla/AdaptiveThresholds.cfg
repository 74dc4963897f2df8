SPECIFICATION MCSpec
CONSTANTS
    Workers = {w1, w2}
    NoOne = NoOne
    BaseThreshold = 5
    MinRequests = 2
    WindowDuration = 1
    MaxClock = 4
    MaxRequests = 4
INVARIANTS TypeOK GradedAtRest
PROPERTY ResetOncePerWindow
