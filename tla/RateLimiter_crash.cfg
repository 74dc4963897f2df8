SPECIFICATION Spec
CONSTANTS
    Workers = {w1, w2}
    NoOne = NoOne
    Burst = 2
    StaleAfter = 4
    MaxCheck = 1
    MaxDebt = 1
INVARIANT NeverDies
CHECK_DEADLOCK FALSE
