SPECIFICATION MCSpec
CONSTANTS
    Workers = {w1, w2}
    NoOne = NoOne
    Burst = 2
    StaleAfter = 6
    MaxCheck = 2
    MaxDebt = 2
INVARIANTS HeldIsCurrent NeverFailOpen Conforms
PROPERTY RequestsReturn
CHECK_DEADLOCK FALSE
