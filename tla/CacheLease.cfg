SPECIFICATION FairSpec
CONSTANTS
    Requests = {r1, r2}
    LeaseTimeout = 2
    MaxExecution = 3
INVARIANTS OneTaker
PROPERTIES RequestsReturn LeaseGoesAway
