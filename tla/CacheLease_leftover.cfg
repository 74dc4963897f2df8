SPECIFICATION Spec
CONSTANTS
    Requests = {r1, r2}
    LeaseTimeout = 3
    MaxExecution = 2
INVARIANT LeaseCleanedUp
