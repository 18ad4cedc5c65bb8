SPECIFICATION EvalSpec
CONSTANTS
    Jobs = {1}
    Legacy = {}
    Clients = {}
    MaxAttempts = 3
    MaxChecks = 1
    HasTimeout = FALSE
    MaxRestarts = 3
    MaxDbErrors = 0
INVARIANTS
    InterruptIsSafe
CHECK_DEADLOCK FALSE
