SPECIFICATION Spec
CONSTANTS
    Jobs = {1, 2}
    Legacy = {}
    Clients = {c1}
    MaxAttempts = 2
    MaxChecks = 1
    HasTimeout = TRUE
    MaxRestarts = 1
    MaxDbErrors = 0
PROPERTIES
    TerminalNotCancelled
CHECK_DEADLOCK FALSE
