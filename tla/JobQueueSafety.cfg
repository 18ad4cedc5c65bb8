SPECIFICATION Spec
CONSTANTS
    Jobs = {1, 2, 3}
    Legacy = {3}
    Clients = {c1}
    MaxAttempts = 2
    MaxChecks = 1
    HasTimeout = TRUE
    MaxRestarts = 2
    MaxDbErrors = 1
INVARIANTS
    TypeOK
    AttemptsBounded
    RunningIsOwned
    ColumnsAgree
PROPERTIES
    SettledIsFinal
    ImplementsBoundedExecution
CHECK_DEADLOCK FALSE
