SPECIFICATION EvalFairSpec
CONSTANTS
    Jobs = {1, 2}
    Legacy = {2}
    Clients = {c1}
    MaxAttempts = 3
    MaxChecks = 2
    HasTimeout = TRUE
    MaxRestarts = 2
    MaxDbErrors = 1
INVARIANTS
    EvalTypeOK
    NoPartialResults
    SucceededJobHasReport
    ReportCountsResults
    JobAndRunEndAlike
PROPERTIES
    EveryJobSettles
    EveryRunEnds
CHECK_DEADLOCK FALSE
