SPECIFICATION Spec
CONSTANTS
    Requests = {r1, r2, r3, r4}
    Tries = 2
    OldSuffixes = {2}
INVARIANTS
    GivingUpTakesACrowd
PROPERTIES
    IdsFollowCommits
CHECK_DEADLOCK FALSE
