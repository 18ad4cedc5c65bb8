SPECIFICATION Spec
CONSTANTS
    Docs = {d1}
    Contents = {v1, v2}
    Names = {n1}
    Clients = {c1}
    MaxBuilds = 2
    MaxSets = 1
INVARIANTS
    ReindexIsPossible
CHECK_DEADLOCK FALSE
