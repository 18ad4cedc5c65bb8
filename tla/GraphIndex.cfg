SPECIFICATION Spec
CONSTANTS
    Docs = {d1, d2}
    Contents = {v1, v2}
    Names = {n1, n2}
    Clients = {c1}
    MaxBuilds = 2
    MaxSets = 1
INVARIANTS
    TypeOK
    GraphIsOneBuild
    GraphIsCurrent
    QuestionsKeepTheirSource
    DeletedCollectionIsEmpty
    UndisturbedAnswer
PROPERTIES
    EvaluatedGraphIsFrozen
SYMMETRY Symmetry
CHECK_DEADLOCK FALSE
