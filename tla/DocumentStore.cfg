SPECIFICATION Spec
CONSTANTS
    Docs = {s1, d1}
    Seeds = {s1}
    Versions = {v1, v2}
    SeedText = v1
    Clients = {c1, c2, c3}
    MaxCrashes = 2
INVARIANTS
    TypeOK
    RowHasFile
    DeletedCollectionIsEmpty
    FilesMatchRows
PROPERTIES
    DeletedStaysDeleted
    RestartKeepsEdits
SYMMETRY Symmetry
CHECK_DEADLOCK FALSE
