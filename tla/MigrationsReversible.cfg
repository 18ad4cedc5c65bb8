SPECIFICATION Spec
CONSTANTS
    Targets = {0}
    KnownRows = {}
PROPERTIES
    ChainStaysReversible
