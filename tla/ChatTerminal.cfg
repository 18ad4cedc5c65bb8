SPECIFICATION Spec
CONSTANTS
    Texts = {"a"}
    MaxLines = 2
INVARIANTS
    ExactlyOneTerminalChunk
CHECK_DEADLOCK FALSE
