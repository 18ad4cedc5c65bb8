SPECIFICATION Spec
CONSTANTS
    Texts = {"a", "b"}
    MaxLines = 3
INVARIANTS
    TypeOK
    AnswerIsTheRuntimes
    OnlyErrorsAddTerminalChunks
    FailureIsVisible
PROPERTIES
    ImplementsCompletionStream
    EveryRequestEnds
CHECK_DEADLOCK FALSE
