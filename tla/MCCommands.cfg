SPECIFICATION Spec
CONSTANTS
    CommandLines <- MCCommandLines
INVARIANTS
    Sandboxed
    ExitTells
    FlagsTogether
    RanAsWritten
CHECK_DEADLOCK FALSE
