SPECIFICATION LineSpec
CONSTANTS
    Lines <- MCLines
INVARIANTS
    AsGrammar
CHECK_DEADLOCK FALSE
