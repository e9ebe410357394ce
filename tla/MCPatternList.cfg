SPECIFICATION ListSpec
CONSTANTS
    Byte <- MCByte
    Calls <- MCCalls
INVARIANTS
    ResultIsGlob
    NegationWins
PROPERTIES
    Progress
    Returns
CHECK_DEADLOCK FALSE
