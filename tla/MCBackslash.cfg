SPECIFICATION LineSpec
CONSTANTS
    Lines <- MCLines
INVARIANTS
    BackslashIsPlain
CHECK_DEADLOCK FALSE
