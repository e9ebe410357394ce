SPECIFICATION ParseSpec
CONSTANTS
    MaxLineSize = 3
    MaxSkipped = 2
    Unnamed = 0
    Requests <- MCRequests
INVARIANTS
    AsOneFile
    NothingInPart
CHECK_DEADLOCK FALSE
