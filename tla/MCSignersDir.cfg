SPECIFICATION Spec
CONSTANTS
    Name = {1, 2, 3}
    Conf = {1, 3}
    Inode = {"f", "g"}
    NoFile = "none"
    Limit = 2
    MaxSize = 3
    MaxChange = 2
    Worlds <- MCWorlds
INVARIANTS
    TrustedWhenRead
    AllLoaded
    WholeFiles
    BoundedTotal
CHECK_DEADLOCK FALSE
