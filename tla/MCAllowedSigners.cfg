SPECIFICATION Spec
CONSTANTS
    Principal = {"alice"}
    AnyPrincipal = "any"
    Key = {"k1", "k2"}
    Namespace = {"git", "file"}
    Time <- MCTime
    Lookups <- MCLookups
INVARIANTS
    ErrorExplainsAll
PROPERTIES
    ImplementsLookup
CHECK_DEADLOCK FALSE
