SPECIFICATION ConfigSpec
CONSTANTS
    Text <- MCText
    NoText = "none"
    KeyOption = "key"
    AliasName = {"key", "work", "AAAA"}
    Key = {"k1", "k2"}
    NoKey = "no key"
    KeyOf <- MCKeyOf
    Requests <- MCRequests
INVARIANTS
    ParsedAsStated
    Unambiguous
CHECK_DEADLOCK FALSE
