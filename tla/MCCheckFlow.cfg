SPECIFICATION Spec
CONSTANTS
    Key = {"plain", "brief", "late", "odd", "host"}
    Namespace = {"git", "file"}
    Time <- MCTime
    NoKey = "none"
    BadKey = "bad"
    NoName = "none"
    NoTime = NoTime
    CertOf <- MCCertOf
    Requests <- MCRequests
    EndTime = 3
    Half = 2
    Second = 2
INVARIANTS
    OnlyCheckedAccepted
    CheckedAccepted
    AllFailuresReported
CHECK_DEADLOCK FALSE
