SPECIFICATION Spec
CONSTANTS
    Principal = {"alice"}
    AnyPrincipal = "any"
    Key = {"plain", "brief", "long", "odd", "host", "other"}
    Namespace = {"git", "file"}
    NoName = "none"
    NoTime = NoTime
    Time <- MCTime
    Half = 2
    Second = 2
    CertOf <- MCCertOf
    Requests <- MCRequests
    EndTime = 3
INVARIANTS
    OnlyTrustedAccepted
    TrustedAccepted
    InvalidIsReported
    AllChecksRun
    DesignationIsBacked
CHECK_DEADLOCK FALSE
