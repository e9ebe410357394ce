SPECIFICATION Spec
CONSTANTS
    Key <- MCKey
    CertOf <- MCCertOf
    PlainOf <- MCPlainOf
    TypeOf <- MCTypeOf
    NoKey = "no key"
    Requests <- MCRequests
    Timeout = 2
    EndTime = 3
    Half = 2
    Second = 2
INVARIANTS
    RejectedUpFront
CHECK_DEADLOCK FALSE
