SPECIFICATION RoundTripSpec
CONSTANTS
    Key <- MCKey
    CertOf <- MCCertOf
    PlainOf <- MCPlainOf
    TypeOf <- MCTypeOf
    NoKey = "no key"
    Requests <- MCRequests
    Timeout = 2
    EndTime = 3
    Half = 2
    Second = 2
    MaxSize = 6
    MaxBlank = 2
    Inputs <- MCInputs
INVARIANTS
    FailuresAreTheAgents
    AskedLast
    CreatedIsReadable
    NoNeedlessRefusal
    StdinAsFile
    OneBlock
    NotMalleable
    VerifiedReadsBack
PROPERTIES
    ListingEnds
CHECK_DEADLOCK FALSE
