----------------------------- MODULE CheckFlow -----------------------------
(***************************************************************************)
(* One call of Check (pkg/flow/check.go): a signature is held against a    *)
(* given key and namespace, without allowed signers.  The instant it is    *)
(* judged at is taken once the signature is read, unlike in Verify; what   *)
(* reads and verifies may fail, and takes time.                            *)
(***************************************************************************)
EXTENDS Certificate, Sequences, FiniteSets, Functions

CONSTANTS
    Key, Namespace, Time,
    NoKey,    \* the empty -k option
    BadKey,   \* a -k option that ParsePublicKeyLine refuses
    NoName,   \* the empty -n option
    NoTime,   \* no timestamp was given
    CertOf,   \* what kind of certificate each key is
    Requests, \* the options, with the signature
    EndTime   \* bound: the clock stops here

Options ==
    [signatureFile : BOOLEAN, verifyFile : BOOLEAN,
     authKey : Key \cup {NoKey, BadKey}, noAuthKey : BOOLEAN,
     namespace : Namespace \cup {NoName}, noNamespace : BOOLEAN,
     time : Time \cup {NoTime}]

Request == [opts : Options, sig : [key : Key, ns : Namespace]]

ASSUME CheckAssumption ==
    /\ {NoKey, BadKey} \cap Key = {} /\ NoKey # BadKey
    /\ NoName \notin Namespace /\ NoTime \notin Int
    /\ Time \subseteq Int
    /\ CertOf \in [Key -> CertificateOf]
    /\ Requests \subseteq Request
    \* Unix() of a time is an int64.
    /\ \A t \in Time : t < Half * Second

VARIABLES
    opts, sig,
    clock,     \* time.Now()
    readAt,    \* the clock when the signature was read
    timestamp, \* the instant the certificate is judged at
    authentication, designation, verification, \* of res
    outcome,   \* how SignatureVerify went
    errs,      \* which check every collected error is from
    result,    \* TRUE when Check returns a result, not nil
    pc

statuses == <<authentication, designation, verification>>
vars == <<opts, sig, clock, readAt, timestamp, statuses, outcome, errs, result, pc>>

-----------------------------------------------------------------------------

Init ==
    /\ \E r \in Requests : opts = r.opts /\ sig = r.sig
    /\ clock \in Time /\ clock <= EndTime
    /\ readAt = NoTime /\ timestamp = NoTime
    /\ authentication = "" /\ designation = "" /\ verification = ""
    /\ outcome = ""
    /\ errs = <<>> /\ result = FALSE
    /\ pc = "readers"

\* Time passes while the call works or waits for its readers.
Tick ==
    /\ pc # "done"
    /\ clock < EndTime /\ clock + 1 \in Time
    /\ clock' = clock + 1
    /\ UNCHANGED <<opts, sig, readAt, timestamp, statuses, outcome, errs, result, pc>>

\* return nil, append(errs, checks...)
Fail(checks) ==
    /\ errs' = errs \o checks
    /\ result' = FALSE
    /\ pc' = "done"

CheckAuthKey == IF opts.noAuthKey THEN opts.authKey = NoKey ELSE opts.authKey \in Key
CheckNamespace == opts.noNamespace <=> opts.namespace = NoName

RequireReaders ==
    /\ pc = "readers"
    /\ \/ /\ opts.signatureFile /\ opts.verifyFile
          /\ pc' = "options"
          /\ UNCHANGED <<errs, result>>
       \/ ~(opts.signatureFile /\ opts.verifyFile) /\ Fail(<<"reader">>)
    /\ UNCHANGED <<opts, sig, clock, readAt, timestamp, statuses, outcome>>

\* Both options are looked at before either is complained about.
CheckOptions ==
    /\ pc = "options"
    /\ LET complaints == (IF CheckAuthKey THEN <<>> ELSE <<"auth key">>)
                           \o (IF CheckNamespace THEN <<>> ELSE <<"namespace">>)
       IN  \/ complaints # <<>> /\ Fail(complaints)
           \/ /\ complaints = <<>>
              /\ pc' = "signature"
              /\ UNCHANGED <<errs, result>>
    /\ UNCHANGED <<opts, sig, clock, readAt, timestamp, statuses, outcome>>

SignatureReadFails ==
    /\ pc = "signature"
    /\ Fail(<<"signature">>)
    /\ UNCHANGED <<opts, sig, clock, readAt, timestamp, statuses, outcome>>

SignatureRead ==
    /\ pc = "signature"
    /\ readAt' = clock
    /\ pc' = "timestamp"
    /\ UNCHANGED <<opts, sig, clock, timestamp, statuses, outcome, errs, result>>

\* Mutant: -t does not reach the certificate.
TakeClock ==
    /\ pc = "timestamp"
    /\ timestamp' = clock
    /\ pc' = "authentication"
    /\ UNCHANGED <<opts, sig, clock, readAt, statuses, outcome, errs, result>>

TakeTimestamp ==
    /\ pc = "timestamp"
    /\ timestamp' = IF opts.time = NoTime THEN clock ELSE opts.time
    /\ pc' = "authentication"
    /\ UNCHANGED <<opts, sig, clock, readAt, statuses, outcome, errs, result>>

\* Mutant: -K skips the comparison of the keys only.
SkipKeyOnly ==
    /\ pc = "authentication" /\ opts.noAuthKey
    /\ LET fits == CertificateValidAt(CertOf[sig.key], timestamp)
       IN  /\ authentication' = IF fits THEN "disabled" ELSE "invalid"
           /\ errs' = IF fits THEN errs ELSE Append(errs, "certificate")
    /\ pc' = "designation"
    /\ UNCHANGED <<opts, sig, clock, readAt, timestamp, designation, verification, outcome, result>>

SkipAuthentication ==
    /\ pc = "authentication" /\ opts.noAuthKey
    /\ authentication' = "disabled"
    /\ pc' = "designation"
    /\ UNCHANGED <<opts, sig, clock, readAt, timestamp, designation, verification, outcome,
                   errs, result>>

\* Mutant: a wrong key hides what is wrong with the certificate.
AuthenticateFirst ==
    /\ pc = "authentication" /\ ~opts.noAuthKey
    /\ LET wrongKey == IF opts.authKey = sig.key THEN <<>> ELSE <<"key">>
           expired == IF wrongKey # <<>> \/ CertificateValidAt(CertOf[sig.key], timestamp) THEN <<>>
                      ELSE <<"certificate">>
       IN  /\ authentication' = IF wrongKey \o expired = <<>> THEN "valid" ELSE "invalid"
           /\ errs' = errs \o wrongKey \o expired
    /\ pc' = "designation"
    /\ UNCHANGED <<opts, sig, clock, readAt, timestamp, designation, verification, outcome, result>>

\* The key and the certificate are reported independently of each other.
Authenticate ==
    /\ pc = "authentication" /\ ~opts.noAuthKey
    /\ LET wrongKey == IF opts.authKey = sig.key THEN <<>> ELSE <<"key">>
           expired == IF CertificateValidAt(CertOf[sig.key], timestamp) THEN <<>>
                      ELSE <<"certificate">>
       IN  /\ authentication' = IF wrongKey \o expired = <<>> THEN "valid" ELSE "invalid"
           /\ errs' = errs \o wrongKey \o expired
    /\ pc' = "designation"
    /\ UNCHANGED <<opts, sig, clock, readAt, timestamp, designation, verification, outcome, result>>

Designate(status, reported) ==
    /\ pc = "designation"
    /\ designation' = status
    /\ errs' = IF reported THEN Append(errs, "designation") ELSE errs
    /\ pc' = "verify"
    /\ UNCHANGED <<opts, sig, clock, readAt, timestamp, authentication, verification, outcome, result>>

ResolveDesignation ==
    \/ opts.noNamespace /\ Designate("disabled", FALSE)
    \/ ~opts.noNamespace /\ opts.namespace = sig.ns /\ Designate("valid", FALSE)
    \/ ~opts.noNamespace /\ opts.namespace # sig.ns /\ Designate("invalid", TRUE)

Verified(status, how) ==
    /\ pc = "verify"
    /\ verification' = status
    /\ outcome' = how
    /\ result' = TRUE
    /\ pc' = "done"
    /\ UNCHANGED <<opts, sig, clock, readAt, timestamp, authentication, designation>>

VerifyOK == Verified("valid", "ok") /\ UNCHANGED errs
VerifyBad == Verified("invalid", "bad") /\ errs' = Append(errs, "verification")

\* A read failure leaves verification undecided.
VerifyReadFails ==
    /\ pc = "verify"
    /\ outcome' = "unread"
    /\ Fail(<<"read">>)
    /\ UNCHANGED <<opts, sig, clock, readAt, timestamp, statuses>>

Next ==
    \/ Tick
    \/ RequireReaders \/ CheckOptions
    \/ SignatureReadFails \/ SignatureRead \/ TakeTimestamp
    \/ SkipAuthentication \/ Authenticate \/ ResolveDesignation
    \/ VerifyOK \/ VerifyBad \/ VerifyReadFails

Spec == Init /\ [][Next]_vars

-----------------------------------------------------------------------------

Status == {"", "valid", "invalid", "disabled"}
Checks ==
    {"reader", "auth key", "namespace", "signature", "key", "certificate", "designation",
     "verification", "read"}

TypeOK ==
    /\ opts \in Options /\ sig \in [key : Key, ns : Namespace]
    /\ clock \in Time
    /\ readAt \in Time \cup {NoTime} /\ timestamp \in Time \cup {NoTime}
    /\ authentication \in Status /\ designation \in Status /\ verification \in Status
    /\ outcome \in {"", "ok", "bad", "unread"}
    /\ errs \in Seq(Checks)
    /\ result \in BOOLEAN
    /\ pc \in {"readers", "options", "signature", "timestamp", "authentication", "designation",
               "verify", "done"}

Accepted == pc = "done" /\ result /\ errs = <<>>

\* An instant Check may judge the certificate at: the requested one, or one at which
\* the signature has been read and the call is in progress.
Instants == IF opts.time = NoTime THEN {t \in Time : readAt <= t /\ t <= clock} ELSE {opts.time}

RightNamespace == opts.noNamespace \/ opts.namespace = sig.ns
RightKey == opts.noAuthKey \/ opts.authKey = sig.key

\* flow/check.go: Check succeeds only for data that verifies, and a check that no
\* option disables has passed: the given key signed, its certificate was valid when
\* the signature was there to be judged, and for the given namespace.
OnlyCheckedAccepted ==
    Accepted =>
        /\ outcome = "ok"
        /\ RightKey /\ RightNamespace
        /\ opts.noAuthKey \/ \E t \in Instants : Within(CertOf[sig.key], t)

\* flow/check.go: "-K skips signer authentication, including certificate validity",
\* and no disabled check keeps a signature from being accepted.
CheckedAccepted ==
    /\ pc = "done" /\ outcome = "ok"
    /\ RightKey /\ RightNamespace
    /\ \/ opts.noAuthKey
       \/ /\ \A t \in Instants : Within(CertOf[sig.key], t)
          /\ CertOf[sig.key].validBefore < Half \/ CertOf[sig.key].validBefore = Infinity
    => Accepted

\* flow/check.go: "It reports all independent failures": the errors returned with a
\* result are exactly the checks that failed, each once, whatever else failed, and a
\* status is "invalid" exactly when one of its checks is among them.
AllFailuresReported ==
    pc = "done" /\ result =>
        LET failed == Range(errs)
        IN  /\ Len(errs) = Cardinality(failed)
            /\ "key" \in failed <=> ~RightKey
            /\ "designation" \in failed <=> ~RightNamespace
            /\ "verification" \in failed <=> outcome = "bad"
            /\ "certificate" \in failed <=>
                 ~opts.noAuthKey /\ ~CertificateValidAt(CertOf[sig.key], timestamp)
            /\ authentication = "invalid" <=> failed \cap {"key", "certificate"} # {}
            /\ designation = "invalid" <=> "designation" \in failed
            /\ verification = "invalid" <=> "verification" \in failed
=============================================================================
