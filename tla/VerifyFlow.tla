----------------------------- MODULE VerifyFlow -----------------------------
(***************************************************************************)
(* One call of Verify (pkg/flow/verify.go): the options are checked, the   *)
(* allowed signers files parsed in order, the signature read, and then all *)
(* checks run and their failures are collected.  The search of the file is *)
(* one step here, its Verdict; AllowedSigners implements it.  Reading,     *)
(* parsing and the cryptographic check are the environment's: they may     *)
(* fail, and the clock goes on while they take their time.                 *)
(***************************************************************************)
EXTENDS SignerPolicy, Certificate, Functions

CONSTANTS
    NoName,   \* the empty -n option
    NoTime,   \* no timestamp was given
    CertOf,   \* what kind of certificate each key is
    Requests, \* the options with the contents of the files they name
    EndTime   \* bound: the clock stops here

Options ==
    [signersFile : BOOLEAN,          \* AllowedSignersFile is not nil
     signersFiles : Seq(BOOLEAN),    \* AllowedSignersFiles, which of them is not nil
     signatureFile : BOOLEAN, verifyFile : BOOLEAN,
     principal : Principal \cup {AnyPrincipal},
     namespace : Namespace \cup {NoName},
     noNamespace : BOOLEAN,
     time : Time \cup {NoTime}]

Signature == [key : Key, ns : Namespace]

Request == [opts : Options, sources : Seq(Seq(Entry)), sig : Signature]

ASSUME FlowAssumption ==
    /\ NoName \notin Namespace /\ NoTime \notin Int
    /\ CertOf \in [Key -> CertificateOf]
    /\ Requests \subseteq Request
    \* Unix() of a time is an int64.
    /\ \A t \in Time : t < Half * Second

VARIABLES
    opts, sources, sig, \* the request: options, contents of the signers files, signature
    clock,              \* time.Now()
    started,            \* the clock when Verify was called
    timestamp,          \* the instant everything is judged at
    parsed, j,          \* entries parsed so far, files parsed so far
    answer,             \* ent, restricted and matchErr
    designation, authentication, verification, identity, \* of res
    outcome,            \* how SignatureVerify went
    errs,               \* which check every collected error is from
    result,             \* TRUE when Verify returns a result, not nil
    pc

request == <<opts, sources, sig, started>>
statuses == <<designation, authentication, verification, identity>>
vars == <<request, clock, timestamp, parsed, j, answer, statuses, outcome, errs, result, pc>>

-----------------------------------------------------------------------------

Init ==
    /\ \E r \in Requests : opts = r.opts /\ sources = r.sources /\ sig = r.sig
    /\ clock \in Time /\ clock <= EndTime
    /\ started = clock
    /\ timestamp = NoTime
    /\ parsed = <<>> /\ j = 0
    /\ answer = Unanswered
    /\ designation = "" /\ authentication = "" /\ verification = "" /\ identity = {}
    /\ outcome = ""
    /\ errs = <<>> /\ result = FALSE
    /\ pc = "options"

\* Time passes while the call works or waits for its readers.
Tick ==
    /\ pc # "done"
    /\ clock < EndTime /\ clock + 1 \in Time
    /\ clock' = clock + 1
    /\ UNCHANGED <<request, timestamp, parsed, j, answer, statuses, outcome, errs, result, pc>>

\* return nil, append(errs, err)
Fail(check) ==
    /\ errs' = Append(errs, check)
    /\ result' = FALSE
    /\ pc' = "done"

CheckNamespace(namespace, noNamespace) ==
    /\ ~(namespace # NoName /\ noNamespace)
    /\ ~(namespace = NoName /\ ~noNamespace)

OptionsOK ==
    /\ opts.signersFiles = <<>> => opts.signersFile
    /\ opts.signersFiles # <<>> => ~opts.signersFile
    /\ \A k \in DOMAIN opts.signersFiles : opts.signersFiles[k]
    /\ opts.signatureFile /\ opts.verifyFile
    \* The file may supply the namespace when both options are unset.
    /\ opts.namespace # NoName \/ opts.noNamespace =>
         CheckNamespace(opts.namespace, opts.noNamespace)

RejectOptions ==
    /\ pc = "options" /\ ~OptionsOK
    /\ Fail("options")
    /\ UNCHANGED <<request, clock, timestamp, parsed, j, answer, statuses, outcome>>

AcceptOptions ==
    /\ pc = "options" /\ OptionsOK
    /\ timestamp' = IF opts.time = NoTime THEN clock ELSE opts.time
    /\ pc' = "parse"
    /\ UNCHANGED <<request, clock, parsed, j, answer, statuses, outcome, errs, result>>

-----------------------------------------------------------------------------

\* Mutant: every file replaces the entries of the one before.
ParseLastSource ==
    /\ pc = "parse" /\ j < Len(sources)
    /\ parsed' = sources[j + 1]
    /\ j' = j + 1
    /\ UNCHANGED <<request, clock, timestamp, answer, statuses, outcome, errs, result, pc>>

ParseSource ==
    /\ pc = "parse" /\ j < Len(sources)
    /\ parsed' = parsed \o sources[j + 1]
    /\ j' = j + 1
    /\ UNCHANGED <<request, clock, timestamp, answer, statuses, outcome, errs, result, pc>>

ParseFails ==
    /\ pc = "parse" /\ j < Len(sources)
    /\ Fail("parse")
    /\ UNCHANGED <<request, clock, timestamp, parsed, j, answer, statuses, outcome>>

SignatureReadFails ==
    /\ pc = "parse" /\ j >= Len(sources)
    /\ Fail("signature")
    /\ UNCHANGED <<request, clock, timestamp, parsed, j, answer, statuses, outcome>>

SignatureRead ==
    /\ pc = "parse" /\ j >= Len(sources)
    /\ pc' = "match"
    /\ UNCHANGED <<request, clock, timestamp, parsed, j, answer, statuses, outcome, errs, result>>

-----------------------------------------------------------------------------

Inferred == ~opts.noNamespace /\ opts.namespace = NoName
Explicit == ~opts.noNamespace /\ opts.namespace # NoName

SignerQuery ==
    [key |-> sig.key, principal |-> opts.principal, ns |-> sig.ns, time |-> timestamp,
     mode |-> IF opts.noNamespace THEN "ignored" ELSE IF Inferred THEN "required" ELSE "checked"]

MatchSigner ==
    /\ pc = "match"
    /\ answer' = Verdict(parsed, SignerQuery)
    /\ pc' = "designation"
    /\ UNCHANGED <<request, clock, timestamp, parsed, j, statuses, outcome, errs, result>>

Designate(status, reported) ==
    /\ pc = "designation"
    /\ designation' = status
    /\ errs' = IF reported THEN Append(errs, "designation") ELSE errs
    /\ pc' = "authentication"
    /\ UNCHANGED <<request, clock, timestamp, parsed, j, answer, authentication, verification,
                   identity, outcome, result>>

\* Mutant: the results of NamespaceConstraintResult are taken in the wrong order.
RefusedSwapped == answer.permitted /\ ~answer.checked

Refused == answer.checked /\ ~answer.permitted

\* A refusal that authentication reports is not reported here.
ResolveDesignation ==
    \/ opts.noNamespace /\ Designate("disabled", FALSE)
    \/ Inferred /\ answer.entry = 0 /\ Designate("invalid", FALSE)
    \/ Inferred /\ answer.entry # 0 /\ answer.restricted /\ Designate("valid", FALSE)
    \/ Inferred /\ answer.entry # 0 /\ ~answer.restricted /\ Designate("invalid", TRUE)
    \/ Explicit /\ opts.namespace # sig.ns /\ Designate("invalid", TRUE)
    \/ /\ Explicit /\ opts.namespace = sig.ns
       /\ Refused
       /\ Designate("invalid", FALSE)
    \/ /\ Explicit /\ opts.namespace = sig.ns
       /\ ~Refused
       /\ Designate("valid", FALSE)

Authenticate(status, who, reported) ==
    /\ pc = "authentication"
    /\ authentication' = status
    /\ identity' = who
    /\ errs' = IF reported THEN Append(errs, "authentication") ELSE errs
    /\ pc' = "certificate"
    /\ UNCHANGED <<request, clock, timestamp, parsed, j, answer, designation, verification,
                   outcome, result>>

\* The identity is the requested one, or else all that the entry names.
Requested == {opts.principal} \ {AnyPrincipal}

ResolveAuthentication ==
    \/ answer.failed /\ Authenticate("invalid", Requested, TRUE)
    \/ ~answer.failed /\ answer.entry = 0 /\ Authenticate("invalid", Requested, TRUE)
    \/ /\ answer.entry # 0 /\ opts.principal = AnyPrincipal
       /\ Authenticate("disabled", parsed[answer.entry].principals, FALSE)
    \/ /\ answer.entry # 0 /\ opts.principal # AnyPrincipal
       /\ Authenticate("valid", Requested, FALSE)

\* Mutant: the certificate is judged by the clock and not at the instant.
CheckCertificateNow ==
    /\ pc = "certificate"
    /\ LET fits == CertificateValidAt(CertOf[sig.key], clock)
       IN  /\ authentication' = IF fits THEN authentication ELSE "invalid"
           /\ errs' = IF fits THEN errs ELSE Append(errs, "certificate")
    /\ pc' = "verify"
    /\ UNCHANGED <<request, clock, timestamp, parsed, j, answer, designation, verification,
                   identity, outcome, result>>

\* Mutant: the failure is reported but authentication stays as it is.
CheckCertificateApart ==
    /\ pc = "certificate"
    /\ errs' = IF CertificateValidAt(CertOf[sig.key], timestamp) THEN errs
               ELSE Append(errs, "certificate")
    /\ pc' = "verify"
    /\ UNCHANGED <<request, clock, timestamp, parsed, j, answer, statuses, outcome, result>>

CheckCertificate ==
    /\ pc = "certificate"
    /\ LET fits == CertificateValidAt(CertOf[sig.key], timestamp)
       IN  /\ authentication' = IF fits THEN authentication ELSE "invalid"
           /\ errs' = IF fits THEN errs ELSE Append(errs, "certificate")
    /\ pc' = "verify"
    /\ UNCHANGED <<request, clock, timestamp, parsed, j, answer, designation, verification,
                   identity, outcome, result>>

Verified(status) ==
    /\ verification' = status
    /\ result' = TRUE
    /\ pc' = "done"
    /\ UNCHANGED <<request, clock, timestamp, parsed, j, answer, designation, authentication,
                   identity>>

VerifyOK ==
    /\ pc = "verify"
    /\ outcome' = "ok"
    /\ Verified("valid")
    /\ UNCHANGED errs

VerifyBad ==
    /\ pc = "verify"
    /\ outcome' = "bad"
    /\ Verified("invalid")
    /\ errs' = Append(errs, "verification")

\* Mutant: a read failure is taken for a bad signature.
VerifyUnreadIsBad ==
    /\ pc = "verify"
    /\ outcome' = "unread"
    /\ Verified("invalid")
    /\ errs' = Append(errs, "verification")

\* A read failure leaves verification undecided.
VerifyReadFails ==
    /\ pc = "verify"
    /\ outcome' = "unread"
    /\ Fail("read")
    /\ UNCHANGED <<request, clock, timestamp, parsed, j, answer, statuses>>

Next ==
    \/ Tick
    \/ RejectOptions \/ AcceptOptions
    \/ ParseSource \/ ParseFails \/ SignatureReadFails \/ SignatureRead
    \/ MatchSigner \/ ResolveDesignation \/ ResolveAuthentication
    \/ CheckCertificate
    \/ VerifyOK \/ VerifyBad \/ VerifyReadFails

Spec == Init /\ [][Next]_vars

-----------------------------------------------------------------------------

Status == {"", "valid", "invalid", "disabled"}
Checks ==
    {"options", "parse", "signature", "designation", "authentication", "certificate",
     "verification", "read"}

TypeOK ==
    /\ opts \in Options /\ sources \in Seq(Seq(Entry)) /\ sig \in Signature
    /\ clock \in Time /\ started \in Time
    /\ timestamp \in Time \cup {NoTime}
    /\ parsed \in Seq(Entry) /\ j \in 0..Len(sources)
    /\ answer \in Verdicts
    /\ designation \in Status /\ authentication \in Status /\ verification \in Status
    /\ identity \subseteq Principal
    /\ outcome \in {"", "ok", "bad", "unread"}
    /\ errs \in Seq(Checks)
    /\ result \in BOOLEAN
    /\ pc \in {"options", "parse", "match", "designation", "authentication", "certificate",
               "verify", "done"}

Accepted == pc = "done" /\ result /\ errs = <<>>

\* An instant Verify may judge the signature at: the requested one, or any at which
\* the call was in progress.
Instants == IF opts.time = NoTime THEN {t \in Time : started <= t /\ t <= clock} ELSE {opts.time}

\* What the namespace options ask of the entry that vouches for the signer.
NamespaceSettled(e) ==
    /\ Inferred => e.restricting /\ sig.ns \in e.namespaces
    /\ Explicit => /\ opts.namespace = sig.ns
                   /\ e.restricting => sig.ns \in e.namespaces

Vouches(e, t) ==
    /\ e.key = sig.key
    /\ opts.principal # AnyPrincipal => opts.principal \in e.principals
    /\ \A a \in e.after : a <= t
    /\ \A b \in e.before : t <= b
    /\ NamespaceSettled(e)

\* The entries of all the files.
Listed == UNION {Range(f) : f \in Range(sources)}

Trusted(t) ==
    /\ \E e \in Listed : Vouches(e, t)
    /\ Within(CertOf[sig.key], t)

\* flow/verify.go: Verify succeeds only for data that verifies and a signer that one
\* single entry vouches for in all respects, at an instant of the call at which the
\* certificate was valid as well: no status is pieced together from several entries
\* or several readings of the clock.
OnlyTrustedAccepted == Accepted => outcome = "ok" /\ \E t \in Instants : Trusted(t)

\* flow/verify.go: a signer trusted at every instant of the call is accepted, wherever
\* in the files the entry is and whatever unusable entries precede it (but for the
\* ends of windows that the signed comparison cannot represent).
TrustedAccepted ==
    /\ pc = "done" /\ outcome = "ok"
    /\ \A t \in Instants : Trusted(t)
    /\ CertOf[sig.key].validBefore < Half \/ CertOf[sig.key].validBefore = Infinity
    => Accepted

\* flow/verify.go: a status is "invalid" exactly when some error is returned with the
\* result, although a refused namespace relies on authentication to report it.
InvalidIsReported ==
    pc = "done" /\ result =>
        (errs # <<>> <=> "invalid" \in {designation, authentication, verification})

\* flow/verify.go: "Run every check rather than stopping at the first failure": a
\* result has all its statuses, and verification is what the data says whatever the
\* other checks found; data that could not be read leaves no result but an error.
AllChecksRun ==
    pc = "done" =>
        /\ result => "" \notin {designation, authentication, verification}
        /\ result <=> outcome \in {"ok", "bad"}
        /\ result => (verification = "valid" <=> outcome = "ok")
        /\ ~result => errs # <<>>

\* flow/verify.go: "Only an accepted entry can validate an inferred namespace", and a
\* designation of an explicit one is not "valid" when all entries for the signer
\* refuse it, also when the signer is refused for another reason.
DesignationIsBacked ==
    pc = "done" /\ designation = "valid" =>
        LET about == {e \in Listed : Names(e, SignerQuery)}
        IN  \/ \E e \in about : NamespaceSettled(e)
            \/ Explicit /\ opts.namespace = sig.ns /\ about = {}
=============================================================================
