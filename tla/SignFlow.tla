------------------------------ MODULE SignFlow ------------------------------
(***************************************************************************)
(* Signing with an agent, as the sign command does once it has its key and *)
(* its data: ConnectAgent and AgentSigner (pkg/sshsig/agent.go), Sign      *)
(* (pkg/flow/sign.go), SignatureCreate and sshsig's Sign.  The agent, who  *)
(* may wait for a user, and the time run beside the program.               *)
(*                                                                         *)
(* A deadline is modelled as the time left until it.                       *)
(***************************************************************************)
EXTENDS Certificate, SignatureAlgorithm

CONSTANTS
    Key,
    CertOf,   \* what kind of certificate each key is
    PlainOf,  \* the key a certificate is for, and every other key itself
    TypeOf,   \* the type of the signing key, publicKeyType
    NoKey,
    Requests, \* what is asked for, of which agent
    Timeout,  \* agentTimeout
    EndTime   \* bound: the clock stops here, but deadlines go on passing

NoLimit == -1

\* held: the keys the agent lists.  obeys: for which of them it does not ignore the
\* algorithm that is selected for an RSA key, or "any" if what it returns is anything
\* that has the form of a signature.
Request ==
    [key : Key, namespace : {"good", "empty", "NUL"},
     held : SUBSET Key, obeys : {"all", "plain", "none", "any"}]

ASSUME SignAssumption ==
    /\ CertOf \in [Key -> CertificateOf]
    /\ PlainOf \in [Key -> Key]
    /\ TypeOf \in [Key -> KeyType]
    /\ \A k \in Key : CertOf[PlainOf[k]].kind = "plain" /\ TypeOf[PlainOf[k]] = TypeOf[k]
    /\ \A k \in Key : CertOf[k].kind = "plain" => PlainOf[k] = k
    /\ NoKey \notin Key
    /\ Requests \subseteq Request
    /\ Timeout \in Nat \ {0}
    /\ EndTime \in Nat
    \* Unix() of a time is an int64.
    /\ EndTime < Half * Second

VARIABLES
    request,
    clock,     \* time.Now()
    left,      \* time until the deadline of the connection, or NoLimit
    wire,      \* the last message on the connection
    signer,    \* the key the agent signs with, of the chosen signer
    checkedAt, \* history: when the certificate was found valid
    format,    \* of the signature the agent made
    trail,     \* what follows the signature, in what the agent returned
    err,       \* what went wrong, "none" for nil
    pc

vars == <<request, clock, left, wire, signer, checkedAt, format, trail, err, pc>>

key == request.key
held == request.held

-----------------------------------------------------------------------------

Init ==
    /\ request \in Requests
    /\ clock \in 0..EndTime
    /\ left = Timeout \* net.DialTimeout
    /\ wire = "none"
    /\ signer = NoKey /\ checkedAt = -1 /\ format = "none" /\ trail = "none"
    /\ err = "none"
    /\ pc = "connect"

Tick ==
    /\ pc # "done"
    /\ left > 0 \/ clock < EndTime
    /\ left' = IF left > 0 THEN left - 1 ELSE left
    /\ clock' = IF clock < EndTime THEN clock + 1 ELSE clock
    /\ UNCHANGED <<request, wire, signer, checkedAt, format, trail, err, pc>>

\* return nil, reason
Fail(reason) ==
    /\ err' = reason
    /\ pc' = "done"

\* What a failed dial, read or write is to the program.
IOFails ==
    /\ pc \in {"connect", "listing", "signing"}
    /\ IF pc = "listing" THEN pc' = "list error" /\ UNCHANGED err
       ELSE Fail(IF pc = "connect" THEN "connect" ELSE "sign")
    /\ UNCHANGED <<request, clock, left, signer, checkedAt, format, trail>>

\* Answered or not: the answer may be too late.
TimesOut == left = 0 /\ IOFails /\ UNCHANGED wire

-----------------------------------------------------------------------------

(***************************************************************************)
(* The agent: it answers a request, refuses it or hangs up, in any time,   *)
(* or never.                                                               *)
(***************************************************************************)
AgentFails == wire \notin {"list!", "sign!"} /\ IOFails /\ wire' = "failure"

AgentLists ==
    /\ wire = "list?"
    /\ wire' = "list!"
    /\ UNCHANGED <<request, clock, left, signer, checkedAt, format, trail, err, pc>>

Obeyed(k) == request.obeys = "all" \/ (request.obeys = "plain" /\ CertOf[k].kind = "plain")

RSACertificate(k) == TypeOf[k] = RSA /\ CertOf[k].kind # "plain"

PlainRSA(k) == TypeOf[k] = RSA /\ CertOf[k].kind = "plain"

\* Mutant: a certificate is not unwrapped.
AlgorithmByType == IF PlainRSA(key) THEN SHA512 ELSE TypeOf[key]

\* What the agent is asked for: signBlob selects an algorithm for a plain RSA key,
\* and SignatureCreate for a certificate.
Algorithm == IF PlainRSA(key) \/ RSACertificate(key) THEN SHA512 ELSE TypeOf[key]

AgentSigns ==
    /\ wire = "sign?"
    /\ wire' = "sign!"
    /\ \/ request.obeys = "any" /\ format' \in Format /\ trail' \in Rest
       \/ /\ request.obeys # "any"
          /\ format' = IF Obeyed(signer) THEN Algorithm ELSE TypeOf[signer]
          /\ trail' = IF TypeOf[signer] = SK THEN "fields" ELSE "none"
    /\ UNCHANGED <<request, clock, left, signer, checkedAt, err, pc>>

-----------------------------------------------------------------------------

Connected ==
    /\ pc = "connect"
    /\ left' = NoLimit
    /\ pc' = "list"
    /\ UNCHANGED <<request, clock, wire, signer, checkedAt, format, trail, err>>

SetDeadlineFails ==
    /\ pc = "list"
    /\ Fail("deadline")
    /\ UNCHANGED <<request, clock, left, wire, signer, checkedAt, format, trail>>

\* Mutant: no deadline while the keys are listed.
ListPatiently ==
    /\ pc = "list"
    /\ wire' = "list?"
    /\ pc' = "listing"
    /\ UNCHANGED <<request, clock, left, signer, checkedAt, format, trail, err>>

List ==
    /\ pc = "list"
    /\ left' = Timeout
    /\ wire' = "list?"
    /\ pc' = "listing"
    /\ UNCHANGED <<request, clock, signer, checkedAt, format, trail, err>>

\* The client loses the cause of a failure, which is found by the clock.
ListFails ==
    /\ pc = "list error"
    /\ Fail(IF left = 0 THEN "no reply" ELSE "list")
    /\ left' = NoLimit
    /\ UNCHANGED <<request, clock, wire, signer, checkedAt, format, trail>>

Listed ==
    /\ pc = "listing" /\ wire = "list!"
    /\ pc' = "pick"
    /\ UNCHANGED <<request, clock, left, wire, signer, checkedAt, format, trail, err>>

\* The key below an RSA certificate is preferred to the certificate.
Fitting ==
    IF RSACertificate(key) /\ PlainOf[key] \in held THEN {PlainOf[key]} ELSE {key} \cap held

\* Mutant: the deadline is not lifted.
PickInHaste ==
    /\ pc = "pick" /\ Fitting # {}
    /\ signer' \in Fitting
    /\ pc' = "check"
    /\ UNCHANGED <<request, clock, left, wire, checkedAt, format, trail, err>>

Pick ==
    /\ pc = "pick" /\ Fitting # {}
    /\ signer' \in Fitting
    /\ left' = NoLimit
    /\ pc' = "check"
    /\ UNCHANGED <<request, clock, wire, checkedAt, format, trail, err>>

NoKeyFits ==
    /\ pc = "pick" /\ Fitting = {}
    /\ Fail("no key")
    /\ left' = NoLimit
    /\ UNCHANGED <<request, clock, wire, signer, checkedAt, format, trail>>

CertificateFits ==
    /\ pc = "check" /\ CertificateValidAt(CertOf[key], clock)
    /\ checkedAt' = clock
    /\ pc' = "hash"
    /\ UNCHANGED <<request, clock, left, wire, signer, format, trail, err>>

CertificateRefused ==
    /\ pc = "check" /\ ~CertificateValidAt(CertOf[key], clock)
    /\ Fail("certificate")
    /\ UNCHANGED <<request, clock, left, wire, signer, checkedAt, format, trail>>

NamespaceRefused ==
    /\ pc = "hash" /\ request.namespace # "good"
    /\ Fail("namespace")
    /\ UNCHANGED <<request, clock, left, wire, signer, checkedAt, format, trail>>

HashFails ==
    /\ pc = "hash" /\ request.namespace = "good"
    /\ Fail("read")
    /\ UNCHANGED <<request, clock, left, wire, signer, checkedAt, format, trail>>

\* Mutant: a namespace that cannot be read back is signed.
AskAnyhow ==
    /\ pc = "hash"
    /\ wire' = "sign?"
    /\ pc' = "signing"
    /\ UNCHANGED <<request, clock, left, signer, checkedAt, format, trail, err>>

\* Once all data is read.
Ask ==
    /\ pc = "hash" /\ request.namespace = "good"
    /\ wire' = "sign?"
    /\ pc' = "signing"
    /\ UNCHANGED <<request, clock, left, signer, checkedAt, format, trail, err>>

\* Mutant: what the agent returns is taken as it is.
CreatedUnseen ==
    /\ pc = "signing" /\ wire = "sign!"
    /\ pc' = "done"
    /\ UNCHANGED <<request, clock, left, wire, signer, checkedAt, format, trail, err>>

Created ==
    /\ pc = "signing" /\ wire = "sign!"
    /\ ValidateSignatureAlgorithm(TypeOf[key], format)
    /\ pc' = "done"
    /\ UNCHANGED <<request, clock, left, wire, signer, checkedAt, format, trail, err>>

AlgorithmRefused ==
    /\ pc = "signing" /\ wire = "sign!"
    /\ ~ValidateSignatureAlgorithm(TypeOf[key], format)
    /\ Fail("algorithm")
    /\ UNCHANGED <<request, clock, left, wire, signer, checkedAt, format, trail>>

\* The data comes from a reader that may take any time, or not end.
Data == HashFails \/ Ask

Agent == AgentFails \/ AgentLists \/ AgentSigns

Program ==
    \/ TimesOut \/ SetDeadlineFails \/ List \/ ListFails \/ Listed
    \/ Pick \/ NoKeyFits
    \/ CertificateFits \/ CertificateRefused
    \/ NamespaceRefused
    \/ Created \/ AlgorithmRefused

Next == Tick \/ Connected \/ Agent \/ Data \/ Program

\* Time passes and the program goes on, whatever the agent does.
Spec == Init /\ [][Next]_vars /\ WF_vars(Tick) /\ WF_vars(Program)

-----------------------------------------------------------------------------

TypeOK ==
    /\ request \in Request
    /\ clock \in 0..EndTime
    /\ left \in 0..Timeout \cup {NoLimit}
    /\ wire \in {"none", "list?", "list!", "sign?", "sign!", "failure"}
    /\ signer \in Key \cup {NoKey}
    /\ checkedAt \in -1..EndTime
    /\ format \in Format \cup {"none"} /\ trail \in Rest
    /\ err \in {"none", "connect", "deadline", "no reply", "list", "no key", "certificate",
                "namespace", "read", "sign", "algorithm"}
    /\ pc \in {"connect", "list", "listing", "list error", "pick", "check", "hash", "signing",
               "done"}

\* agent.go: "Bound noninteractive agent operations. Signing may wait for user input":
\* no time is too long for the user, so that signing fails only if the agent says so,
\* and a listing that ran out of time is never put down to the agent.
FailuresAreTheAgents == err \in {"list", "sign"} => wire = "failure"

\* flow/sign.go: the agent, and so the user, is asked for a signature last: with a key
\* that it holds, for the key that was requested, and when the certificate has been
\* valid since the call began and the namespace can be read back.
AskedLast ==
    wire = "sign?" =>
        /\ signer \in held /\ PlainOf[signer] = PlainOf[key]
        /\ checkedAt <= clock /\ Within(CertOf[key], checkedAt)
        /\ request.namespace = "good"

\* agent.go: "OpenSSH agents may ignore RSA-SHA2 flags when asked to sign using a
\* certificate key blob": a signature is made in vain only for a key that no signature
\* is accepted of, or when the agent has no key whose algorithm can be selected.
NoNeedlessRefusal ==
    err = "algorithm" =>
        \/ TypeOf[key] = DSA
        \/ \A k \in held : PlainOf[k] = PlainOf[key] /\ k \in {key, PlainOf[key]} => ~Obeyed(k)

\* agent.go: "timing out key listing but not signing": connecting and listing end, also
\* with an agent that does not answer.
ListingEnds == <>(pc \notin {"connect", "list", "listing", "list error"})

\* protocol.go says of the keys Verify refuses that "SignatureCreate rejects those keys
\* up front".  It rejects them once the agent has signed.
RejectedUpFront == wire = "sign?" => TypeOf[key] # DSA
=============================================================================
