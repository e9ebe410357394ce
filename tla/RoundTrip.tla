------------------------------ MODULE RoundTrip ------------------------------
(***************************************************************************)
(* Signatures from both ends: one is made with an agent (SignFlow), its    *)
(* armor is what the sign command prints, and a later call reads it back   *)
(* and verifies it (SignatureFormat).  A text, or a Signature that is      *)
(* built, may also come from elsewhere: nothing is signed then, for want   *)
(* of an agent.                                                            *)
(***************************************************************************)
EXTENDS SignFlow, SignatureFormat

ASSUME SomeRequest == Requests # {}

roundVars == <<vars, formatVars>>

\* What SignatureCreate returns, as Marshal writes it.
Signature ==
    [magic |-> TRUE, version |-> 1, type |-> TypeOf[key], certificate |-> CertOf[key].kind # "plain",
     namespace |-> "git", reserved |-> FALSE, hash |-> "sha512",
     format |-> format, rest |-> trail, trailing |-> FALSE]

IsCreated == pc = "done" /\ err = "none"

-----------------------------------------------------------------------------

NothingToRead ==
    /\ via = "file" /\ text = <<>> /\ sig = Signature /\ signed = "none"
    /\ filled = FALSE /\ rest = <<>> /\ data = <<>>
    /\ phase = "idle"

NoAgent ==
    /\ request = CHOOSE r \in Requests : TRUE
    /\ clock = 0 /\ left = Timeout /\ wire = "failure"
    /\ signer = NoKey /\ checkedAt = -1 /\ format = "none" /\ trail = "none"
    /\ err = "connect"
    /\ pc = "done"

RoundTripInit ==
    \/ Init /\ NothingToRead
    \/ NoAgent /\ FormatInit

\* An agent that returns anything may have signed with anything, or not at all.
ReadBack ==
    /\ IsCreated /\ phase = "idle"
    /\ via' \in {"stdin", "file"} /\ text' = Armor /\ sig' = Signature
    /\ signed' \in IF request.obeys = "any" THEN Format ELSE {format}
    /\ filled' = FALSE /\ rest' = Armor /\ data' = <<>>
    /\ phase' = "read"
    /\ UNCHANGED vars

RoundTripNext ==
    \/ Next /\ UNCHANGED formatVars
    \/ ReadBack
    \/ phase # "idle" /\ FormatNext /\ UNCHANGED vars

\* The fairness of signing: reading waits for the user.
RoundTripSpec ==
    /\ RoundTripInit /\ [][RoundTripNext]_roundVars
    /\ WF_vars(Tick) /\ WF_vars(Program)

-----------------------------------------------------------------------------

\* signature.go, protocol.go: SignatureCreate returns what the agent has signed, and
\* never a DSA or a SHA-1 signature, whatever the agent answers.  What it returns is read
\* back and verified, from a file or a terminal and in whatever pieces, provided that the
\* agent returned a signature of the key it was asked for: the format of another key, or
\* bytes that do not belong there, are not looked at when a signature is made.
CreatedIsReadable ==
    IsCreated =>
        /\ wire = "sign!" /\ TypeOf[key] # DSA /\ format # DSA
        /\ TypeOf[key] = RSA => format \in {SHA256, SHA512}
        /\ request.obeys # "any" =>
             SignatureRead(Armor, Signature) /\ phase \notin {"refused", "unverified"}
=============================================================================
