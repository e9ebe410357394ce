-------------------------- MODULE SignatureFormat --------------------------
(***************************************************************************)
(* A signature from its armor to its verdict: the reader of a signature on *)
(* standard input (internal/cmd/signature_stdin.go), SignatureRead and     *)
(* Inspect, and Verify (pkg/sshsig/signature.go, protocol.go).  A text is  *)
(* a sequence of lines, or of blanks where a line does not start; a wire   *)
(* is what the payload of its block spells, or a Signature that was built  *)
(* without reading one.  pem.Decode and the key are external.              *)
(***************************************************************************)
EXTENDS Integers, Sequences, FiniteSets, SignatureAlgorithm

CONSTANTS
    MaxSize,   \* MaxSignatureArmorSize
    MaxBlank,  \* maxWhitespace of the stdin reader
    Inputs     \* sets of texts, or of built signatures, to be read or verified

Blank == {"sp", "nl"}

\* "begin" is the armor header, "odd" a longer type that starts with it.
Opening == {"begin", "odd"}
ClosingOf(opening) == IF opening = "begin" THEN "end" ELSE "oddend"
Token == Blank \cup Opening \cup {"header", "body", "bad", "end", "oddend"}

Wire ==
    [magic : BOOLEAN, version : {1, 2}, type : KeyType, certificate : BOOLEAN,
     namespace : {"git", "", "NUL"}, reserved : BOOLEAN, hash : {"sha256", "sha512", "md5"},
     format : Format, rest : Rest, trailing : BOOLEAN]

ASSUME FormatAssumption ==
    /\ MaxSize \in Nat /\ MaxSize >= 3 \* the armor of a signature fits
    /\ MaxBlank \in Nat
    /\ \A i \in Inputs :
         /\ i.via \in {"stdin", "file", "built"} /\ i.wires \subseteq Wire
         /\ \A t \in i.texts : t \in Seq(Token)
         /\ i.via = "built" => \A w \in i.wires : w.magic /\ ~w.trailing

VARIABLES
    via, text,
    sig,    \* the wire of the payload of text, or of what was built
    signed, \* the format that the key signed with, over "git" and "sha512", and any fields
    filled, \* the stdin reader has read its source
    rest,   \* what the reader has left
    data,   \* what SignatureRead has got
    phase

formatVars == <<via, text, sig, signed, filled, rest, data, phase>>

-----------------------------------------------------------------------------
\* The armor.

\* pem.Decode: lines b to e are a block, with optional headers, whose payload decodes.
IsBlock(t, b, e) ==
    /\ b < e /\ t[b] \in Opening /\ t[e] = ClosingOf(t[b])
    /\ b > 1 => t[b - 1] # "sp"
    /\ t[e - 1] # "sp"
    /\ \E h \in b..e - 1 :
         /\ \A i \in b + 1..h : t[i] = "header"
         /\ \A i \in h + 1..e - 1 : t[i] \in {"body"} \cup Blank

Blocks(t) == {p \in (DOMAIN t) \X (DOMAIN t) : IsBlock(t, p[1], p[2])}

\* The first one, whatever precedes it.
Decode(t) == CHOOSE p \in Blocks(t) : \A q \in Blocks(t) : p[1] <= q[1]

Payload(t) == Cardinality({i \in Decode(t)[1]..Decode(t)[2] : t[i] = "body"})

\* Mutant: a block that pem.Decode skips is not looked for.
UnarmorsSkipping(t) ==
    /\ t # <<>> /\ Len(t) <= MaxSize
    /\ t[1] \in Opening
    /\ Blocks(t) # {}
    /\ LET b == Decode(t)[1]
           e == Decode(t)[2]
       IN  t[b] = "begin" /\ t[b + 1] # "header" /\ \A i \in e + 1..Len(t) : t[i] \in Blank

Unarmors(t) ==
    /\ t # <<>> /\ Len(t) <= MaxSize
    /\ t[1] \in Opening
    /\ Blocks(t) # {}
    /\ LET b == Decode(t)[1]
           e == Decode(t)[2]
       IN  /\ \A i \in 2..e : t[i] \notin Opening
           /\ t[b] = "begin"
           /\ t[b + 1] # "header"
           /\ \A i \in e + 1..Len(t) : t[i] \in Blank

-----------------------------------------------------------------------------
\* The fields.

SecurityKeyFields(w) == w.type = SK /\ w.rest = "fields"

\* Mutant: what follows the signature is only looked at for a security key.
ValidateStructurePadded(w) ==
    /\ w.version = 1
    /\ w.type = SK => SecurityKeyFields(w)
    /\ ~w.reserved
    /\ w.namespace \notin {"", "NUL"}
    /\ w.hash \in {"sha256", "sha512"}
    /\ ValidateSignatureFormat(w.type, w.format)

ValidateStructure(w) ==
    /\ w.version = 1
    /\ w.rest # "none" \/ w.type = SK => SecurityKeyFields(w)
    /\ ~w.reserved
    /\ w.namespace \notin {"", "NUL"}
    /\ w.hash \in {"sha256", "sha512"}
    /\ ValidateSignatureFormat(w.type, w.format)

ParseSignature(w) == ~w.trailing /\ w.magic /\ ValidateStructure(w)

SignatureRead(t, w) ==
    /\ Unarmors(t)
    /\ Payload(t) = 1 /\ ParseSignature(w)
    /\ ValidateSignatureAlgorithm(w.type, w.format)

\* Mutant: the policy is left to reading.
VerifiableStructure(w) == ValidateStructure(w)

Verifiable(w) == ValidateStructure(w) /\ ValidateSignatureAlgorithm(w.type, w.format)

\* The key of a certificate verifies; a plain key does not look at what follows.
KeyVerifies(w) ==
    /\ w.format = signed
    /\ w.namespace = "git" /\ w.hash = "sha512"
    /\ w.type = SK => w.rest = "fields"

\* Armor and Marshal.
Armor == <<"begin", "body", "end">>

-----------------------------------------------------------------------------

FormatInit ==
    /\ \E i \in Inputs : via = i.via /\ text \in i.texts /\ sig \in i.wires
    /\ signed \in IF sig.type = RSA THEN {RSA, SHA256, SHA512} ELSE {sig.type}
    /\ filled = FALSE
    /\ rest = text /\ data = <<>>
    /\ phase = IF via = "built" THEN "verify" ELSE "read"

To(label) == phase' = label /\ UNCHANGED <<via, text, sig, signed>>

\* The blanks that the text starts with.
Leading(t) ==
    CHOOSE n \in 0..Len(t) :
        /\ \A i \in 1..n : t[i] \in Blank
        /\ n < Len(t) => t[n + 1] \notin Blank

Room == MaxSize + 1 - Len(data)

\* A call of Read returns at least one byte of what the reader has.
Take(from) ==
    /\ \E n \in 1..Len(from) :
         /\ n <= Room
         /\ data' = data \o SubSeq(from, 1, n)
         /\ rest' = SubSeq(from, n + 1, Len(from))
    /\ To("read")

Filling == phase = "read" /\ via = "stdin" /\ ~filled
Lead == Leading(rest)

\* Mutant: the header may follow blanks on its line.
FillAnywhere ==
    /\ Filling
    /\ Len(rest) <= MaxSize
    /\ filled' = TRUE
    /\ \/ Lead = Len(rest) /\ rest' = <<>> /\ UNCHANGED data /\ To("read")
       \/ Lead <= MaxBlank /\ Take(SubSeq(rest, Lead + 1, Len(rest)))

\* The first Read: all of standard input.
Fill ==
    /\ Filling
    /\ Len(rest) <= MaxSize
    /\ filled' = TRUE
    /\ \/ Lead = Len(rest) /\ rest' = <<>> /\ UNCHANGED data /\ To("read")
       \/ /\ Lead <= MaxBlank /\ (Lead > 0 => rest[Lead] = "nl")
          /\ Take(SubSeq(rest, Lead + 1, Len(rest)))

FillRefuses ==
    /\ Filling
    /\ \/ Len(rest) > MaxSize
       \/ Lead < Len(rest) /\ (Lead > MaxBlank \/ (Lead > 0 /\ rest[Lead] # "nl"))
    /\ To("refused")
    /\ UNCHANGED <<filled, rest, data>>

Reading == phase = "read" /\ (via = "stdin" => filled)

Read == Reading /\ Take(rest) /\ UNCHANGED filled

\* Standard input is not read any more once it is filled.
SourceFails ==
    /\ Filling \/ (Reading /\ via = "file")
    /\ To("failed")
    /\ UNCHANGED <<filled, rest, data>>

EndOfData ==
    /\ Reading /\ (rest = <<>> \/ Room = 0)
    /\ To(IF SignatureRead(data, sig) THEN "accepted" ELSE "refused")
    /\ UNCHANGED <<filled, rest, data>>

\* Verify of what was read or built.
Verify ==
    /\ phase = "accepted" \/ phase = "verify"
    /\ \/ To(IF Verifiable(sig) /\ KeyVerifies(sig) THEN "verified" ELSE "unverified")
       \/ Verifiable(sig) /\ To("message unread")
    /\ UNCHANGED <<filled, rest, data>>

FormatNext == Fill \/ FillRefuses \/ Read \/ SourceFails \/ EndOfData \/ Verify

-----------------------------------------------------------------------------

\* SignatureRead returned a signature.
Accepted == phase \in {"accepted", "verified", "unverified", "message unread"} /\ via # "built"

\* signature_stdin.go: "accepts whitespace-only lines before a pasted signature": what
\* comes from standard input is accepted exactly when the same text without a bounded
\* number of leading blank lines is accepted from a file, in whatever pieces it is read;
\* the blanks count for the limit on the size.
StdinAsFile ==
    via = "stdin" /\ (Accepted \/ phase = "refused") =>
        (Accepted <=>
            /\ Len(text) <= MaxSize
            /\ \E n \in 0..Len(text) :
                 /\ n <= MaxBlank
                 /\ \A i \in 1..n : text[i] \in Blank /\ (i = n => text[i] = "nl")
                 /\ SignatureRead(SubSeq(text, n + 1, Len(text)), sig))

\* signature.go: "pem.Decode might skip a malformed block", "The prefix does not
\* constrain a later PEM block's type": what is accepted from a file is one armored
\* block from its first byte, with one payload and blanks around it, and such a text is.
OneBlock ==
    via = "file" /\ (Accepted \/ phase = "refused") =>
        LET t == text
            good == \E e \in DOMAIN t, p \in DOMAIN t :
                /\ Len(t) <= MaxSize
                /\ t[1] = "begin" /\ t[p] = "body" /\ t[e] = "end" /\ p < e /\ t[e - 1] # "sp"
                /\ \A i \in DOMAIN t \ {1, p, e} : t[i] \in Blank
        IN  Accepted <=> good /\ ParseSignature(sig) /\ Readable(sig.type, sig.format)

\* protocol.go: "Reject unsigned reserved data to prevent malleability": nothing in a
\* signature that verifies, read or built, can be other than what was signed but the
\* certificate of the key.
NotMalleable ==
    phase = "verified" =>
        sig = [magic |-> TRUE, version |-> 1, type |-> sig.type,
               certificate |-> sig.certificate, namespace |-> "git", reserved |-> FALSE,
               hash |-> "sha512", format |-> signed,
               rest |-> IF sig.type = SK THEN "fields" ELSE "none", trailing |-> FALSE]

\* protocol.go: "A signature ssh-keygen refuses must never verify here either, however
\* it was obtained": a signature that was built and verifies is read back from its armor.
VerifiedReadsBack == phase = "verified" => SignatureRead(Armor, sig)
=============================================================================
