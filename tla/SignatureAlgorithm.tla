------------------------- MODULE SignatureAlgorithm -------------------------
(***************************************************************************)
(* Which signature formats go with which signing keys: the two checks of   *)
(* pkg/sshsig, validateSignatureAlgorithm (signature.go), the policy, and  *)
(* validateSignatureFormat (protocol.go), the structure.  The type of a    *)
(* certificate is that of the key it is for, as publicKeyType unwraps it.  *)
(***************************************************************************)

RSA == "ssh-rsa"
DSA == "ssh-dss"
SHA256 == "rsa-sha2-256"
SHA512 == "rsa-sha2-512"
ED25519 == "ssh-ed25519"
SK == "sk-ssh-ed25519@openssh.com"

KeyType == {RSA, DSA, ED25519, SK}
Format == KeyType \cup {SHA256, SHA512}

\* No DSA, and RSA with SHA-2 only.
ValidateSignatureAlgorithm(type, format) ==
    /\ type # DSA /\ format # DSA
    /\ type = RSA => format \in {SHA256, SHA512}

\* The key could have made the signature.
ValidateSignatureFormat(type, format) ==
    format \in {type} \cup (IF type = RSA THEN {SHA256, SHA512} ELSE {})

\* What SignatureRead accepts.
Readable(type, format) ==
    ValidateSignatureAlgorithm(type, format) /\ ValidateSignatureFormat(type, format)

\* What may follow a signature: nothing, the fields of a security key, or other bytes.
Rest == {"none", "fields", "junk"}
=============================================================================
