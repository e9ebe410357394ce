---------------------------- MODULE MCSignFlow ----------------------------
(***************************************************************************)
(* Bounds: instants 0..3, two to the second, a timeout of 2 of them; keys  *)
(* of every type, with certificates for the RSA key and for another; the   *)
(* agent holds any of the keys that matter, and obeys for all of them, for *)
(* the plain ones or for none, or answers anything.                        *)
(***************************************************************************)
EXTENDS SignFlow

MCKey == {"rsa", "rsa-cert", "ed", "ed-cert", "ed-host", "dsa", "sk"}

MCCertOf ==
    LET Cert(kind, after, before) == [kind |-> kind, validAfter |-> after, validBefore |-> before]
    IN  [k \in MCKey |->
            CASE k = "rsa-cert" -> Cert("user", 0, 1)
              [] k = "ed-cert"  -> Cert("user", 1, 3)
              [] k = "ed-host"  -> Cert("host", 0, 3)
              [] OTHER          -> Cert("plain", 0, 0)]

MCPlainOf ==
    [k \in MCKey |->
        CASE k = "rsa-cert" -> "rsa"
          [] k \in {"ed-cert", "ed-host"} -> "ed"
          [] OTHER -> k]

MCTypeOf ==
    [k \in MCKey |->
        CASE k \in {"rsa", "rsa-cert"} -> RSA
          [] k = "dsa" -> DSA
          [] k = "sk" -> SK
          [] OTHER -> ED25519]

MCRequests ==
    {[key |-> k, namespace |-> n, held |-> h, obeys |-> o] :
        k \in MCKey, n \in {"good", "empty", "NUL"},
        h \in SUBSET {"rsa", "rsa-cert", "ed", "ed-cert"} \cup {{"dsa"}, {"ed-host", "ed"}, {"sk"}},
        o \in {"all", "plain", "none", "any"}}
=============================================================================
