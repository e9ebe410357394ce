---------------------------- MODULE MCCheckFlow ----------------------------
(***************************************************************************)
(* Bounds: instants 0..3, two to the second, and words of 2 bits as for    *)
(* Verify; a signature by a plain key or by one of four certificates, and  *)
(* every option, also those that contradict each other.                    *)
(***************************************************************************)
EXTENDS CheckFlow

MCTime == 0..3

MCCertOf ==
    LET Cert(kind, after, before) == [kind |-> kind, validAfter |-> after, validBefore |-> before]
    IN  [k \in Key |->
            CASE k = "plain" -> Cert("plain", 0, 0)
              [] k = "brief" -> Cert("user", 0, 1)
              [] k = "late"  -> Cert("user", 1, 3)
              [] k = "odd"   -> Cert("user", 0, 2)
              [] k = "host"  -> Cert("host", 0, 3)]

MCOptions ==
    [signatureFile : {TRUE}, verifyFile : {TRUE},
     authKey : {"plain", "brief", "late", "odd", "host", NoKey, BadKey}, noAuthKey : BOOLEAN,
     namespace : {"git", "file", NoName}, noNamespace : BOOLEAN,
     time : {NoTime, 1, 2}]

\* Readers that are missing.
Unread ==
    [signatureFile : BOOLEAN, verifyFile : BOOLEAN, authKey : {"plain"}, noAuthKey : {FALSE},
     namespace : {"git"}, noNamespace : {FALSE}, time : {1}]

MCRequests ==
    [opts : MCOptions, sig : [key : {"plain", "brief", "late", "odd", "host"}, ns : {"git"}]]
      \cup [opts : Unread, sig : [key : {"plain"}, ns : {"git"}]]
=============================================================================
