---------------------------- MODULE MCVerifyFlow ----------------------------
(***************************************************************************)
(* Bounds: instants 0..3, two to the second, so that windows begin and end *)
(* within seconds; words of 2 bits, so that certificate bounds have both   *)
(* signs; files of at most 2 entries, in one reader or in two.             *)
(***************************************************************************)
EXTENDS VerifyFlow, SequencesExt

MCTime == 0..3

MCCertOf ==
    LET Cert(kind, after, before) == [kind |-> kind, validAfter |-> after, validBefore |-> before]
    IN  [k \in Key |->
            CASE k = "plain" -> Cert("plain", 0, 0)
              [] k = "brief" -> Cert("user", 0, 1)
              [] k = "long"  -> Cert("user", 1, 3)
              [] k = "odd"   -> Cert("user", 0, 2)
              [] k = "host"  -> Cert("host", 0, 3)
              [] k = "other" -> Cert("plain", 0, 0)]

Ent(k, principals, restricting, namespaces, after, before) ==
    [key |-> k, principals |-> principals, restricting |-> restricting,
     namespaces |-> namespaces, after |-> after, before |-> before]

\* Entries that tell apart what Verify asks of key k.
EntriesFor(k) ==
    {Ent("other", {"alice"}, FALSE, {}, {}, {}),
     Ent(k, {}, TRUE, {"git"}, {}, {}),
     Ent(k, {"alice"}, FALSE, {}, {}, {}),
     Ent(k, {"alice"}, FALSE, {}, {}, {0}),
     Ent(k, {"alice"}, FALSE, {}, {2}, {}),
     Ent(k, {"alice"}, TRUE, {"git"}, {1}, {2}),
     Ent(k, {"alice"}, TRUE, {"file"}, {}, {})}

Opts(files, principal, namespace, noNamespace, time) ==
    [signersFile |-> files = <<>>, signersFiles |-> files,
     signatureFile |-> TRUE, verifyFile |-> TRUE,
     principal |-> principal, namespace |-> namespace, noNamespace |-> noNamespace, time |-> time]

\* What is asked: which identity, which namespace, at what time.
Asked(files) ==
    {Opts(files, p, n[1], n[2], t) :
        p \in {"alice", "any"},
        n \in {<<"none", FALSE>>, <<"none", TRUE>>, <<"git", FALSE>>, <<"file", FALSE>>},
        t \in {NoTime, 1, 2}}

SigOf(k) == [key |-> k, ns |-> "git"]

\* One reader with up to two entries, two readers with one entry each.
Files(k) ==
    {[opts |-> o, sources |-> <<f>>, sig |-> SigOf(k)] :
        o \in Asked(<<>>), f \in BoundedSeq(EntriesFor(k), IF k = "plain" THEN 2 ELSE 1)}
      \cup
    {[opts |-> o, sources |-> <<<<e>>, <<f>>>>, sig |-> SigOf(k)] :
        o \in Asked(<<TRUE, TRUE>>), e, f \in EntriesFor(k)}

\* Options that are refused.
Rejected ==
    LET good == Opts(<<>>, "alice", "git", FALSE, 1)
        bad == {[good EXCEPT !.signersFile = FALSE], [good EXCEPT !.signersFiles = <<TRUE>>],
                [good EXCEPT !.signersFile = FALSE, !.signersFiles = <<TRUE, FALSE>>],
                [good EXCEPT !.signatureFile = FALSE], [good EXCEPT !.verifyFile = FALSE],
                [good EXCEPT !.noNamespace = TRUE]}
    IN  {[opts |-> o, sources |-> <<<<>>>>, sig |-> SigOf("plain")] : o \in bad}

MCRequests ==
    Rejected \cup Files("plain")
      \cup UNION {{r \in Files(k) : r.opts.principal = "alice" /\ r.opts.namespace # "file"} :
                    k \in {"brief", "long", "odd", "host"}}
=============================================================================
