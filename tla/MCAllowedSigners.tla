-------------------------- MODULE MCAllowedSigners --------------------------
(***************************************************************************)
(* Bounds: files of at most 3 entries, asked at time 1 in every mode.  The *)
(* entries are for the signer, for another principal or for another key;   *)
(* unrestricted, or restricted to nothing, "git" or "file"; and live up to *)
(* both ends, not yet valid, or expired.                                   *)
(***************************************************************************)
EXTENDS AllowedSigners, SequencesExt

MCTime == 0..2

Windows == {<<{1}, {1}>>, <<{2}, {}>>, <<{}, {0}>>}
Restrictions == {<<FALSE, {}>>, <<TRUE, {}>>, <<TRUE, {"git"}>>, <<TRUE, {"file"}>>}
Signers == {<<{"alice"}, "k1">>, <<{}, "k1">>, <<{"alice"}, "k2">>}

MCEntries ==
    {[principals |-> s[1], key |-> s[2], restricting |-> r[1], namespaces |-> r[2],
      after |-> w[1], before |-> w[2]] :
        s \in Signers, r \in Restrictions, w \in Windows}

\* Three entries: the third repeats no entry of another signer.
MCFiles ==
    BoundedSeq(MCEntries, 2)
        \cup {<<a, b, c>> : a, b, c \in {e \in MCEntries : e.principals # {} /\ e.key = "k1"}}

MCQueries ==
    [key : {"k1"}, principal : {"alice", "any"}, ns : {"git"}, time : {1}, mode : Mode]

MCLookups == MCFiles \X MCQueries
=============================================================================
