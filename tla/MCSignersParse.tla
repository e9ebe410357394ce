--------------------------- MODULE MCSignersParse ---------------------------
(***************************************************************************)
(* Bounds: up to 3 files of up to 2 lines of the kinds an outcome depends  *)
(* on, or one of up to 5 lines, with 2 diagnostics kept, so that the limit *)
(* is reached within one file and by several together.  A line just fits   *)
(* the buffer or is one byte too long, and may be the last, without a      *)
(* newline.  A reader fails after any number of such lines, or of an entry *)
(* and a malformed line.                                                   *)
(***************************************************************************)
EXTENDS SignersParse, SequencesExt

L(kind, size) == [kind |-> kind, size |-> size, newline |-> TRUE]

Lines == {L("blank", 0), L("entry", MaxLineSize), L("malformed", 1), L("characters", 1)}
Unended(fs) == [s \in DOMAIN fs |-> [i \in DOMAIN fs[s] |-> [fs[s][i] EXCEPT !.newline = i < Len(fs[s])]]]
Longer == {L("comment", MaxLineSize + 1), L("entry", MaxLineSize)}

Req(fs, isNamed) == [files |-> fs, named |-> isNamed, broken |-> {}]

\* The same where some readers fail.
Broken(requests) ==
    UNION {{[r EXCEPT !.broken = b] : b \in SUBSET DOMAIN r.files} : r \in requests}
Cut ==
    LET ended == BoundedSeq(BoundedSeq(Longer, 2), 2) \ {<<>>}
        kept == BoundedSeq(BoundedSeq({L("entry", 1), L("malformed", 1)}, 2), 2) \ {<<>>}
    IN  {Req(fs, TRUE) : fs \in ended \cup {Unended(gs) : gs \in ended} \cup kept}
          \cup {Req(<<fl>>, FALSE) : fl \in BoundedSeq(Longer \cup Lines, 2)}

MCRequests ==
    {Req(fs, TRUE) : fs \in BoundedSeq(BoundedSeq(Lines, 2), 3) \ {<<>>}}
      \cup {Req(<<fl>>, isNamed) : fl \in BoundedSeq(Lines, 5), isNamed \in BOOLEAN}
      \cup Broken(Cut)
=============================================================================
