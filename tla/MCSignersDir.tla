---------------------------- MODULE MCSignersDir ----------------------------
(***************************************************************************)
(* Bounds: three names, one of them not a *.conf, for two files whose      *)
(* sizes are around the limit; a call during which up to two things are    *)
(* changed.                                                                *)
(***************************************************************************)
EXTENDS SignersDir

S(owner, writable) == [owner |-> owner, writable |-> writable]
F(status, regular, size) == [status |-> status, regular |-> regular, size |-> size]

MCFiles ==
    [Inode -> {F(S("self", FALSE), TRUE, 1), F(S("root", FALSE), TRUE, Limit + 1),
               F(S("other", FALSE), TRUE, 1), F(S("self", FALSE), FALSE, 0)}]

MCDirs == {[d \in Directory |-> S("self", d = "signers" /\ w)] : w \in BOOLEAN}

MCWorlds ==
    {[links |-> l, files |-> f, dirs |-> d, exists |-> TRUE] :
        l \in {<<a, "f", c>> : a, c \in Inode \cup {NoFile}},
        f \in MCFiles, d \in MCDirs}
      \cup
    {[links |-> [name \in Name |-> NoFile], files |-> [f \in Inode |-> F(S("self", FALSE), TRUE, 0)],
      dirs |-> d, exists |-> FALSE] : d \in MCDirs}
=============================================================================
