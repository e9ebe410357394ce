------------------------- MODULE MCSignatureFormat -------------------------
(***************************************************************************)
(* Bounds: every text of up to 3 lines of any kind after up to 3 blanks,   *)
(* and longer ones in which a block is skipped, blanks stand inside, or    *)
(* the size just fits, with the signature of a plain key; and a plain      *)
(* armor, or none, with every wire.  2 blanks may lead and 6 lines fit.    *)
(***************************************************************************)
EXTENDS SignatureFormat, SequencesExt

Good == [magic |-> TRUE, version |-> 1, type |-> ED25519, certificate |-> FALSE,
         namespace |-> "git", reserved |-> FALSE, hash |-> "sha512", format |-> ED25519,
         rest |-> "none", trailing |-> FALSE]

Cores ==
    BoundedSeq(Token, 3) \cup
    {<<o>> \o <<x>> \o Armor : o \in Opening, x \in {"bad", "end", "header", "body"}} \cup
    {<<o>> \o Armor \o <<x>> : o \in Opening, x \in Token} \cup
    {Armor \o <<x, y>> : x \in Blank, y \in Token} \cup
    {<<"begin", x, "body", y, "end">> : x \in Token, y \in Token} \cup
    {Armor \o Armor, Armor \o <<"nl", "nl", "nl">>, Armor \o <<"nl", "sp", "nl", "nl">>}

Texts == {b \o c : b \in BoundedSeq(Blank, 3), c \in Cores}

Wires == {w \in Wire : w.format = w.type \/ w.type = RSA \/ (w.rest = "none" /\ w.version = 1)}

MCInputs ==
    {[via |-> v, texts |-> Texts, wires |-> {Good}] : v \in {"stdin", "file"}} \cup
    {[via |-> "file", texts |-> {Armor}, wires |-> Wires],
     [via |-> "built", texts |-> {Armor}, wires |-> {w \in Wires : w.magic /\ ~w.trailing}]}
=============================================================================
