------------------------------ MODULE MCConfig ------------------------------
(***************************************************************************)
(* Bounds: files of at most 4 lines, and five texts: the name "key", which *)
(* may be an alias as well; an alias; a key; a key whose characters are    *)
(* those of an alias; and a text that is neither.                          *)
(***************************************************************************)
EXTENDS Config, SequencesExt

MCText == {"key", "work", "AAAA/", "AAAA", "a/b"}

MCKeyOf ==
    [t \in MCText |->
        CASE t = "AAAA/" -> "k1"
          [] t = "AAAA"  -> "k2"
          [] OTHER       -> NoKey]

Opt(name, value) == [kind |-> "option", name |-> name, value |-> value]
Section(s) == [kind |-> "header", section |-> s]

\* Lines that tell the rules apart.
MCLines ==
    {[kind |-> "malformed"], Section("sign"), Section("alias"),
     Opt("key", "work"), Opt("key", "AAAA/"), Opt("work", "AAAA/"), Opt("work", "AAAA"),
     Opt("AAAA", "AAAA/"), Opt("work", "a/b"), Opt("a/b", "AAAA/")}

Few == {[kind |-> "blank"], Section("other"), Opt("key", NoText), Opt("key", "AAAA"), Section("sign")}

MCRequests ==
    {[ref |-> t, place |-> "safe", lines |-> f] :
        t \in Text \cup {NoText}, f \in BoundedSeq(MCLines, 3) \cup BoundedSeq(Few, 2)}
      \cup
    {[ref |-> t, place |-> "safe", lines |-> <<Section(s), a, Section(u), b>>] :
        t \in {"work", "AAAA", NoText}, s, u \in {"sign", "alias"}, a, b \in MCLines}
      \cup
    {[ref |-> t, place |-> p, lines |-> <<>>] :
        t \in Text \cup {NoText}, p \in {"missing", "unsafe"}}
=============================================================================
