----------------------------- MODULE MCCommands -----------------------------
(***************************************************************************)
(* Bounds: every command with every combination of its own flags, spelled  *)
(* out; every command with up to 3 arguments of any kind, of a few flags   *)
(* and texts, right after its name or after the data to verify; and what   *)
(* may stand before the name.                                              *)
(***************************************************************************)
EXTENDS Commands

UpTo(args, n) == UNION {[1..m -> args] : m \in 0..n}

Word(t) == [form |-> "word", flags |-> <<>>, text |-> t]
End == [form |-> "end", flags |-> <<>>, text |-> NoText]
Long(f, t) == [form |-> "long", flags |-> <<f>>, text |-> t]
Short(fs, t) == [form |-> "short", flags |-> fs, text |-> t]

Maybe(args) == {<<>>, args}
JSON == Maybe(<<Short(<<"j">>, NoText)>>)
File(f) == <<Short(<<f>>, "alias")>>
Timestamps == {<<>>} \cup {<<Long("t", t)>> : t \in {"time", "junk"}}
Keys == {<<>>, <<Short(<<"k">>, NoText), Word("key")>>} \cup {<<Long("k", t)>> : t \in {"alias", "junk", ""}}
Namespaces == {<<>>, <<Long("n", "")>>, <<Short(<<"n">>, "alias")>>, <<Short(<<"N">>, NoText)>>}

Spelled ==
    {<<Word("inspect")>> \o j \o s : j \in JSON, s \in Maybe(File("s"))} \cup
    {<<Word("sign")>> \o j \o k \o f : j \in JSON, k \in Keys, f \in Maybe(File("f"))} \cup
    {<<Word("verify")>> \o j \o t \o a \o s \o File("f") :
        j \in JSON, t \in Timestamps, a \in Maybe(File("a")), s \in Maybe(File("s"))} \cup
    {<<Word("check")>> \o j \o t \o n \o k \o s \o File("f") :
        j \in JSON, t \in Timestamps, n \in Namespaces,
        k \in Keys \cup {<<Short(<<"K">>, NoText)>>, <<Short(<<"K">>, NoText), Long("k", "key")>>},
        s \in Maybe(File("s"))}

\* Any few arguments.
Some ==
    {End, Word("alias"), Word(""), Word("time"), Short(<<"j">>, NoText), Short(<<"h">>, NoText),
     Short(<<"x">>, NoText), Short(<<"v", "N">>, NoText), Short(<<"t">>, NoText),
     Short(<<"j", "f", "h">>, NoText), Short(<<"n", "j">>, NoText), Short(<<"K", "k">>, "key"),
     Long("k", NoText), Long("n", ""), Long("t", "time"), Long("j", "alias")}

Mixed ==
    {<<Word(c)>> \o a : c \in CommandName, a \in UpTo(Some, 2)} \cup
    {<<Word(c)>> \o File("f") \o a : c \in {"verify", "check"}, a \in [1..3 -> Some]}

Rooted == {a \o <<Word("sign"), Long("k", "key")>> : a \in UpTo(Some, 2)} \cup UpTo(Some, 1)

MCCommandLines == Spelled \cup Mixed \cup Rooted
=============================================================================
