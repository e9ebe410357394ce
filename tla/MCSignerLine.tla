---------------------------- MODULE MCSignerLine ----------------------------
(***************************************************************************)
(* Bounds: every principals field of up to 4 symbols, every options field  *)
(* of up to 5, every pair of whole options, and every end of up to 4, with *)
(* the rest of the line plain.                                             *)
(***************************************************************************)
EXTENDS SignerLine, SequencesExt

Quoted(s) == <<Quote>> \o s \o <<Quote>>
Said(name, s) == <<name, "=">> \o Quoted(s)

TypeKey == <<"type", "sp", "key">>
Plainly == Said("namespaces", <<"word">>)

Starts == BoundedSeq({Quote, Back, "sp", "word", "#"}, 4)

Fields2 == BoundedSeq({Quote, Back, ",", "=", "namespaces", "word"}, 5)

Values == {<<>>, <<"t1">>, <<"t2">>, <<"sp", "t2">>, <<"word">>, <<"word", ",", "word">>, <<Back, Quote, ",">>,
           <<"word", Back>>, <<Quote, ",", Quote>>, <<",", "namespaces", "=", Back, Quote>>}
Whole == {Said(name, v) : name \in Name \cup {"cert-authority"}, v \in Values} \cup {<<"cert-authority">>}

Ends == BoundedSeq({Quote, "sp", "type", "key", "control", ","}, 4)

MCLines ==
    {p \o <<"sp">> \o m \o TypeKey : p \in Starts, m \in {<<>>, Plainly \o <<"sp">>}} \cup
    {<<"word", "sp">> \o o \o <<"sp">> \o TypeKey : o \in Fields2} \cup
    {<<"word", "sp">> \o o \o <<",">> \o p \o <<"sp">> \o TypeKey : o \in Whole, p \in Whole} \cup
    {<<"word", "sp">> \o o \o e : o \in {<<>>, Plainly \o <<"sp">>}, e \in Ends} \cup
    {Quoted(<<"word">>) \o <<"sp", "sp">> \o TypeKey \o <<"sp">> \o e : e \in Ends}
=============================================================================
