--------------------------- MODULE MCPatternList ---------------------------
(***************************************************************************)
(* Bounds: every single pattern of at most 4 bytes against every value of  *)
(* at most 3, of at most 3 bytes against every value of at most 5, and     *)
(* every list of at most 3 of a few telling patterns.                      *)
(***************************************************************************)
EXTENDS PatternList, SequencesExt

MCByte == {"a", "b", "*", "?", "!"}

Single(bytes, n, valueBytes, m) ==
    {<<pat>> : pat \in BoundedSeq(bytes, n)} \X BoundedSeq(valueBytes, m)

Telling ==
    {<<>>, <<"!">>, <<"a">>, <<"*">>, <<"!", "a">>, <<"!", "*", "b">>, <<"!", "!", "a">>, <<"?", "b">>}

MCCalls ==
    Single({"a", "b", "*", "?"}, 4, {"a", "b", "*"}, 3)
        \cup Single({"a", "b", "*", "?"}, 3, {"a", "b"}, 5)
        \cup (BoundedSeq(Telling, 3)
                \X {<<>>, <<"a">>, <<"!", "a">>, <<"a", "b">>, <<"b", "b">>})
=============================================================================
