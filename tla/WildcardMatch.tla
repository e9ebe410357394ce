--------------------------- MODULE WildcardMatch ---------------------------
(***************************************************************************)
(* One call of wildcardMatch (pkg/allowedsigners/pattern.go): OpenSSH's    *)
(* '*' and '?' matching with a single backtrack point.  Every iteration of *)
(* a loop is a step and every arm of the switch an action.                 *)
(*                                                                         *)
(* Strings are sequences of bytes.  Go counts positions from 0 and TLA+    *)
(* from 1, so the byte pattern[p] of the code is pattern[p + 1] here.  The *)
(* bytes "*" and "?" may also occur in the value, where they are ordinary. *)
(***************************************************************************)
EXTENDS Integers, Sequences

CONSTANT Byte \* the bytes a string is made of

VARIABLES
    pattern, value, \* the arguments
    p, v,           \* bytes of pattern and of value passed so far
    star,           \* position of the most recent '*', -1 when there was none
    mark,           \* how much of value that '*' has been allowed to consume
    pc,             \* "idle": not called yet, "match": first loop,
                    \* "trail": second loop, "done": returned
    matched         \* the returned value, once pc = "done"

args == <<pattern, value>>
vars == <<pattern, value, p, v, star, mark, pc, matched>>

-----------------------------------------------------------------------------

(***************************************************************************)
(* What a match is, independently of how it is searched for: a nondecreas- *)
(* ing cut c of the value along the pattern, c[k] being how much of the    *)
(* value the first k bytes of the pattern account for.                     *)
(***************************************************************************)
Fits(pat, val, k, from, to) ==
    IF pat[k] = "*" THEN from <= to
    ELSE /\ to = from + 1
         /\ pat[k] = "?" \/ pat[k] = val[to]

Cuts(pat, val) == [0..Len(pat) -> 0..Len(val)]

\* c accounts for the first n bytes of pat.
CutsUpTo(pat, val, c, n) ==
    /\ c[0] = 0
    /\ \A k \in 1..n : Fits(pat, val, k, c[k - 1], c[k])

Alignment(pat, val, c) ==
    /\ CutsUpTo(pat, val, c, Len(pat))
    /\ c[Len(pat)] = Len(val)

Glob(pat, val) == \E c \in Cuts(pat, val) : Alignment(pat, val, c)

-----------------------------------------------------------------------------

InMatch == pc = "match" /\ v < Len(value)
\* Mutant: literal equality before '*'.
StarAfterLiteral ==
    /\ p < Len(pattern) /\ pattern[p + 1] = "*"
    /\ v < Len(value) => value[v + 1] # "*"

StarNext == p < Len(pattern) /\ pattern[p + 1] = "*"
ByteNext == p < Len(pattern) /\ (pattern[p + 1] = "?" \/ pattern[p + 1] = value[v + 1])

Init ==
    /\ pattern \in Seq(Byte)
    /\ value \in Seq(Byte)
    /\ p = 0 /\ v = 0 /\ star = -1 /\ mark = 0
    /\ pc = "match" /\ matched = FALSE

SeeStar ==
    /\ InMatch /\ StarNext
    /\ star' = p
    /\ p' = p + 1
    /\ mark' = v
    /\ UNCHANGED <<args, v, pc, matched>>

PassByte ==
    /\ InMatch /\ ~StarNext /\ ByteNext
    /\ p' = p + 1
    /\ v' = v + 1
    /\ UNCHANGED <<args, star, mark, pc, matched>>

\* Mutant: the '*' retries without swallowing another byte.
BacktrackInPlace ==
    /\ InMatch /\ ~StarNext /\ ~ByteNext
    /\ star >= 0
    /\ p' = star + 1
    /\ v' = mark
    /\ UNCHANGED <<args, star, mark, pc, matched>>

Backtrack ==
    /\ InMatch /\ ~StarNext /\ ~ByteNext
    /\ star >= 0
    /\ p' = star + 1
    /\ mark' = mark + 1
    /\ v' = mark + 1
    /\ UNCHANGED <<args, star, pc, matched>>

Mismatch ==
    /\ InMatch /\ ~StarNext /\ ~ByteNext
    /\ star < 0
    /\ matched' = FALSE
    /\ pc' = "done"
    /\ UNCHANGED <<args, p, v, star, mark>>

EndOfValue ==
    /\ pc = "match" /\ v >= Len(value)
    /\ pc' = "trail"
    /\ UNCHANGED <<args, p, v, star, mark, matched>>

TrailingStar ==
    /\ pc = "trail" /\ StarNext
    /\ p' = p + 1
    /\ UNCHANGED <<args, v, star, mark, pc, matched>>

Return ==
    /\ pc = "trail" /\ ~StarNext
    /\ matched' = (p = Len(pattern))
    /\ pc' = "done"
    /\ UNCHANGED <<args, p, v, star, mark>>

Next ==
    \/ SeeStar \/ PassByte \/ Backtrack \/ Mismatch
    \/ EndOfValue \/ TrailingStar \/ Return

\* A running function goes on to its next iteration.
Spec == Init /\ [][Next]_vars /\ WF_vars(Next)

-----------------------------------------------------------------------------

TypeOK ==
    /\ pattern \in Seq(Byte)
    /\ value \in Seq(Byte)
    /\ p \in 0..Len(pattern)
    /\ v \in 0..Len(value)
    /\ star \in -1..(Len(pattern) - 1)
    /\ mark \in 0..Len(value)
    /\ pc \in {"idle", "match", "trail", "done"}
    /\ matched \in BOOLEAN

\* pattern.go: wildcardMatch answers TRUE exactly when some assignment of
\* stretches of the value to the '*'s of the pattern makes them equal: giving up
\* all backtrack points but the last loses no match and invents none.
ResultIsGlob == pc = "done" => (matched <=> Glob(pattern, value))

\* pattern.go: no iteration of the first loop repeats an earlier one.  Either a
\* later '*' takes over, or the current one swallows another byte, or the scan
\* moves on; with the bounds of TypeOK this is why the search is polynomial,
\* whatever the pattern.
Advances ==
    \/ star' > star
    \/ star' = star /\ mark' > mark
    \/ star' = star /\ mark' = mark /\ p' > p

Progress == [][pc = "match" /\ pc' = "match" => Advances]_vars
=============================================================================
