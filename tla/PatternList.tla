---------------------------- MODULE PatternList ----------------------------
(***************************************************************************)
(* One call of patternsMatch (pkg/allowedsigners/pattern.go), which tries  *)
(* the patterns of an OpenSSH pattern-list in turn and calls wildcardMatch *)
(* for each.  That call is the machine of WildcardMatch, whose steps it    *)
(* takes while lpc = "call".                                               *)
(***************************************************************************)
EXTENDS WildcardMatch

CONSTANT Calls \* the <<patterns, value>> the function is called with

ASSUME CallsAssumption == Calls \subseteq Seq(Seq(Byte)) \X Seq(Byte)

VARIABLES
    patterns,  \* the split pattern-list
    tried,     \* how many patterns are dealt with
    negated,   \* the pattern at hand has a leading '!'
    listed,    \* the local variable matched: a positive pattern matched
    verdict,   \* the returned value, once lpc = "done"
    lpc        \* "next": loop head, "call": in wildcardMatch, "done": returned

listVars == <<patterns, tried, negated, listed, verdict, lpc>>
allVars == <<vars, listVars>>

-----------------------------------------------------------------------------

Negated(pat) == pat # <<>> /\ pat[1] = "!"

\* Only the first '!' is an operator: "!!a" excludes the text "!a".
Bare(pat) == IF Negated(pat) THEN Tail(pat) ELSE pat

\* What a pattern-list accepts: something it lists and nothing it excludes,
\* in whatever order they are written.
ListAccepts(pats, val) ==
    /\ \E k \in DOMAIN pats : ~Negated(pats[k]) /\ Glob(pats[k], val)
    /\ \A k \in DOMAIN pats : Negated(pats[k]) => ~Glob(Bare(pats[k]), val)

-----------------------------------------------------------------------------

ListInit ==
    /\ \E call \in Calls : patterns = call[1] /\ value = call[2]
    /\ tried = 0
    /\ negated = FALSE /\ listed = FALSE /\ verdict = FALSE
    /\ lpc = "next"
    /\ pattern = <<>> /\ p = 0 /\ v = 0 /\ star = -1 /\ mark = 0
    /\ pc = "idle" /\ matched = FALSE

CallWildcard ==
    /\ lpc = "next" /\ tried < Len(patterns)
    /\ negated' = Negated(patterns[tried + 1])
    /\ pattern' = Bare(patterns[tried + 1])
    /\ p' = 0 /\ v' = 0 /\ star' = -1 /\ mark' = 0
    /\ pc' = "match" /\ matched' = FALSE
    /\ lpc' = "call"
    /\ UNCHANGED <<value, patterns, tried, listed, verdict>>

Wildcard == lpc = "call" /\ Next /\ UNCHANGED listVars

NoMatch ==
    /\ lpc = "call" /\ pc = "done" /\ ~matched
    /\ tried' = tried + 1
    /\ lpc' = "next"
    /\ UNCHANGED <<vars, patterns, negated, listed, verdict>>

\* Mutant: an excluding pattern only takes back what was listed before it.
ExcludeSoFar ==
    /\ lpc = "call" /\ pc = "done" /\ matched /\ negated
    /\ listed' = FALSE
    /\ tried' = tried + 1
    /\ lpc' = "next"
    /\ UNCHANGED <<vars, patterns, negated, verdict>>

Exclude ==
    /\ lpc = "call" /\ pc = "done" /\ matched /\ negated
    /\ verdict' = FALSE
    /\ lpc' = "done"
    /\ UNCHANGED <<vars, patterns, tried, negated, listed>>

Include ==
    /\ lpc = "call" /\ pc = "done" /\ matched /\ ~negated
    /\ listed' = TRUE
    /\ tried' = tried + 1
    /\ lpc' = "next"
    /\ UNCHANGED <<vars, patterns, negated, verdict>>

EndOfList ==
    /\ lpc = "next" /\ tried >= Len(patterns)
    /\ verdict' = listed
    /\ lpc' = "done"
    /\ UNCHANGED <<vars, patterns, tried, negated, listed>>

ListNext ==
    \/ CallWildcard \/ Wildcard
    \/ NoMatch \/ Exclude \/ Include \/ EndOfList

ListSpec == ListInit /\ [][ListNext]_allVars /\ WF_allVars(ListNext)

-----------------------------------------------------------------------------

ListTypeOK ==
    /\ TypeOK
    /\ patterns \in Seq(Seq(Byte))
    /\ tried \in 0..Len(patterns)
    /\ negated \in BOOLEAN /\ listed \in BOOLEAN /\ verdict \in BOOLEAN
    /\ lpc \in {"next", "call", "done"}

\* pattern.go: "A negated match takes precedence over any positive match",
\* wherever in the list it stands, though the loop sees the patterns in order.
NegationWins == lpc = "done" => (verdict <=> ListAccepts(patterns, value))

\* pattern.go: both loops end, for every pattern and value.
Returns == <>(lpc = "done")
=============================================================================
