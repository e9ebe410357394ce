---------------------------- MODULE SignerLookup ----------------------------
(***************************************************************************)
(* What a lookup in an allowed signers file promises: it answers once, and *)
(* its answer is the verdict of the policy on the whole file.  The search  *)
(* of AllowedSigners implements it with the Verdict of SignerPolicy.       *)
(***************************************************************************)
CONSTANTS
    Lookups,       \* the <<file, query>> a lookup is made with
    Unanswered,    \* in place of an answer, until there is one
    Verdict(_, _)  \* the policy

VARIABLES
    file, query, \* the entries in order, and what is asked
    returned,    \* the lookup has returned
    answer       \* its answer, once returned

vars == <<file, query, returned, answer>>

Init ==
    /\ \E l \in Lookups : file = l[1] /\ query = l[2]
    /\ returned = FALSE
    /\ answer = Unanswered

Answer ==
    /\ ~returned
    /\ returned' = TRUE
    /\ answer' = Verdict(file, query)
    /\ UNCHANGED <<file, query>>

Spec == Init /\ [][Answer]_vars
=============================================================================
