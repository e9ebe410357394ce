--------------------------- MODULE AllowedSigners ---------------------------
(***************************************************************************)
(* One call of matchEntry (pkg/allowedsigners/verify.go), the search all   *)
(* exported lookups share, followed by NamespaceConstraintResult on its    *)
(* error.  An iteration of the loop is a step, and every way through its   *)
(* body an action.                                                         *)
(***************************************************************************)
EXTENDS SignerPolicy

CONSTANT Lookups \* the <<entries, query>> a lookup is made with

ASSUME LookupsAssumption == Lookups \subseteq Seq(Entry) \X Query

VARIABLES
    file, query,         \* f.Entries, and the arguments
    i,                   \* entries dealt with
    errs,                \* <<entry, reason>> in order: the error messages
    candidates,          \* entries about the signer
    namespaceMatches,    \* ... whose restriction permits the namespace
    namespaceMismatches, \* ... whose restriction refuses it
    unrestricted,        \* first usable fallback, 0 for nil
    pc,                  \* "loop" or "done"
    answer               \* what is returned, once pc = "done"

counters == <<candidates, namespaceMatches, namespaceMismatches>>
locals == <<errs, counters, unrestricted>>
vars == <<file, query, i, locals, pc, answer>>

Lookup == INSTANCE SignerLookup WITH returned <- (pc = "done")

-----------------------------------------------------------------------------

Init ==
    /\ \E l \in Lookups : file = l[1] /\ query = l[2]
    /\ i = 0
    /\ errs = <<>>
    /\ candidates = 0 /\ namespaceMatches = 0 /\ namespaceMismatches = 0
    /\ unrestricted = 0
    /\ pc = "loop"
    /\ answer = Unanswered

Looking == pc = "loop" /\ i < Len(file)
ent == file[i + 1]
Restricted == Restricts(ent, query)

Count(matches, mismatches) ==
    /\ candidates' = candidates + 1
    /\ namespaceMatches' = namespaceMatches + matches
    /\ namespaceMismatches' = namespaceMismatches + mismatches

CountCandidate == Count(IF Restricted THEN 1 ELSE 0, 0)

Continue == i' = i + 1 /\ UNCHANGED <<file, query, pc, answer>>
Complain(reason) == errs' = Append(errs, <<i + 1, reason>>)

Return(entry, restricted, failed) ==
    /\ pc' = "done"
    /\ answer' = [Unanswered EXCEPT !.entry = entry, !.restricted = restricted, !.failed = failed]
    /\ UNCHANGED <<file, query, i>>

-----------------------------------------------------------------------------

OtherPrincipal ==
    /\ Looking
    /\ query.principal # AnyPrincipal /\ query.principal \notin ent.principals
    /\ Continue /\ UNCHANGED locals

OtherKey ==
    /\ Looking
    /\ query.principal = AnyPrincipal \/ query.principal \in ent.principals
    /\ ent.key # query.key
    /\ Continue /\ UNCHANGED locals

NamespaceMismatch ==
    /\ Looking /\ Names(ent, query)
    /\ Restricted /\ query.ns \notin ent.namespaces
    /\ Count(0, 1)
    /\ Complain("namespace mismatch")
    /\ Continue /\ UNCHANGED unrestricted

\* Mutant: an entry is passed over and nothing said about it.
TooEarlySilently ==
    /\ Looking /\ Names(ent, query) /\ ~Refuses(ent, query)
    /\ NotYetValid(ent, query)
    /\ CountCandidate
    /\ Continue /\ UNCHANGED <<errs, unrestricted>>

TooEarly ==
    /\ Looking /\ Names(ent, query) /\ ~Refuses(ent, query)
    /\ NotYetValid(ent, query)
    /\ CountCandidate
    /\ Complain("not yet valid")
    /\ Continue /\ UNCHANGED unrestricted

TooLate ==
    /\ Looking /\ Names(ent, query) /\ ~Refuses(ent, query)
    /\ ~NotYetValid(ent, query) /\ Expired(ent, query)
    /\ CountCandidate
    /\ Complain("expired")
    /\ Continue /\ UNCHANGED unrestricted

\* Mutant: the last fallback is kept and not the first.
KeepLastFallback ==
    /\ Looking /\ Names(ent, query) /\ Accepts(ent, query)
    /\ query.mode = "required" /\ ~Restricted
    /\ CountCandidate
    /\ unrestricted' = i + 1
    /\ Continue /\ UNCHANGED errs

KeepFallback ==
    /\ Looking /\ Names(ent, query) /\ Accepts(ent, query)
    /\ query.mode = "required" /\ ~Restricted
    /\ CountCandidate
    /\ unrestricted' = IF unrestricted = 0 THEN i + 1 ELSE unrestricted
    /\ Continue /\ UNCHANGED errs

Found ==
    /\ Looking /\ Names(ent, query) /\ Accepts(ent, query)
    /\ query.mode = "required" => Restricted
    /\ CountCandidate
    /\ Return(i + 1, Restricted, FALSE)
    /\ UNCHANGED <<errs, unrestricted>>

ReturnFallback ==
    /\ pc = "loop" /\ i >= Len(file)
    /\ unrestricted # 0
    /\ Return(unrestricted, FALSE, FALSE)
    /\ UNCHANGED locals

NothingFound ==
    /\ pc = "loop" /\ i >= Len(file)
    /\ unrestricted = 0 /\ Len(errs) = 0
    /\ Return(0, FALSE, FALSE)
    /\ UNCHANGED locals

\* The constraintError, and what NamespaceConstraintResult makes of its counters.
NamespaceConstraintResult ==
    [checked |-> namespaceMatches > 0
                   \/ (candidates > 0 /\ namespaceMismatches = candidates),
     matched |-> namespaceMatches > 0]

ConstraintError ==
    /\ pc = "loop" /\ i >= Len(file)
    /\ unrestricted = 0 /\ Len(errs) > 0
    /\ pc' = "done"
    /\ answer' = [entry |-> 0, restricted |-> FALSE, failed |-> TRUE,
                  checked |-> NamespaceConstraintResult.checked,
                  permitted |-> NamespaceConstraintResult.matched]
    /\ UNCHANGED <<file, query, i, locals>>

Next ==
    \/ OtherPrincipal \/ OtherKey
    \/ NamespaceMismatch \/ TooEarly \/ TooLate
    \/ KeepFallback \/ Found
    \/ ReturnFallback \/ NothingFound \/ ConstraintError

Spec == Init /\ [][Next]_vars

-----------------------------------------------------------------------------

\* verify.go: the search, which returns in the middle of the file or at its end
\* and decides on counters, answers what the policy says of the whole file, once.
ImplementsLookup == Lookup!Spec

\* verify.go: when all candidates failed, the error explains every one of them,
\* in the order of the file and each by the first check that it fails.
Reason(e) ==
    IF Refuses(e, query) THEN "namespace mismatch"
    ELSE IF NotYetValid(e, query) THEN "not yet valid" ELSE "expired"

ErrorExplainsAll ==
    pc = "done" /\ answer.failed =>
        /\ \A k \in Candidates(file, query) :
             \E j \in DOMAIN errs : errs[j] = <<k, Reason(file[k])>>
        /\ \A j, k \in DOMAIN errs : j < k => errs[j][1] < errs[k][1]
=============================================================================
