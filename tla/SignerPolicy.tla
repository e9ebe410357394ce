---------------------------- MODULE SignerPolicy ----------------------------
(***************************************************************************)
(* What an allowed signers file says of a signer, written as a policy over *)
(* the whole file and not as a search (pkg/allowedsigners/verify.go).      *)
(*                                                                         *)
(* An entry is abstracted to what its checks tell apart.  A pattern-list   *)
(* is the set of the names it matches (PatternList shows what that set     *)
(* is), and an absent time bound is the empty set.                         *)
(***************************************************************************)
EXTENDS Integers, Sequences

CONSTANTS
    Principal,    \* the principals one can ask for
    AnyPrincipal, \* the empty -p option: no principal was asked for
    Key,          \* public keys, up to PublicKeyEqual
    Namespace,    \* signature namespaces
    Time          \* instants, in the finest unit a bound is compared in

ASSUME PolicyAssumption ==
    /\ AnyPrincipal \notin Principal
    /\ Time \subseteq Int

\* namespaceIgnored, namespaceChecked and namespaceRequired.
Mode == {"ignored", "checked", "required"}

Entry ==
    [principals : SUBSET Principal,
     key : Key,
     restricting : BOOLEAN,         \* namespaces= is given
     namespaces : SUBSET Namespace, \* what it matches
     after : SUBSET Time,           \* valid-after=, at most one instant
     before : SUBSET Time]          \* valid-before=, at most one instant

Query ==
    [key : Key,
     principal : Principal \cup {AnyPrincipal},
     ns : Namespace,
     time : Time,
     mode : Mode]

-----------------------------------------------------------------------------

\* The entry is about the signer: the candidates of matchEntry.
Names(ent, q) ==
    /\ q.principal = AnyPrincipal \/ q.principal \in ent.principals
    /\ ent.key = q.key

Restricts(ent, q) == q.mode # "ignored" /\ ent.restricting
Refuses(ent, q) == Restricts(ent, q) /\ q.ns \notin ent.namespaces
Permits(ent, q) == Restricts(ent, q) /\ q.ns \in ent.namespaces

\* Both bounds are inclusive.
NotYetValid(ent, q) == \E t \in ent.after : q.time < t
Expired(ent, q) == \E t \in ent.before : q.time > t

\* The candidate is acceptable as far as it goes.
Accepts(ent, q) == ~Refuses(ent, q) /\ ~NotYetValid(ent, q) /\ ~Expired(ent, q)

-----------------------------------------------------------------------------

Candidates(f, q) == {k \in DOMAIN f : Names(f[k], q)}
Usable(f, q) == {k \in Candidates(f, q) : Accepts(f[k], q)}

\* When a namespace restriction is wanted, an entry with one beats all without.
Preferred(f, q) ==
    IF q.mode = "required" /\ \E k \in Usable(f, q) : Restricts(f[k], q)
    THEN {k \in Usable(f, q) : Restricts(f[k], q)}
    ELSE Usable(f, q)

First(S) == CHOOSE k \in S : \A j \in S : k <= j

\* The answer of matchEntry together with NamespaceConstraintResult of its error:
\* the entry (0 for nil), whether it restricts namespaces, whether there is an
\* error, and whether the namespace alone is settled, and how.
Verdict(f, q) ==
    LET cands == Candidates(f, q)
        failed == cands # {} /\ Usable(f, q) = {}
        permitted == failed /\ \E k \in cands : Permits(f[k], q)
        refused == failed /\ \A k \in cands : Refuses(f[k], q)
        entry == IF Usable(f, q) = {} THEN 0 ELSE First(Preferred(f, q))
    IN  [entry |-> entry,
         restricted |-> entry # 0 /\ Restricts(f[entry], q),
         failed |-> failed,
         checked |-> permitted \/ refused,
         permitted |-> permitted]

\* What stands in place of an answer until there is one.
Unanswered ==
    [entry |-> 0, restricted |-> FALSE, failed |-> FALSE, checked |-> FALSE, permitted |-> FALSE]

Verdicts ==
    [entry : Nat, restricted : BOOLEAN, failed : BOOLEAN, checked : BOOLEAN, permitted : BOOLEAN]
=============================================================================
