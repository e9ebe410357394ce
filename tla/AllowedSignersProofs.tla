------------------------ MODULE AllowedSignersProofs ------------------------
(***************************************************************************)
(* The allowed signers files, for files of any number and length.  First   *)
(* the lookup: matchEntry implements the policy, what it returns from the  *)
(* middle of the file or concludes from its counters at the end is the     *)
(* verdict on the whole file.  Then SignersParse: what is parsed is at     *)
(* every step what the lines so far add up to, however they are split      *)
(* into files.                                                             *)
(***************************************************************************)
EXTENDS AllowedSigners, SignersParse, FiniteSetTheorems, TLAPS

\* Entry k is about the signer and passes all checks.
Good(k) == Names(file[k], query) /\ Accepts(file[k], query)

\* What the entries dealt with so far have left behind.
CountersInv ==
    /\ candidates \in Nat /\ namespaceMatches \in Nat /\ namespaceMismatches \in Nat
    /\ candidates > 0 <=> \E k \in 1..i : Names(file[k], query)
    /\ namespaceMatches > 0 <=> \E k \in 1..i : Names(file[k], query) /\ Permits(file[k], query)
    /\ namespaceMismatches <= candidates
    /\ namespaceMismatches = candidates
         <=> \A k \in 1..i : Names(file[k], query) => Refuses(file[k], query)

Complaint == Nat \X {"namespace mismatch", "not yet valid", "expired"}

ErrsInv ==
    /\ errs \in Seq(Complaint)
    /\ Len(errs) > 0
         <=> \E k \in 1..i : Names(file[k], query) /\ ~Accepts(file[k], query)

\* Nothing passed over is an answer, but for the fallback that was kept.
FallbackInv ==
    /\ \A k \in 1..i : Good(k) => query.mode = "required" /\ ~Restricts(file[k], query)
    /\ unrestricted = 0 => \A k \in 1..i : ~Good(k)
    /\ unrestricted # 0 =>
         /\ unrestricted \in 1..i /\ Good(unrestricted)
         /\ \A k \in 1..(unrestricted - 1) : ~Good(k)

\* What the argument needs of the types.
Typed ==
    /\ file \in Seq(Entry) /\ query \in Query
    /\ i \in 0..Len(file)
    /\ unrestricted \in 0..Len(file)
    /\ pc \in {"loop", "done"}

IInv ==
    /\ Typed
    /\ pc = "loop" => CountersInv /\ ErrsInv /\ FallbackInv /\ answer = Unanswered
    /\ pc = "done" => answer = Verdict(file, query)

-----------------------------------------------------------------------------

LEMMA FirstIs ==
    ASSUME NEW S \in SUBSET Int, NEW k \in S, \A j \in S : k <= j
    PROVE  First(S) = k
<1>1. \A l \in S : (\A j \in S : l <= j) => l = k
  OBVIOUS
<1>2. QED
  BY <1>1 DEF First

\* The entry at hand joins those that are dealt with.
LEMMA OneMore == ASSUME NEW n \in Nat PROVE \A k : k \in 1..(n + 1) <=> k \in 1..n \/ k = n + 1
OBVIOUS

\* Counting a candidate by what its namespace restriction says.
LEMMA Counted ==
    ASSUME CountersInv, i \in Nat, Names(ent, query),
           NEW m \in {0, 1}, m = 1 <=> Permits(ent, query),
           NEW mm \in {0, 1}, mm = 1 <=> Refuses(ent, query),
           Count(m, mm), i' = i + 1, UNCHANGED <<file, query>>
    PROVE  CountersInv'
<1> USE DEF CountersInv, Count, ent
<1>1. /\ candidates' = candidates + 1 /\ candidates \in Nat
      /\ namespaceMatches' = namespaceMatches + m /\ namespaceMatches \in Nat
      /\ namespaceMismatches' = namespaceMismatches + mm /\ namespaceMismatches \in Nat
      /\ namespaceMismatches <= candidates
  OBVIOUS
<1>2. candidates' > 0 /\ \E k \in 1..(i + 1) : Names(file[k], query)
  BY <1>1
<1>3. namespaceMatches' > 0
        <=> \E k \in 1..(i + 1) : Names(file[k], query) /\ Permits(file[k], query)
  <2>1. CASE m = 1
    BY <2>1, <1>1
  <2>2. CASE m = 0
    BY <2>2, <1>1, OneMore
  <2>3. QED
    BY <2>1, <2>2
<1>4. /\ namespaceMismatches' <= candidates'
      /\ namespaceMismatches' = candidates' <=> mm = 1 /\ namespaceMismatches = candidates
  BY <1>1
<1>5. namespaceMismatches' = candidates'
        <=> \A k \in 1..(i + 1) : Names(file[k], query) => Refuses(file[k], query)
  <2>1. CASE mm = 1
    BY <2>1, <1>4, OneMore
  <2>2. CASE mm = 0
    BY <2>2, <1>4
  <2>3. QED
    BY <2>1, <2>2
<1>6. QED
  BY <1>1, <1>2, <1>3, <1>4, <1>5

LEMMA UsableAre ==
    ASSUME Typed
    PROVE  /\ Candidates(file, query) = {k \in 1..Len(file) : Names(file[k], query)}
           /\ Usable(file, query) = {k \in 1..Len(file) : Good(k)}
BY DEF Typed, Candidates, Usable, Good

LEMMA InitIInv == Init => IInv
<1> SUFFICES ASSUME Init PROVE IInv
  OBVIOUS
<1>1. <<file, query>> \in Lookups
  <2>1. PICK l \in Lookups : file = l[1] /\ query = l[2]
    BY DEF Init
  <2>2. l = <<l[1], l[2]>>
    BY LookupsAssumption
  <2>3. QED
    BY <2>1, <2>2
<1>2. file \in Seq(Entry) /\ query \in Query
  BY <1>1, LookupsAssumption
<1>3. Len(file) \in Nat
  BY <1>2
<1>4. QED
  BY <1>2, <1>3 DEF Init, IInv, Typed, CountersInv, ErrsInv, FallbackInv

-----------------------------------------------------------------------------

LEMMA SkipStep == IInv /\ (OtherPrincipal \/ OtherKey) => IInv'
<1> SUFFICES ASSUME IInv, OtherPrincipal \/ OtherKey PROVE IInv'
  OBVIOUS
<1>1. /\ ~Names(ent, query) /\ i < Len(file) /\ pc = "loop" /\ i' = i + 1
      /\ UNCHANGED <<file, query, pc, answer, locals>>
  BY DEF OtherPrincipal, OtherKey, Names, Looking, Continue
<1>2. Typed /\ CountersInv /\ ErrsInv /\ FallbackInv /\ i \in Nat /\ Len(file) \in Nat
  BY <1>1 DEF IInv, Typed
<1>3. Typed'
  BY <1>1, <1>2 DEF Typed, locals
<1>4. CountersInv'
  BY <1>1, <1>2, OneMore DEF CountersInv, locals, counters, ent
<1>5. ErrsInv'
  BY <1>1, <1>2, OneMore DEF ErrsInv, locals, ent
<1>6. FallbackInv'
  BY <1>1, <1>2, OneMore DEF FallbackInv, Good, locals, ent
<1>7. QED
  BY <1>1, <1>3, <1>4, <1>5, <1>6 DEF IInv

\* A candidate that fails a check is counted and complained of.
LEMMA ComplainStep == IInv /\ (NamespaceMismatch \/ TooEarly \/ TooLate) => IInv'
<1> SUFFICES ASSUME IInv, NamespaceMismatch \/ TooEarly \/ TooLate PROVE IInv'
  OBVIOUS
<1>1. /\ Names(ent, query) /\ ~Accepts(ent, query) /\ i < Len(file) /\ pc = "loop"
      /\ i' = i + 1 /\ UNCHANGED <<file, query, pc, answer, unrestricted>>
  BY DEF NamespaceMismatch, TooEarly, TooLate, Looking, Continue, Accepts, Refuses, Restricted
<1>2. Typed /\ CountersInv /\ ErrsInv /\ FallbackInv /\ i \in Nat /\ Len(file) \in Nat
  BY <1>1 DEF IInv, Typed
<1>3. Typed'
  BY <1>1, <1>2 DEF Typed
<1>4. CountersInv'
  <2>1. CASE NamespaceMismatch
    <3>1. Refuses(ent, query) /\ ~Permits(ent, query) /\ Count(0, 1)
      BY <2>1 DEF NamespaceMismatch, Refuses, Permits, Restricted
    <3>2. QED
      BY <1>1, <1>2, <3>1, Counted
  <2>2. CASE TooEarly \/ TooLate
    <3>1. ~Refuses(ent, query) /\ (Permits(ent, query) <=> Restricted)
      BY <2>2 DEF TooEarly, TooLate, Refuses, Permits, Restricted
    <3>2. Count(IF Restricted THEN 1 ELSE 0, 0)
      BY <2>2 DEF TooEarly, TooLate, CountCandidate
    <3>3. QED
      BY <1>1, <1>2, <3>1, <3>2, Counted
  <2>3. QED
    BY <2>1, <2>2
<1>5. ErrsInv'
  <2>1. PICK e \in Complaint : errs' = Append(errs, e)
    <3>1. \A r \in {"namespace mismatch", "not yet valid", "expired"} :
            <<i + 1, r>> \in Complaint
      <4>1. i + 1 \in Nat
        BY <1>2
      <4>2. QED
        BY <4>1, Zenon DEF Complaint
    <3>2. \E r \in {"namespace mismatch", "not yet valid", "expired"} : Complain(r)
      BY DEF NamespaceMismatch, TooEarly, TooLate
    <3>3. QED
      BY <3>1, <3>2 DEF Complain
  <2>2. errs' \in Seq(Complaint) /\ Len(errs') = Len(errs) + 1 /\ Len(errs) \in Nat
    BY <2>1, <1>2 DEF ErrsInv
  <2>3. i + 1 \in 1..i' /\ Names(file[i + 1], query) /\ ~Accepts(file[i + 1], query)
    BY <1>1, <1>2 DEF ent
  <2>4. QED
    BY <1>1, <2>2, <2>3 DEF ErrsInv
<1>6. FallbackInv'
  BY <1>1, <1>2, OneMore DEF FallbackInv, Good, ent
<1>7. QED
  BY <1>1, <1>3, <1>4, <1>5, <1>6 DEF IInv

LEMMA KeepFallbackStep == IInv /\ KeepFallback => IInv'
<1> SUFFICES ASSUME IInv, KeepFallback PROVE IInv'
  OBVIOUS
<1>1. /\ Names(ent, query) /\ Accepts(ent, query) /\ ~Restricts(ent, query)
      /\ query.mode = "required" /\ i < Len(file) /\ pc = "loop"
      /\ unrestricted' = IF unrestricted = 0 THEN i + 1 ELSE unrestricted
      /\ i' = i + 1 /\ UNCHANGED <<file, query, pc, answer, errs>>
  BY DEF KeepFallback, Looking, Continue, Restricted
<1>2. Typed /\ CountersInv /\ ErrsInv /\ FallbackInv /\ i \in Nat /\ Len(file) \in Nat
  BY <1>1 DEF IInv, Typed
<1>3. Typed'
  BY <1>1, <1>2 DEF Typed
<1>4. CountersInv'
  <2>1. ~Refuses(ent, query) /\ ~Permits(ent, query)
    BY <1>1 DEF Refuses, Permits
  <2>2. Count(0, 0)
    BY <1>1 DEF KeepFallback, CountCandidate, Restricted
  <2>3. QED
    BY <1>1, <1>2, <2>1, <2>2, Counted
<1>5. ErrsInv'
  BY <1>1, <1>2, OneMore DEF ErrsInv, ent
<1>6. FallbackInv'
  <2>1. CASE unrestricted = 0
    BY <2>1, <1>1, <1>2, OneMore DEF FallbackInv, Good, ent
  <2>2. CASE unrestricted # 0
    BY <2>2, <1>1, <1>2, OneMore DEF FallbackInv, Good, ent
  <2>3. QED
    BY <2>1, <2>2
<1>7. QED
  BY <1>1, <1>3, <1>4, <1>5, <1>6 DEF IInv

LEMMA FoundStep == IInv /\ Found => answer' = Verdict(file, query)
<1> SUFFICES ASSUME IInv, Found PROVE answer' = Verdict(file, query)
  OBVIOUS
<1>1. /\ Names(ent, query) /\ Accepts(ent, query)
      /\ query.mode = "required" => Restricts(ent, query)
      /\ i < Len(file) /\ pc = "loop"
      /\ answer' = [entry |-> i + 1, restricted |-> Restricts(ent, query), failed |-> FALSE,
                    checked |-> FALSE, permitted |-> FALSE]
  BY DEF Found, Looking, Return, Restricted, Unanswered
<1>2. Typed /\ FallbackInv /\ i \in Nat /\ Len(file) \in Nat
  BY <1>1 DEF IInv, Typed
<1>3. i + 1 \in 1..Len(file) /\ Good(i + 1) /\ i + 1 \in Usable(file, query)
  BY <1>1, <1>2, UsableAre DEF Good, ent
<1>4. First(Preferred(file, query)) = i + 1
  <2>1. i + 1 \in Preferred(file, query)
    BY <1>1, <1>3 DEF Preferred, ent
  <2>2. ASSUME NEW k \in Preferred(file, query) PROVE k \in 1..Len(file) /\ i + 1 <= k
    <3>1. k \in 1..Len(file) /\ Good(k)
      BY <2>2, <1>2, UsableAre DEF Preferred
    <3>2. k \notin 1..i
      BY <3>1, <2>2, <1>1, <1>2, <1>3 DEF FallbackInv, Preferred, ent
    <3>3. QED
      BY <3>1, <3>2, <1>2
  <2>3. QED
    BY <2>1, <2>2, <1>2, FirstIs
<1>5. Restricts(ent, query) \in BOOLEAN /\ i + 1 # 0
  BY <1>2 DEF Restricts
<1>6. QED
  BY <1>1, <1>3, <1>4, <1>5 DEF Verdict, ent

\* At the end of the file nothing but unrestricted fallbacks is usable.
LEMMA AtEnd ==
    ASSUME IInv, pc = "loop", i >= Len(file)
    PROVE  /\ i = Len(file) /\ Typed /\ FallbackInv /\ CountersInv /\ ErrsInv
           /\ \A k \in Usable(file, query) :
                k \in 1..i /\ Good(k) /\ query.mode = "required" /\ ~Restricts(file[k], query)
           /\ Candidates(file, query) = {k \in 1..i : Names(file[k], query)}
           /\ unrestricted = 0 => Usable(file, query) = {}
<1>1. i = Len(file) /\ Typed /\ FallbackInv /\ CountersInv /\ ErrsInv
  BY DEF IInv, Typed
<1>2. QED
  BY <1>1, UsableAre DEF FallbackInv

LEMMA ReturnFallbackStep == IInv /\ ReturnFallback => answer' = Verdict(file, query)
<1> SUFFICES ASSUME IInv, ReturnFallback PROVE answer' = Verdict(file, query)
  OBVIOUS
<1>1. /\ pc = "loop" /\ i >= Len(file) /\ unrestricted # 0
      /\ answer' = [entry |-> unrestricted, restricted |-> FALSE, failed |-> FALSE,
                    checked |-> FALSE, permitted |-> FALSE]
  BY DEF ReturnFallback, Return, Unanswered
<1>2. /\ i = Len(file) /\ Typed /\ FallbackInv
      /\ \A k \in Usable(file, query) : k \in 1..i /\ Good(k) /\ ~Restricts(file[k], query)
  BY <1>1, AtEnd
<1>3. /\ unrestricted \in 1..i /\ Good(unrestricted)
      /\ \A k \in 1..(unrestricted - 1) : ~Good(k)
  BY <1>1, <1>2 DEF FallbackInv
<1>4. unrestricted \in Usable(file, query)
  BY <1>2, <1>3, UsableAre
<1>5. Preferred(file, query) = Usable(file, query)
  BY <1>2 DEF Preferred
<1>6. First(Preferred(file, query)) = unrestricted
  <2>1. \A k \in Usable(file, query) : k \in Int /\ unrestricted <= k
    BY <1>2, <1>3 DEF Typed
  <2>2. QED
    BY <1>4, <1>5, <2>1, FirstIs
<1>7. unrestricted # 0 /\ ~Restricts(file[unrestricted], query)
  BY <1>1, <1>2, <1>4
<1>8. QED
  BY <1>1, <1>4, <1>6, <1>7 DEF Verdict

LEMMA NothingFoundStep == IInv /\ NothingFound => answer' = Verdict(file, query)
<1> SUFFICES ASSUME IInv, NothingFound PROVE answer' = Verdict(file, query)
  OBVIOUS
<1>1. /\ pc = "loop" /\ i >= Len(file) /\ unrestricted = 0 /\ Len(errs) = 0
      /\ answer' = [entry |-> 0, restricted |-> FALSE, failed |-> FALSE,
                    checked |-> FALSE, permitted |-> FALSE]
  BY DEF NothingFound, Return, Unanswered
<1>2. Usable(file, query) = {}
  BY <1>1, AtEnd
<1>3. Candidates(file, query) = {}
  BY <1>1, AtEnd DEF ErrsInv, FallbackInv, Good
<1>4. QED
  BY <1>1, <1>2, <1>3 DEF Verdict

LEMMA ConstraintErrorStep == IInv /\ ConstraintError => answer' = Verdict(file, query)
<1> SUFFICES ASSUME IInv, ConstraintError PROVE answer' = Verdict(file, query)
  OBVIOUS
<1>1. /\ pc = "loop" /\ i >= Len(file) /\ unrestricted = 0 /\ Len(errs) > 0
      /\ answer' = [entry |-> 0, restricted |-> FALSE, failed |-> TRUE,
                    checked |-> NamespaceConstraintResult.checked,
                    permitted |-> NamespaceConstraintResult.matched]
  BY DEF ConstraintError
<1>2. Usable(file, query) = {}
  BY <1>1, AtEnd
<1> DEFINE cands == Candidates(file, query)
<1>3. cands # {} /\ cands = {k \in 1..i : Names(file[k], query)}
  BY <1>1, AtEnd DEF ErrsInv
<1>4. NamespaceConstraintResult.matched <=> \E k \in cands : Permits(file[k], query)
  BY <1>1, <1>3, AtEnd DEF CountersInv, NamespaceConstraintResult
<1>5. (candidates > 0 /\ namespaceMismatches = candidates)
        <=> \A k \in cands : Refuses(file[k], query)
  BY <1>1, <1>3, AtEnd DEF CountersInv
<1>6. NamespaceConstraintResult.checked
        <=> (\E k \in cands : Permits(file[k], query)) \/ (\A k \in cands : Refuses(file[k], query))
  BY <1>4, <1>5 DEF NamespaceConstraintResult
<1>7. QED
  <2>1. NamespaceConstraintResult.matched \in BOOLEAN /\ NamespaceConstraintResult.checked \in BOOLEAN
    BY DEF NamespaceConstraintResult
  <2>2. NamespaceConstraintResult.matched = (\E k \in cands : Permits(file[k], query))
    BY <1>4, <2>1
  <2>3. NamespaceConstraintResult.checked
          = ((\E k \in cands : Permits(file[k], query)) \/ (\A k \in cands : Refuses(file[k], query)))
    BY <1>6, <2>1
  <2>4. QED
    BY <1>1, <1>2, <1>3, <2>2, <2>3 DEF Verdict

-----------------------------------------------------------------------------

Returning == Found \/ ReturnFallback \/ NothingFound \/ ConstraintError

LEMMA ReturningStep ==
    IInv /\ Returning => /\ pc = "loop" /\ pc' = "done" /\ UNCHANGED <<file, query>>
                         /\ answer' = Verdict(file, query) /\ IInv'
<1> SUFFICES ASSUME IInv, Returning
             PROVE  /\ pc = "loop" /\ pc' = "done" /\ UNCHANGED <<file, query>>
                    /\ answer' = Verdict(file, query) /\ IInv'
  OBVIOUS
<1>1. answer' = Verdict(file, query)
  BY FoundStep, ReturnFallbackStep, NothingFoundStep, ConstraintErrorStep DEF Returning
<1>2. /\ pc = "loop" /\ pc' = "done" /\ UNCHANGED <<file, query, i, unrestricted>>
  BY DEF Returning, Found, ReturnFallback, NothingFound, ConstraintError, Return, Looking, locals
<1>3. IInv'
  BY <1>1, <1>2 DEF IInv, Typed
<1>4. QED
  BY <1>1, <1>2, <1>3

LEMMA StepIInv == IInv /\ [Next]_vars => IInv'
<1> SUFFICES ASSUME IInv, [Next]_vars PROVE IInv'
  OBVIOUS
<1>1. CASE UNCHANGED vars
  BY <1>1 DEF vars, locals, counters, IInv, Typed, CountersInv, ErrsInv, FallbackInv, Good
<1>2. CASE Returning
  BY <1>2, ReturningStep
<1>3. QED
  BY <1>1, <1>2, SkipStep, ComplainStep, KeepFallbackStep DEF Next, Returning

\* The search implements the lookup: it answers once, with the verdict of the
\* policy on the whole file, in whichever of its four ways it returns.
THEOREM SearchImplementsPolicy == Spec => ImplementsLookup
<1>1. Init => Lookup!Init
  BY DEF Init, Lookup!Init
<1>2. IInv /\ [Next]_vars => [Lookup!Answer]_(Lookup!vars)
  <2> SUFFICES ASSUME IInv, [Next]_vars PROVE [Lookup!Answer]_(Lookup!vars)
    OBVIOUS
  <2>1. CASE Returning
    BY <2>1, ReturningStep DEF Lookup!Answer
  <2>2. CASE OtherPrincipal \/ OtherKey \/ NamespaceMismatch \/ TooEarly \/ TooLate \/ KeepFallback
    BY <2>2 DEF OtherPrincipal, OtherKey, NamespaceMismatch, TooEarly, TooLate, KeepFallback,
                Continue, Lookup!vars
  <2>3. CASE UNCHANGED vars
    BY <2>3 DEF vars, Lookup!vars
  <2>4. QED
    BY <2>1, <2>2, <2>3 DEF Next, Returning
<1>3. QED
  BY <1>1, <1>2, InitIInv, StepIInv, PTL DEF Spec, ImplementsLookup, Lookup!Spec

-----------------------------------------------------------------------------

\* What errs says of the entries dealt with: one line for each candidate that fails, in
\* their order.
Explains(k) == \E j \in DOMAIN errs : errs[j] = <<k, Reason(file[k])>>

Explained ==
    /\ errs \in Seq(Complaint)
    /\ \A k \in 1..i : Names(file[k], query) /\ ~Accepts(file[k], query) => Explains(k)
    /\ \A j \in DOMAIN errs : errs[j][1] \in 1..i
    /\ \A j, k \in DOMAIN errs : j < k => errs[j][1] < errs[k][1]

AtItsEnd == pc = "done" /\ answer.failed => i = Len(file)

\* A line that is appended is the last one, and the others stay.
LEMMA Longer ==
    ASSUME NEW S, NEW s \in Seq(S), NEW x \in S
    PROVE  /\ Append(s, x) \in Seq(S)
           /\ Len(s) \in Nat /\ DOMAIN s = 1..Len(s)
           /\ DOMAIN Append(s, x) = 1..(Len(s) + 1)
           /\ \A j \in 1..Len(s) : Append(s, x)[j] = s[j]
           /\ Append(s, x)[Len(s) + 1] = x
OBVIOUS

\* An entry passed over without a word is no candidate that fails.
LEMMA PassedOver ==
    ASSUME IInv, Explained, Looking, ~(Names(ent, query) /\ ~Accepts(ent, query)),
           i' = i + 1, UNCHANGED <<file, query, errs>>
    PROVE  Explained'
<1>1. i \in Nat
  BY DEF IInv, Typed, Looking
<1>2. \A k \in 1..(i + 1) : Names(file[k], query) /\ ~Accepts(file[k], query) => Explains(k)
  BY <1>1, OneMore DEF Explained, ent
<1>3. \A j \in DOMAIN errs : errs[j][1] \in 1..(i + 1)
  BY <1>1, OneMore DEF Explained
<1>4. QED
  BY <1>1, <1>2, <1>3 DEF Explained, Explains, Reason

\* A candidate that fails is given its line.
LEMMA Complained ==
    ASSUME IInv, Explained, Looking, Complain(Reason(ent)), i' = i + 1, UNCHANGED <<file, query>>
    PROVE  Explained'
<1> DEFINE complaint == <<i + 1, Reason(ent)>>
           m == Len(errs)
           t == errs'
<1>1. i \in Nat /\ errs \in Seq(Complaint)
  BY DEF IInv, Typed, Looking, Explained
<1>2. t = Append(errs, complaint) /\ complaint \in Complaint
  <2>1. Reason(ent) \in {"namespace mismatch", "not yet valid", "expired"}
    BY DEF Reason
  <2>2. i + 1 \in Nat
    BY <1>1
  <2>3. complaint \in Complaint
    BY <2>1, <2>2 DEF Complaint
  <2>4. QED
    BY <2>3 DEF Complain
<1>3. complaint[1] = i + 1
  OBVIOUS
<1> HIDE DEF complaint
<1>4. /\ t \in Seq(Complaint) /\ m \in Nat /\ DOMAIN errs = 1..m /\ DOMAIN t = 1..(m + 1)
      /\ \A j \in 1..m : t[j] = errs[j]
      /\ t[m + 1] = complaint
  BY <1>1, <1>2, Longer
<1> HIDE DEF m, t
<1>5. \A j : j \in 1..(m + 1) <=> j \in 1..m \/ j = m + 1
  BY <1>4
<1>6. m + 1 \notin 1..m /\ \A j \in 1..m : j < m + 1 /\ ~(m + 1 < j)
  BY <1>4
<1>7. ASSUME NEW k \in 1..(i + 1), Names(file[k], query), ~Accepts(file[k], query)
      PROVE  \E j \in DOMAIN t : t[j] = <<k, Reason(file[k])>>
  <2>1. CASE k = i + 1
    <3>1. complaint = <<k, Reason(file[k])>>
      BY <2>1 DEF complaint, ent
    <3>2. m + 1 \in DOMAIN t
      BY <1>4, <1>5
    <3>3. QED
      BY <1>4, <3>1, <3>2
  <2>2. CASE k \in 1..i
    <3>1. PICK j \in 1..m : errs[j] = <<k, Reason(file[k])>>
      BY <1>4, <1>7, <2>2 DEF Explained, Explains
    <3>2. QED
      BY <1>4, <1>5, <3>1
  <2>3. QED
    BY <1>1, <2>1, <2>2, OneMore
<1>8. \A j \in DOMAIN t : t[j][1] \in 1..(i + 1)
  <2>1. \A j \in 1..m : t[j][1] \in 1..i
    BY <1>4 DEF Explained
  <2>2. t[m + 1][1] = i + 1
    BY <1>3, <1>4
  <2>3. QED
    BY <1>1, <1>4, <1>5, <2>1, <2>2
<1>9. ASSUME NEW j \in DOMAIN t, NEW k \in DOMAIN t, j < k
      PROVE  t[j][1] < t[k][1]
  <2>1. j \in 1..m
    BY <1>4, <1>5, <1>6, <1>9
  <2>2. CASE k \in 1..m
    BY <1>4, <1>9, <2>1, <2>2 DEF Explained
  <2>3. CASE k = m + 1
    <3>1. t[j][1] \in 1..i
      BY <1>4, <2>1 DEF Explained
    <3>2. t[k][1] = i + 1
      BY <1>3, <1>4, <2>3
    <3>3. QED
      BY <1>1, <3>1, <3>2
  <2>4. QED
    BY <1>4, <1>5, <2>2, <2>3
<1>10. QED
  BY <1>4, <1>7, <1>8, <1>9 DEF Explained, Explains, Reason, t

LEMMA ExplainedStep == IInv /\ Explained /\ AtItsEnd /\ [Next]_vars => Explained' /\ AtItsEnd'
<1> SUFFICES ASSUME IInv, Explained, AtItsEnd, [Next]_vars PROVE Explained' /\ AtItsEnd'
  OBVIOUS
<1>1. CASE UNCHANGED vars
  BY <1>1 DEF vars, locals, Explained, Explains, Reason, AtItsEnd
<1>2. CASE OtherPrincipal \/ OtherKey \/ KeepFallback
  <2>1. /\ Looking /\ ~(Names(ent, query) /\ ~Accepts(ent, query))
        /\ i' = i + 1 /\ pc' # "done" /\ UNCHANGED <<file, query, errs>>
    BY <1>2 DEF OtherPrincipal, OtherKey, KeepFallback, Names, Continue, locals, Looking
  <2>2. QED
    BY <2>1, PassedOver DEF AtItsEnd
<1>3. CASE NamespaceMismatch \/ TooEarly \/ TooLate
  <2>1. Complain(Reason(ent))
    BY <1>3 DEF NamespaceMismatch, TooEarly, TooLate, Reason, Refuses, Restricted
  <2>2. Looking /\ i' = i + 1 /\ pc' # "done" /\ UNCHANGED <<file, query>>
    BY <1>3 DEF NamespaceMismatch, TooEarly, TooLate, Continue, Looking
  <2>3. QED
    BY <2>1, <2>2, Complained DEF AtItsEnd
<1>4. CASE Returning
  <2>1. UNCHANGED <<file, query, i, errs>>
    BY <1>4 DEF Returning, Found, ReturnFallback, NothingFound, ConstraintError, Return, locals
  <2>2. answer'.failed => i >= Len(file)
    BY <1>4
    DEF Returning, Found, ReturnFallback, NothingFound, ConstraintError, Return, Unanswered
  <2>3. i \in 0..Len(file) /\ Len(file) \in Nat
    BY DEF IInv, Typed
  <2>4. answer'.failed => i = Len(file)
    BY <2>2, <2>3
  <2>5. QED
    BY <2>1, <2>4 DEF Explained, Explains, Reason, AtItsEnd
<1>5. QED
  BY <1>1, <1>2, <1>3, <1>4 DEF Next, Returning

\* An error that is returned has a line for every candidate of the file, in its order and
\* with the first check that the candidate fails.
THEOREM ErrorExplains == Spec => []ErrorExplainsAll
<1>1. Init => Explained /\ AtItsEnd
  BY DEF Init, Explained, AtItsEnd
<1>2. IInv /\ Explained /\ AtItsEnd => ErrorExplainsAll
  <2> SUFFICES ASSUME IInv, Explained, AtItsEnd, pc = "done", answer.failed
               PROVE  /\ \A k \in Candidates(file, query) : Explains(k)
                      /\ \A j, k \in DOMAIN errs : j < k => errs[j][1] < errs[k][1]
    BY DEF ErrorExplainsAll, Explains
  <2>1. Typed /\ answer = Verdict(file, query) /\ i = Len(file)
    BY DEF IInv, AtItsEnd
  <2>2. Usable(file, query) = {}
    BY <2>1 DEF Verdict
  <2>3. \A k \in Candidates(file, query) :
          k \in 1..i /\ Names(file[k], query) /\ ~Accepts(file[k], query)
    BY <2>1, <2>2, UsableAre DEF Good
  <2>4. QED
    BY <2>3 DEF Explained
<1>3. QED
  BY <1>1, <1>2, InitIInv, StepIInv, ExplainedStep, PTL DEF Spec

-----------------------------------------------------------------------------

\* The places of a line, and what a file is parsed to.
Where == [source : Nat \cup {Unnamed}, line : Nat]
ParsedFile == [entries : Seq(Where), skipped : Seq(Where), count : Nat]

\* The places of the lines of some kinds among the first m lines of a file, and among
\* the first m files.
LinesTo(ls, source, m, kinds) ==
    {[source |-> source, line |-> l] : l \in {x \in 1..m : ls[x].kind \in kinds}}

SourceOf(naming, s) == IF naming THEN s ELSE Unnamed
FilesTo(fs, naming, m, kinds) ==
    UNION {LinesTo(fs[s], SourceOf(naming, s), Len(fs[s]), kinds) : s \in 1..m}

\* The first diagnostics, as many as are kept.
Recorded(where, faulty) ==
    /\ Ordered(where) /\ Len(where) <= MaxSkipped /\ Range(where) \subseteq faulty
    /\ Len(where) < MaxSkipped => Range(where) = faulty
    /\ \A v \in Range(where), w \in faulty \ Range(where) : Before(v, w)

Holds(parsedFile, entries, faulty) ==
    /\ Ordered(parsedFile.entries) /\ Range(parsedFile.entries) = entries
    /\ Recorded(parsedFile.skipped, faulty)

-----------------------------------------------------------------------------

this == files[filesDone + 1]

RequestOK ==
    /\ files \in Seq(Seq(Line)) /\ files # <<>>
    /\ named \in BOOLEAN /\ (~named => Len(files) = 1)

ParseOK ==
    /\ filesDone \in Nat /\ linesDone \in Nat /\ copied \in Nat
    /\ current \in ParsedFile /\ parsed \in ParsedFile
    /\ phase # "done" => err = "none" /\ filesDone < Len(files) /\ linesDone <= Len(this)
    /\ phase \in {"append", "skipped"} => named /\ linesDone = Len(this)
    /\ phase = "skipped" => copied <= Len(current.skipped)

\* The lines dealt with are not too long.
FitSoFar ==
    /\ \A s \in 1..filesDone : \A l \in DOMAIN files[s] : files[s][l].size <= MaxLineSize
    /\ phase # "done" => \A l \in 1..linesDone : this[l].size <= MaxLineSize

\* No reader of a file dealt with has failed, and what the first to be in error has.
SoundSoFar ==
    /\ \A s \in 1..filesDone : s \notin broken
    /\ phase \in {"append", "skipped"} => filesDone + 1 \notin broken
    /\ phase = "done" =>
         \/ err = "none" /\ filesDone = Len(files)
         \/ err = "too long" /\ filesDone < Len(files) /\ Long(filesDone + 1)
         \/ /\ err = "read" /\ filesDone < Len(files) /\ filesDone + 1 \in broken
            /\ \A l \in DOMAIN this : this[l].size <= MaxLineSize

\* What the file being parsed has.
CurrentHas ==
    /\ phase = "scan" =>
         Holds(current, LinesTo(this, Unnamed, linesDone, {"entry"}),
               LinesTo(this, Unnamed, linesDone, Faulty))
    /\ phase \in {"append", "skipped"} =>
         Holds(current, LinesTo(this, filesDone + 1, Len(this), {"entry"}),
               LinesTo(this, filesDone + 1, Len(this), Faulty))

\* What all have together.
ParsedHas ==
    IF phase # "skipped"
    THEN Holds(parsed, FilesTo(files, named, filesDone, {"entry"}),
               FilesTo(files, named, filesDone, Faulty))
    ELSE /\ Ordered(parsed.entries)
         /\ Range(parsed.entries) = FilesTo(files, named, filesDone + 1, {"entry"})
         /\ Recorded(parsed.skipped,
                     FilesTo(files, named, filesDone, Faulty)
                       \cup {current.skipped[x] : x \in 1..copied})
         /\ Len(parsed.skipped) < MaxSkipped => copied <= Len(parsed.skipped)

\* The number of diagnostics.
Tally(count, places) == IsFiniteSet(places) /\ count = Cardinality(places)

Tallied ==
    /\ phase # "done" =>
         Tally(current.count, LinesTo(this, SourceOf(named, filesDone + 1), linesDone, Faulty))
    /\ Tally(parsed.count, FilesTo(files, named, filesDone, Faulty))

ParseIInv == RequestOK /\ ParseOK /\ FitSoFar /\ SoundSoFar /\ CurrentHas /\ ParsedHas /\ Tallied

-----------------------------------------------------------------------------

LEMMA InLines ==
    ASSUME NEW ls \in Seq(Line), NEW source, NEW m \in Nat, m < Len(ls), NEW kinds
    PROVE  /\ LinesTo(ls, source, 0, kinds) = {}
           /\ \A v : v \in LinesTo(ls, source, m, kinds)
                <=> \E l \in 1..m : ls[l].kind \in kinds /\ v = [source |-> source, line |-> l]
           /\ LinesTo(ls, source, m + 1, kinds) =
                IF ls[m + 1].kind \in kinds
                THEN LinesTo(ls, source, m, kinds) \cup {[source |-> source, line |-> m + 1]}
                ELSE LinesTo(ls, source, m, kinds)
<1>1. LinesTo(ls, source, 0, kinds) = {}
  BY DEF LinesTo
<1>2. ASSUME NEW q \in Nat, NEW v
      PROVE  v \in LinesTo(ls, source, q, kinds)
               <=> \E l \in 1..q : ls[l].kind \in kinds /\ v = [source |-> source, line |-> l]
  BY DEF LinesTo
<1>3. \A l : l \in 1..(m + 1) <=> l \in 1..m \/ l = m + 1
  OBVIOUS
<1> DEFINE before == LinesTo(ls, source, m, kinds)
           after == LinesTo(ls, source, m + 1, kinds)
           new == [source |-> source, line |-> m + 1]
<1>4. \A v : v \in after <=> v \in before \/ (ls[m + 1].kind \in kinds /\ v = new)
  <2>1. m + 1 \in Nat
    OBVIOUS
  <2>2. QED
    BY <1>2, <1>3, <2>1
<1>5. after = IF ls[m + 1].kind \in kinds THEN before \cup {new} ELSE before
  <2> HIDE DEF before, after, new
  <2>1. QED
    BY <1>4
<1>6. QED
  BY <1>1, <1>2, <1>5

LEMMA InFiles ==
    ASSUME NEW fs \in Seq(Seq(Line)), NEW naming, NEW m \in Nat, m < Len(fs), NEW kinds
    PROVE  /\ FilesTo(fs, naming, 0, kinds) = {}
           /\ FilesTo(fs, naming, m + 1, kinds) =
                FilesTo(fs, naming, m, kinds)
                  \cup LinesTo(fs[m + 1], SourceOf(naming, m + 1), Len(fs[m + 1]), kinds)
<1>1. FilesTo(fs, naming, 0, kinds) = {}
  BY DEF FilesTo
<1> DEFINE Of(s) == LinesTo(fs[s], SourceOf(naming, s), Len(fs[s]), kinds)
<1>2. \A q, v : v \in FilesTo(fs, naming, q, kinds) <=> \E s \in 1..q : v \in Of(s)
  BY DEF FilesTo
<1>3. \A s : s \in 1..(m + 1) <=> s \in 1..m \/ s = m + 1
  OBVIOUS
<1> DEFINE before == FilesTo(fs, naming, m, kinds)
           after == FilesTo(fs, naming, m + 1, kinds)
<1>4. \A v : v \in after <=> v \in before \/ v \in Of(m + 1)
  <2> HIDE DEF Of
  <2>1. QED
    BY <1>2, <1>3
<1>5. after = before \cup Of(m + 1)
  <2> HIDE DEF before, after, Of
  <2>1. QED
    BY <1>4
<1>6. QED
  BY <1>1, <1>5

\* The places of a file, and of the files before another.
LEMMA PlacesAre ==
    ASSUME NEW ls, NEW source, NEW m \in Nat, NEW kinds,
           NEW v \in LinesTo(ls, source, m, kinds)
    PROVE  v.source = source /\ v.line \in 1..m /\ v = [source |-> source, line |-> v.line]
<1>1. PICK l \in 1..m : v = [source |-> source, line |-> l]
  BY DEF LinesTo
<1>2. QED
  BY <1>1

LEMMA FilesBefore ==
    ASSUME NEW fs \in Seq(Seq(Line)), NEW m \in Nat, m <= Len(fs), NEW kinds,
           NEW v \in FilesTo(fs, TRUE, m, kinds)
    PROVE  v.source \in 1..m
<1>1. PICK s \in 1..m : v \in LinesTo(fs[s], SourceOf(TRUE, s), Len(fs[s]), kinds)
  BY DEF FilesTo
<1>2. fs[s] \in Seq(Line) /\ Len(fs[s]) \in Nat /\ SourceOf(TRUE, s) = s
  <2>1. s \in 1..Len(fs)
    OBVIOUS
  <2>2. fs[s] \in Seq(Line)
    BY <2>1
  <2>3. QED
    BY <2>2 DEF SourceOf
<1>3. v \in LinesTo(fs[s], s, Len(fs[s]), kinds)
  BY <1>1, <1>2
<1>4. v.source = s
  BY <1>2, <1>3, PlacesAre
<1>5. QED
  BY <1>4

\* A place after all others.
LEMMA OrderedAppend ==
    ASSUME NEW where \in Seq(Where), NEW w \in Where, Ordered(where),
           \A v \in Range(where) : Before(v, w)
    PROVE  /\ Ordered(Append(where, w)) /\ Append(where, w) \in Seq(Where)
           /\ Range(Append(where, w)) = Range(where) \cup {w}
<1> DEFINE longer == Append(where, w)
<1>1. /\ longer \in Seq(Where) /\ Len(longer) = Len(where) + 1 /\ Len(where) \in Nat
      /\ DOMAIN longer = 1..Len(where) + 1 /\ DOMAIN where = 1..Len(where)
      /\ longer[Len(where) + 1] = w /\ \A x \in 1..Len(where) : longer[x] = where[x]
  OBVIOUS
<1> HIDE DEF longer
<1>2. \A x \in 1..Len(where) : Before(where[x], w)
  BY <1>1 DEF Range
<1>3. Ordered(longer)
  <2> SUFFICES ASSUME NEW x \in 1..Len(where) + 1, NEW y \in 1..Len(where) + 1, x < y
               PROVE  Before(longer[x], longer[y])
    BY <1>1, Zenon DEF Ordered
  <2>1. x \in 1..Len(where) /\ (y \in 1..Len(where) \/ y = Len(where) + 1)
    BY <1>1
  <2>2. CASE y \in 1..Len(where)
    <3>1. Before(where[x], where[y])
      BY <1>1, <2>1, <2>2 DEF Ordered
    <3>2. QED
      BY <1>1, <2>1, <2>2, <3>1
  <2>3. CASE y = Len(where) + 1
    BY <1>1, <1>2, <2>1, <2>3
  <2>4. QED
    BY <2>1, <2>2, <2>3
<1>4. \A x : x \in 1..Len(where) + 1 <=> x \in 1..Len(where) \/ x = Len(where) + 1
  BY <1>1
<1>5. Range(longer) = Range(where) \cup {w}
  BY <1>1, <1>4 DEF Range
<1>6. QED
  BY <1>1, <1>3, <1>5 DEF longer

\* The places of another file after all others.
LEMMA OrderedConcat ==
    ASSUME NEW where \in Seq(Where), NEW more \in Seq(Where), Ordered(where), Ordered(more),
           \A v \in Range(where), w \in Range(more) : Before(v, w)
    PROVE  /\ Ordered(where \o more) /\ where \o more \in Seq(Where)
           /\ Range(where \o more) = Range(where) \cup Range(more)
<1> DEFINE both == where \o more
           p == Len(where)
           q == Len(more)
<1>1. /\ p \in Nat /\ q \in Nat /\ both \in Seq(Where)
      /\ DOMAIN where = 1..p /\ DOMAIN more = 1..q /\ DOMAIN both = 1..(p + q)
      /\ \A x \in 1..p : both[x] = where[x]
      /\ \A x \in 1..q : both[p + x] = more[x]
  OBVIOUS
<1> HIDE DEF both, p, q
<1>2. \A x \in 1..(p + q) : x \notin 1..p => x - p \in 1..q /\ both[x] = more[x - p]
  <2> SUFFICES ASSUME NEW x \in 1..(p + q), x \notin 1..p
               PROVE  x - p \in 1..q /\ both[x] = more[x - p]
    OBVIOUS
  <2>1. x - p \in 1..q /\ p + (x - p) = x
    BY <1>1
  <2>2. QED
    BY <1>1, <2>1
<1>3. Ordered(both)
  <2> SUFFICES ASSUME NEW x \in 1..(p + q), NEW y \in 1..(p + q), x < y
               PROVE  Before(both[x], both[y])
    BY <1>1, Zenon DEF Ordered
  <2>1. CASE x \in 1..p /\ y \in 1..p
    <3>1. Before(where[x], where[y])
      BY <1>1, <2>1 DEF Ordered
    <3>2. QED
      BY <1>1, <2>1, <3>1
  <2>2. CASE x \in 1..p /\ y \notin 1..p
    <3>1. where[x] \in Range(where) /\ more[y - p] \in Range(more)
      BY <1>1, <1>2, <2>2 DEF Range
    <3>2. QED
      BY <1>1, <1>2, <2>2, <3>1
  <2>3. CASE x \notin 1..p
    <3>1. y \notin 1..p /\ x - p < y - p
      BY <1>1, <2>3
    <3>2. Before(more[x - p], more[y - p])
      BY <1>1, <1>2, <2>3, <3>1 DEF Ordered
    <3>3. QED
      BY <1>2, <2>3, <3>1, <3>2
  <2>4. QED
    BY <2>1, <2>2, <2>3
<1>4. \A v : v \in Range(both) <=> v \in Range(where) \/ v \in Range(more)
  <2>1. \A v \in Range(both) : v \in Range(where) \/ v \in Range(more)
    <3>1. ASSUME NEW x \in 1..(p + q)
          PROVE  both[x] \in Range(where) \/ both[x] \in Range(more)
      <4>1. CASE x \in 1..p
        BY <1>1, <4>1 DEF Range
      <4>2. CASE x \notin 1..p
        BY <1>1, <1>2, <4>2 DEF Range
      <4>3. QED
        BY <4>1, <4>2
    <3>2. \A v \in Range(both) : \E x \in 1..(p + q) : v = both[x]
      BY <1>1, Zenon DEF Range
    <3>3. QED
      BY <3>1, <3>2
  <2>2. \A v \in Range(where) : v \in Range(both)
    <3>1. \A x \in 1..p : x \in 1..(p + q)
      BY <1>1
    <3>2. QED
      BY <1>1, <3>1 DEF Range
  <2>3. \A v \in Range(more) : v \in Range(both)
    <3>1. \A x \in 1..q : p + x \in 1..(p + q)
      BY <1>1
    <3>2. QED
      BY <1>1, <3>1 DEF Range
  <2>4. QED
    BY <2>1, <2>2, <2>3
<1>5. Range(both) = Range(where) \cup Range(more)
  BY <1>4
<1>6. QED
  BY <1>1, <1>3, <1>5 DEF both

\* One more diagnostic, which is kept if there is room.
LEMMA RecordedStep ==
    ASSUME NEW where \in Seq(Where), NEW faulty, NEW w \in Where, Recorded(where, faulty),
           w \notin faulty, \A v \in faulty : Before(v, w),
           NEW longer, longer = IF Len(where) < MaxSkipped THEN Append(where, w) ELSE where
    PROVE  Recorded(longer, faulty \cup {w}) /\ longer \in Seq(Where)
<1>1. /\ Ordered(where) /\ Len(where) <= MaxSkipped /\ Range(where) \subseteq faulty
      /\ Len(where) < MaxSkipped => Range(where) = faulty
      /\ \A v \in Range(where), u \in faulty \ Range(where) : Before(v, u)
      /\ Len(where) \in Nat /\ MaxSkipped \in Nat
  BY ParseAssumption DEF Recorded
<1>2. CASE Len(where) < MaxSkipped
  <2>1. longer = Append(where, w) /\ Len(longer) = Len(where) + 1
    BY <1>2
  <2>2. \A v \in Range(where) : Before(v, w)
    BY <1>1
  <2>3. Ordered(longer) /\ longer \in Seq(Where) /\ Range(longer) = faulty \cup {w}
    BY <1>1, <1>2, <2>1, <2>2, OrderedAppend
  <2>4. Len(longer) <= MaxSkipped
    BY <1>1, <1>2, <2>1
  <2>5. QED
    BY <2>3, <2>4 DEF Recorded
<1>3. CASE ~(Len(where) < MaxSkipped)
  <2>1. \A v \in Range(where), u \in (faulty \cup {w}) \ Range(where) : Before(v, u)
    BY <1>1
  <2>2. QED
    BY <1>1, <1>3, <2>1 DEF Recorded
<1>4. QED
  BY <1>2, <1>3

\* The same lines by the name of their file.
RenamedTo(where, source) == [x \in DOMAIN where |-> [where[x] EXCEPT !.source = source]]

LEMMA Renamed ==
    ASSUME NEW where \in Seq(Where), Ordered(where),
           NEW ls, NEW m \in Nat, NEW kinds, Range(where) \subseteq LinesTo(ls, Unnamed, m, kinds),
           NEW source \in Nat
    PROVE  /\ RenamedTo(where, source) \in Seq(Where)
           /\ Len(RenamedTo(where, source)) = Len(where)
           /\ Ordered(RenamedTo(where, source))
           /\ Range(RenamedTo(where, source)) \subseteq LinesTo(ls, source, m, kinds)
           /\ \A l : [source |-> source, line |-> l] \in Range(RenamedTo(where, source))
                      <=> [source |-> Unnamed, line |-> l] \in Range(where)
<1> DEFINE renamed == RenamedTo(where, source)
<1>1. /\ Len(where) \in Nat /\ DOMAIN where = 1..Len(where)
      /\ \A x \in 1..Len(where) : where[x] \in Where
  OBVIOUS
<1>2. \A x \in 1..Len(where) :
        /\ where[x] = [source |-> Unnamed, line |-> where[x].line] /\ where[x].source = Unnamed
        /\ where[x] \in LinesTo(ls, Unnamed, m, kinds)
        /\ where[x].line \in Nat
  <2>1. \A x \in 1..Len(where) : where[x] \in LinesTo(ls, Unnamed, m, kinds)
    BY <1>1 DEF Range
  <2>2. \A x \in 1..Len(where) :
          where[x] = [source |-> Unnamed, line |-> where[x].line] /\ where[x].source = Unnamed
    BY <2>1, PlacesAre
  <2>3. QED
    BY <1>1, <2>1, <2>2 DEF Where
<1>3. \A x \in 1..Len(where) : renamed[x] = [source |-> source, line |-> where[x].line]
  BY <1>1 DEF Where, RenamedTo
<1>4. renamed \in Seq(Where) /\ Len(renamed) = Len(where) /\ DOMAIN renamed = 1..Len(where)
  <2>1. \A x \in 1..Len(where) : [source |-> source, line |-> where[x].line] \in Where
    BY <1>2 DEF Where
  <2>2. DOMAIN renamed = 1..Len(where) /\ \A x \in 1..Len(where) : renamed[x] \in Where
    BY <1>1, <1>3, <2>1 DEF RenamedTo
  <2>3. renamed = [x \in 1..Len(where) |-> renamed[x]]
    BY <1>1, <2>2 DEF RenamedTo
  <2>4. QED
    BY <1>1, <2>2, <2>3
<1> HIDE DEF renamed
<1>5. Ordered(renamed)
  BY <1>1, <1>2, <1>3, <1>4 DEF Ordered, Before
<1>6. Range(renamed) \subseteq LinesTo(ls, source, m, kinds)
  <2>1. ASSUME NEW x \in 1..Len(where)
        PROVE  renamed[x] \in LinesTo(ls, source, m, kinds)
    <3>1. PICK l \in 1..m : ls[l].kind \in kinds /\ where[x] = [source |-> Unnamed, line |-> l]
      BY <1>2 DEF LinesTo
    <3>2. renamed[x] = [source |-> source, line |-> l]
      BY <1>3, <3>1
    <3>3. QED
      BY <3>1, <3>2 DEF LinesTo
  <2>2. QED
    BY <1>4, <2>1 DEF Range
<1>7. ASSUME NEW l
      PROVE  [source |-> source, line |-> l] \in Range(renamed)
               <=> [source |-> Unnamed, line |-> l] \in Range(where)
  <2>1. /\ \A v : v \in Range(renamed) <=> \E x \in 1..Len(where) : v = renamed[x]
        /\ \A v : v \in Range(where) <=> \E x \in 1..Len(where) : v = where[x]
    BY <1>1, <1>4 DEF Range
  <2>2. \A x \in 1..Len(where) :
          [source |-> source, line |-> l] = renamed[x] <=> [source |-> Unnamed, line |-> l] = where[x]
    <3>1. ASSUME NEW x \in 1..Len(where)
          PROVE  [source |-> source, line |-> l] = renamed[x]
                   <=> [source |-> Unnamed, line |-> l] = where[x]
      <4>1. renamed[x] = [source |-> source, line |-> where[x].line]
        BY <1>3
      <4>2. where[x] = [source |-> Unnamed, line |-> where[x].line]
        BY <1>2
      <4>3. [source |-> source, line |-> l] = renamed[x] <=> l = where[x].line
        BY <4>1
      <4>4. [source |-> Unnamed, line |-> l] = where[x] <=> l = where[x].line
        <5> DEFINE c == where[x].line
        <5>1. where[x] = [source |-> Unnamed, line |-> c]
          BY <4>2
        <5> HIDE DEF c
        <5>2. [source |-> Unnamed, line |-> l] = [source |-> Unnamed, line |-> c] <=> l = c
          OBVIOUS
        <5>3. QED
          BY <5>1, <5>2 DEF c
      <4>5. QED
        BY <4>3, <4>4
    <3>2. QED
      BY <3>1
  <2> DEFINE a == [source |-> source, line |-> l]
             b == [source |-> Unnamed, line |-> l]
  <2>3. \A x \in 1..Len(where) : a = renamed[x] <=> b = where[x]
    BY <2>2
  <2> HIDE DEF a, b
  <2>4. a \in Range(renamed) <=> b \in Range(where)
    <3>1. a \in Range(renamed) <=> \E x \in 1..Len(where) : a = renamed[x]
      BY <2>1, Zenon
    <3>2. b \in Range(where) <=> \E x \in 1..Len(where) : b = where[x]
      BY <2>1, Zenon
    <3>3. QED
      BY <2>3, <3>1, <3>2, Zenon
  <2>5. QED
    BY <2>4 DEF a, b
<1>8. QED
  BY <1>4, <1>5, <1>6, <1>7 DEF renamed

LEMMA RecordedRenamed ==
    ASSUME NEW where \in Seq(Where), NEW ls, NEW m \in Nat, NEW kinds, NEW source \in Nat,
           Recorded(where, LinesTo(ls, Unnamed, m, kinds))
    PROVE  Recorded(RenamedTo(where, source), LinesTo(ls, source, m, kinds))
<1> DEFINE renamed == RenamedTo(where, source)
<1> DEFINE old == LinesTo(ls, Unnamed, m, kinds)
           new == LinesTo(ls, source, m, kinds)
<1>1. /\ Ordered(where) /\ Len(where) <= MaxSkipped /\ Range(where) \subseteq old
      /\ Len(where) < MaxSkipped => Range(where) = old
      /\ \A v \in Range(where), w \in old \ Range(where) : Before(v, w)
  BY DEF Recorded
<1>2. /\ Len(renamed) = Len(where) /\ Ordered(renamed) /\ Range(renamed) \subseteq new
      /\ \A l : [source |-> source, line |-> l] \in Range(renamed)
                  <=> [source |-> Unnamed, line |-> l] \in Range(where)
  <2> HIDE DEF old, new
  <2>1. Range(where) \subseteq LinesTo(ls, Unnamed, m, kinds) /\ Ordered(where)
    BY <1>1 DEF old
  <2>2. /\ Len(renamed) = Len(where) /\ Ordered(renamed)
        /\ Range(renamed) \subseteq LinesTo(ls, source, m, kinds)
        /\ \A l : [source |-> source, line |-> l] \in Range(renamed)
                    <=> [source |-> Unnamed, line |-> l] \in Range(where)
    BY <2>1, Renamed, Zenon
  <2>3. QED
    BY <2>2 DEF new
<1>3. ASSUME NEW w \in new
      PROVE  /\ w = [source |-> source, line |-> w.line] /\ w.source = source
             /\ [source |-> Unnamed, line |-> w.line] \in old
  <2>1. PICK l \in 1..m : ls[l].kind \in kinds /\ w = [source |-> source, line |-> l]
    BY DEF LinesTo
  <2>2. [source |-> Unnamed, line |-> l] \in old
    BY <2>1 DEF LinesTo
  <2>3. QED
    BY <2>1, <2>2
<1> HIDE DEF old, new
<1>4. Len(renamed) < MaxSkipped => Range(renamed) = new
  <2>1. ASSUME Len(where) < MaxSkipped, NEW w \in new
        PROVE  w \in Range(renamed)
    <3>1. [source |-> Unnamed, line |-> w.line] \in Range(where)
      BY <1>1, <1>3, <2>1
    <3>2. [source |-> source, line |-> w.line] \in Range(renamed)
      BY <1>2, <3>1
    <3>3. QED
      BY <1>3, <3>2
  <2>2. QED
    BY <1>2, <2>1
<1>5. ASSUME NEW v \in Range(renamed), NEW w \in new \ Range(renamed)
      PROVE  Before(v, w)
  <2> DEFINE old_v == [source |-> Unnamed, line |-> v.line]
             old_w == [source |-> Unnamed, line |-> w.line]
  <2>1. v = [source |-> source, line |-> v.line] /\ v.source = source
    BY <1>2, <1>3
  <2>2. w = [source |-> source, line |-> w.line] /\ w.source = source /\ old_w \in old
    BY <1>3
  <2>3. old_v \in Range(where)
    BY <1>2, <2>1
  <2>4. old_w \notin Range(where)
    BY <1>2, <2>2
  <2>5. Before(old_v, old_w)
    BY <1>1, <2>2, <2>3, <2>4
  <2>6. v.line < w.line
    BY <2>5 DEF Before
  <2>7. QED
    BY <2>1, <2>2, <2>6 DEF Before
<1> HIDE DEF renamed
<1>6. QED
  BY <1>1, <1>2, <1>4, <1>5 DEF Recorded, renamed, new

\* All diagnostics of a file are among those copied, or there was no room for more.
LEMMA RecordedAll ==
    ASSUME NEW where \in Seq(Where), NEW more \in Seq(Where), NEW earlier, NEW own,
           Recorded(more, own), Recorded(where, earlier \cup Range(more)),
           Len(where) < MaxSkipped => Len(more) <= Len(where),
           \A v \in earlier, w \in own : Before(v, w)
    PROVE  Recorded(where, earlier \cup own)
<1>1. /\ Ordered(where) /\ Len(where) <= MaxSkipped /\ Range(where) \subseteq earlier \cup Range(more)
      /\ Len(where) < MaxSkipped => Range(where) = earlier \cup Range(more)
      /\ \A v \in Range(where), w \in (earlier \cup Range(more)) \ Range(where) : Before(v, w)
  BY DEF Recorded
<1>2. /\ Range(more) \subseteq own
      /\ Len(more) < MaxSkipped => Range(more) = own
      /\ \A v \in Range(more), w \in own \ Range(more) : Before(v, w)
  BY DEF Recorded
<1>3. Range(where) \subseteq earlier \cup own
  BY <1>1, <1>2
<1>4. Len(where) < MaxSkipped => Range(where) = earlier \cup own
  <2>1. Len(where) \in Nat /\ Len(more) \in Nat /\ MaxSkipped \in Nat
    BY ParseAssumption
  <2>2. Len(where) < MaxSkipped => Len(more) < MaxSkipped
    BY <2>1
  <2>3. QED
    BY <1>1, <1>2, <2>2
<1>5. ASSUME NEW v \in Range(where), NEW w \in (earlier \cup own) \ Range(where)
      PROVE  Before(v, w)
  <2>1. CASE w \in earlier \cup Range(more)
    BY <1>1, <2>1
  <2>2. CASE w \in own \ Range(more)
    <3>1. v \in earlier \/ v \in Range(more)
      BY <1>1
    <3>2. QED
      BY <1>2, <2>2, <3>1
  <2>3. QED
    BY <2>1, <2>2
<1>6. QED
  BY <1>1, <1>3, <1>4, <1>5 DEF Recorded

-----------------------------------------------------------------------------

\* Nothing is in a new file.
LEMMA EmptyHolds == Holds(Empty, {}, {})
<1>1. Empty.entries = <<>> /\ Empty.skipped = <<>>
  BY DEF Empty
<1>2. /\ Len(<<>>) = 0 /\ DOMAIN <<>> = {} /\ MaxSkipped \in Nat
      /\ Range(<<>>) = {} /\ Ordered(<<>>)
  <2>1. DOMAIN <<>> = {} /\ Len(<<>>) = 0
    OBVIOUS
  <2>2. Range(<<>>) = {} /\ Ordered(<<>>)
    BY <2>1 DEF Range, Ordered
  <2>3. QED
    BY <2>1, <2>2, ParseAssumption
<1>3. QED
  BY <1>1, <1>2 DEF Holds, Recorded

LEMMA InitParseIInv ==
    ASSUME ParseInit
    PROVE  ParseIInv
<1>1. RequestOK
  <2>1. PICK r \in Requests : files = r.files /\ named = r.named
    BY DEF ParseInit
  <2>2. QED
    BY <2>1, ParseAssumption DEF RequestOK, Request
<1>2. /\ filesDone = 0 /\ linesDone = 0 /\ copied = 0
      /\ err = "none" /\ phase = "scan"
  BY DEF ParseInit
<1>12. filesDone + 1 = 1
  BY <1>2
<1>11. current = Empty /\ parsed = Empty
  BY DEF ParseInit
<1>3. Len(files) \in Nat /\ Len(files) > 0 /\ this \in Seq(Line) /\ Len(this) \in Nat
  <2>1. files \in Seq(Seq(Line)) /\ Len(files) \in Nat /\ Len(files) > 0
    BY <1>1 DEF RequestOK
  <2>2. 1 \in 1..Len(files) /\ this = files[1]
    BY <1>12, <2>1 DEF this
  <2>3. this \in Seq(Line)
    BY <2>1, <2>2
  <2>4. QED
    BY <2>1, <2>3
<1>4. Empty \in ParsedFile /\ Empty.entries = <<>> /\ Empty.skipped = <<>> /\ Empty.count = 0
  BY DEF Empty, ParsedFile
<1>5. ParseOK /\ FitSoFar /\ SoundSoFar
  <2>1. ParseOK
    BY <1>2, <1>11, <1>3, <1>4 DEF ParseOK
  <2>2. FitSoFar
    BY <1>2 DEF FitSoFar
  <2>3. SoundSoFar
    BY <1>2 DEF SoundSoFar
  <2>4. QED
    BY <2>1, <2>2, <2>3
<1>6. \A kinds, source : FilesTo(files, named, 0, kinds) = {} /\ LinesTo(this, source, 0, kinds) = {}
  BY DEF FilesTo, LinesTo
<1>7. Holds(Empty, {}, {})
  BY EmptyHolds
<1>8. CurrentHas /\ ParsedHas
  BY <1>2, <1>11, <1>6, <1>7 DEF CurrentHas, ParsedHas
<1>9. Tallied
  <2>1. Tally(0, {})
    BY FS_EmptySet DEF Tally
  <2>2. QED
    BY <1>2, <1>11, <1>4, <1>6, <2>1 DEF Tallied
<1>10. QED
  BY <1>1, <1>5, <1>8, <1>9 DEF ParseIInv

\* The file that is being parsed.
LEMMA ThisFile ==
    ASSUME ParseIInv, phase # "done"
    PROVE  /\ files \in Seq(Seq(Line)) /\ Len(files) \in Nat
           /\ filesDone \in Nat /\ filesDone < Len(files) /\ filesDone + 1 \in 1..Len(files)
           /\ this \in Seq(Line) /\ Len(this) \in Nat /\ this = files[filesDone + 1]
           /\ linesDone \in Nat /\ linesDone <= Len(this) /\ err = "none"
<1>1. /\ files \in Seq(Seq(Line)) /\ filesDone \in Nat /\ filesDone < Len(files)
      /\ linesDone \in Nat /\ linesDone <= Len(this) /\ err = "none"
  BY DEF ParseIInv, RequestOK, ParseOK
<1>2. filesDone + 1 \in 1..Len(files) /\ Len(files) \in Nat
  BY <1>1
<1>3. this \in Seq(Line) /\ this = files[filesDone + 1]
  BY <1>1, <1>2 DEF this
<1>4. QED
  BY <1>1, <1>2, <1>3

\* One line further, if the file being parsed has what the line adds.
LEMMA ScannedStep ==
    ASSUME ParseIInv, Scanned, current' \in ParsedFile,
           Holds(current', LinesTo(this, Unnamed, linesDone + 1, {"entry"}),
                 LinesTo(this, Unnamed, linesDone + 1, Faulty)),
           Tally(current'.count, LinesTo(this, SourceOf(named, filesDone + 1), linesDone + 1, Faulty))
    PROVE  ParseIInv'
<1>1. /\ phase = "scan" /\ linesDone < Len(this) /\ Fits /\ linesDone' = linesDone + 1
      /\ files' = files /\ named' = named /\ broken' = broken /\ filesDone' = filesDone /\ parsed' = parsed
      /\ copied' = copied /\ err' = err /\ phase' = phase /\ this' = this
  BY DEF Scanned, this
<1>2. /\ files \in Seq(Seq(Line)) /\ filesDone \in Nat /\ filesDone < Len(files)
      /\ this \in Seq(Line) /\ Len(this) \in Nat /\ this = files[filesDone + 1]
      /\ linesDone \in Nat /\ err = "none"
  BY <1>1, ThisFile
<1>3. RequestOK'
  BY <1>1 DEF ParseIInv, RequestOK
<1>4. ParseOK'
  BY <1>1, <1>2 DEF ParseIInv, ParseOK
<1>5. FitSoFar'
  <2>1. line = this[linesDone + 1] /\ line \in Line
    BY <1>1, <1>2 DEF line
  <2>2. line.size <= MaxLineSize
    BY <1>1, <2>1, ParseAssumption DEF Fits, Buffer, Line
  <2>3. \A l \in 1..(linesDone + 1) : this[l].size <= MaxLineSize
    <3>1. \A l \in 1..linesDone : this[l].size <= MaxLineSize
      BY <1>1 DEF ParseIInv, FitSoFar
    <3>2. \A l \in 1..(linesDone + 1) : l \in 1..linesDone \/ l = linesDone + 1
      BY <1>2
    <3>3. QED
      BY <2>1, <2>2, <3>1, <3>2
  <2>4. QED
    BY <1>1, <1>2, <2>3 DEF ParseIInv, FitSoFar
<1>10. SoundSoFar'
  BY <1>1 DEF ParseIInv, SoundSoFar
<1>6. CurrentHas'
  BY <1>1 DEF CurrentHas
<1>7. ParsedHas'
  BY <1>1 DEF ParseIInv, ParsedHas
<1>8. Tallied'
  BY <1>1 DEF ParseIInv, Tallied
<1>9. QED
  BY <1>3, <1>4, <1>5, <1>6, <1>7, <1>8, <1>10 DEF ParseIInv

\* What the next line is, and what it adds.
LEMMA NextLine ==
    ASSUME ParseIInv, Scanned, NEW kinds, NEW source
    PROVE  /\ LinesTo(this, source, linesDone + 1, kinds) =
                IF line.kind \in kinds
                THEN LinesTo(this, source, linesDone, kinds)
                       \cup {[source |-> source, line |-> linesDone + 1]}
                ELSE LinesTo(this, source, linesDone, kinds)
           /\ [source |-> source, line |-> linesDone + 1] \notin LinesTo(this, source, linesDone, kinds)
           /\ \A v \in LinesTo(this, source, linesDone, kinds) :
                Before(v, [source |-> source, line |-> linesDone + 1])
<1>1. phase = "scan" /\ linesDone < Len(this) /\ line = this[linesDone + 1]
  BY DEF Scanned, this, line
<1>2. this \in Seq(Line) /\ Len(this) \in Nat /\ linesDone \in Nat
  BY <1>1, ThisFile
<1>3. \A v \in LinesTo(this, source, linesDone, kinds) : v.source = source /\ v.line \in 1..linesDone
  BY <1>2, PlacesAre
<1>4. [source |-> source, line |-> linesDone + 1] \notin LinesTo(this, source, linesDone, kinds)
  <2>1. linesDone + 1 \notin 1..linesDone
    BY <1>2
  <2>2. QED
    BY <1>3, <2>1
<1>5. \A v \in LinesTo(this, source, linesDone, kinds) :
        Before(v, [source |-> source, line |-> linesDone + 1])
  BY <1>2, <1>3 DEF Before
<1>6. QED
  BY <1>1, <1>2, <1>4, <1>5, InLines

LEMMA LineSteps ==
    ASSUME ParseIInv, PassLine \/ SkipLine \/ KeepEntry
    PROVE  ParseIInv'
<1> DEFINE w == [source |-> Unnamed, line |-> linesDone + 1]
           entries == LinesTo(this, Unnamed, linesDone, {"entry"})
           faulty == LinesTo(this, Unnamed, linesDone, Faulty)
           told == LinesTo(this, SourceOf(named, filesDone + 1), linesDone, Faulty)
<1>1. Scanned /\ phase = "scan" /\ linesDone \in Nat
  BY DEF PassLine, SkipLine, KeepEntry, Scanned, ParseIInv, ParseOK
<1>2. /\ current \in ParsedFile /\ Holds(current, entries, faulty) /\ Tally(current.count, told)
      /\ w \in Where
  <2>1. w \in Where
    BY <1>1 DEF Where
  <2>2. QED
    BY <1>1, <2>1 DEF ParseIInv, ParseOK, CurrentHas, Tallied
<1>3. /\ current.entries \in Seq(Where) /\ current.skipped \in Seq(Where) /\ current.count \in Nat
      /\ Ordered(current.entries) /\ Range(current.entries) = entries
      /\ Recorded(current.skipped, faulty)
  BY <1>2 DEF Holds, ParsedFile
<1>4. /\ line.kind \notin {"entry"} => LinesTo(this, Unnamed, linesDone + 1, {"entry"}) = entries
      /\ line.kind \in {"entry"} => LinesTo(this, Unnamed, linesDone + 1, {"entry"}) = entries \cup {w}
      /\ line.kind \notin Faulty => LinesTo(this, Unnamed, linesDone + 1, Faulty) = faulty
      /\ line.kind \in Faulty => LinesTo(this, Unnamed, linesDone + 1, Faulty) = faulty \cup {w}
      /\ w \notin faulty /\ (\A v \in faulty : Before(v, w)) /\ (\A v \in entries : Before(v, w))
  BY <1>1, NextLine
<1>5. /\ line.kind \notin Faulty =>
           LinesTo(this, SourceOf(named, filesDone + 1), linesDone + 1, Faulty) = told
      /\ line.kind \in Faulty =>
           \E u : /\ u \notin told
                  /\ LinesTo(this, SourceOf(named, filesDone + 1), linesDone + 1, Faulty) = told \cup {u}
  BY <1>1, NextLine
<1> HIDE DEF w, entries, faulty, told
<1>6. CASE PassLine
  <2>1. line.kind \notin {"entry"} /\ line.kind \notin Faulty /\ current' = current
    BY <1>6 DEF PassLine, Faulty
  <2>2. QED
    BY <1>1, <1>2, <1>4, <1>5, <2>1, ScannedStep
<1>7. CASE SkipLine
  <2> DEFINE longer == IF Len(current.skipped) < MaxSkipped THEN Append(current.skipped, w)
                       ELSE current.skipped
  <2>1. line.kind \notin {"entry"} /\ line.kind \in Faulty
    BY <1>7 DEF SkipLine, Faulty
  <2>2. /\ current' = [entries |-> current.entries, skipped |-> longer, count |-> current.count + 1]
        /\ current'.count = current.count + 1 /\ current'.skipped = longer
        /\ current'.entries = current.entries
    BY <1>2, <1>7 DEF SkipLine, Skip, ParsedFile, w
  <2>3. Recorded(longer, faulty \cup {w}) /\ longer \in Seq(Where)
    BY <1>2, <1>3, <1>4, RecordedStep
  <2> HIDE DEF longer
  <2>4. current' \in ParsedFile
    BY <1>3, <2>2, <2>3 DEF ParsedFile
  <2>5. Holds(current', entries, faulty \cup {w})
    BY <1>3, <2>2, <2>3 DEF Holds
  <2>6. PICK u : /\ u \notin told
                 /\ LinesTo(this, SourceOf(named, filesDone + 1), linesDone + 1, Faulty) = told \cup {u}
    BY <1>5, <2>1
  <2>7. Tally(current'.count, told \cup {u})
    BY <1>2, <2>2, <2>6, FS_AddElement DEF Tally
  <2>8. QED
    BY <1>1, <1>4, <2>1, <2>4, <2>5, <2>6, <2>7, ScannedStep
<1>8. CASE KeepEntry
  <2>1. line.kind \in {"entry"} /\ line.kind \notin Faulty
    BY <1>8 DEF KeepEntry, Faulty
  <2>2. /\ current' = [current EXCEPT !.entries = Append(current.entries, w)]
        /\ current'.count = current.count /\ current'.skipped = current.skipped
        /\ current'.entries = Append(current.entries, w)
    BY <1>2, <1>8 DEF KeepEntry, ParsedFile, w
  <2>3. /\ Ordered(Append(current.entries, w)) /\ Append(current.entries, w) \in Seq(Where)
        /\ Range(Append(current.entries, w)) = entries \cup {w}
    BY <1>2, <1>3, <1>4, OrderedAppend
  <2>4. current' \in ParsedFile
    BY <1>2, <2>2, <2>3 DEF ParsedFile
  <2>5. Holds(current', entries \cup {w}, faulty)
    BY <1>3, <2>2, <2>3 DEF Holds
  <2>6. QED
    BY <1>1, <1>2, <1>4, <1>5, <2>1, <2>2, <2>4, <2>5, ScannedStep
<1>9. QED
  BY <1>6, <1>7, <1>8

\* A line that does not fit, or a reader that fails.
LEMMA FailSteps ==
    ASSUME ParseIInv, TooLong \/ ReadFails
    PROVE  ParseIInv'
<1>1. /\ phase = "scan" /\ phase' = "done"
      /\ files' = files /\ named' = named /\ broken' = broken
      /\ filesDone' = filesDone /\ linesDone' = linesDone
      /\ current' = current /\ parsed' = parsed /\ copied' = copied
      /\ \/ err' = "read" /\ linesDone = Len(this) /\ filesDone + 1 \in broken
         \/ err' = "too long" /\ linesDone < Len(this) /\ ~Fits
  BY DEF TooLong, ReadFails, AllScanned, ReadFailed, Fail, this
<1>2. /\ files \in Seq(Seq(Line)) /\ filesDone + 1 \in 1..Len(files)
      /\ this \in Seq(Line) /\ Len(this) \in Nat /\ this = files[filesDone + 1]
      /\ linesDone \in Nat /\ filesDone < Len(files)
  BY <1>1, ThisFile
<1>3. linesDone < Len(this) /\ ~Fits => Long(filesDone + 1)
  <2>1. SUFFICES ASSUME linesDone < Len(this), ~Fits
                 PROVE  Long(filesDone + 1)
    OBVIOUS
  <2>2. line = this[linesDone + 1] /\ line \in Line /\ linesDone + 1 \in DOMAIN this
    BY <1>2, <2>1 DEF line
  <2>3. line.size > MaxLineSize
    BY <2>1, <2>2, ParseAssumption DEF Fits, Buffer, Line
  <2>4. QED
    BY <1>2, <2>2, <2>3 DEF Long
<1>4. RequestOK' /\ ParseOK'
  BY <1>1 DEF ParseIInv, RequestOK, ParseOK
<1>5. FitSoFar'
  BY <1>1 DEF ParseIInv, FitSoFar
<1>8. SoundSoFar'
  <2>1. \A s \in 1..filesDone : s \notin broken
    BY DEF ParseIInv, SoundSoFar
  <2>2. (Long(filesDone + 1))' <=> Long(filesDone + 1)
    BY <1>1 DEF Long
  <2>3. linesDone = Len(this) => \A l \in DOMAIN this : this[l].size <= MaxLineSize
    <3>1. linesDone = Len(this) => DOMAIN this = 1..linesDone
      BY <1>2
    <3>2. QED
      BY <1>1, <3>1 DEF ParseIInv, FitSoFar
  <2>4. this' = this
    BY <1>1 DEF this
  <2>5. QED
    BY <1>1, <1>2, <1>3, <2>1, <2>2, <2>3, <2>4 DEF SoundSoFar
<1>6. CurrentHas' /\ ParsedHas' /\ Tallied'
  BY <1>1 DEF ParseIInv, CurrentHas, ParsedHas, Tallied
<1>7. QED
  BY <1>4, <1>5, <1>6, <1>8 DEF ParseIInv

\* What the file being parsed adds to those before.
LEMMA OneMoreFile ==
    ASSUME ParseIInv, phase # "done", NEW kinds
    PROVE  FilesTo(files, named, filesDone + 1, kinds) =
             FilesTo(files, named, filesDone, kinds)
               \cup LinesTo(this, SourceOf(named, filesDone + 1), Len(this), kinds)
<1>1. /\ files \in Seq(Seq(Line)) /\ filesDone \in Nat /\ filesDone < Len(files)
      /\ this = files[filesDone + 1]
  BY ThisFile
<1>2. QED
  BY <1>1, InFiles

\* All lines of a file are dealt with.
LEMMA FileFits ==
    ASSUME ParseIInv, phase # "done", linesDone = Len(this)
    PROVE  \A s \in 1..(filesDone + 1) : \A l \in DOMAIN files[s] : files[s][l].size <= MaxLineSize
<1>1. /\ filesDone \in Nat /\ this \in Seq(Line) /\ this = files[filesDone + 1]
  BY ThisFile
<1>2. \A l \in DOMAIN this : this[l].size <= MaxLineSize
  <2>1. DOMAIN this = 1..linesDone
    BY <1>1
  <2>2. \A l \in 1..linesDone : this[l].size <= MaxLineSize
    BY DEF ParseIInv, FitSoFar
  <2>3. QED
    BY <2>1, <2>2
<1>3. \A s \in 1..(filesDone + 1) : s \in 1..filesDone \/ s = filesDone + 1
  BY <1>1
<1>4. QED
  BY <1>1, <1>2, <1>3 DEF ParseIInv, FitSoFar

\* The single reader is at its end.
LEMMA UnnamedEnds ==
    ASSUME ParseIInv, EndOfFile, ~named
    PROVE  ParseIInv'
<1>1. /\ phase = "scan" /\ phase' = "done" /\ linesDone = Len(this)
      /\ filesDone + 1 \notin broken
      /\ files' = files /\ named' = named /\ broken' = broken
      /\ filesDone' = filesDone + 1 /\ linesDone' = linesDone
      /\ current' = current /\ parsed' = current /\ copied' = copied /\ err' = err
  BY DEF EndOfFile, AllScanned, ReadFailed, this
<1>2. /\ files \in Seq(Seq(Line)) /\ filesDone = 0 /\ Len(files) = 1
      /\ this = files[1] /\ err = "none" /\ named = FALSE /\ linesDone \in Nat
      /\ current \in ParsedFile
  <2>1. /\ files \in Seq(Seq(Line)) /\ filesDone \in Nat /\ filesDone < Len(files)
        /\ this = files[filesDone + 1] /\ err = "none" /\ linesDone \in Nat
    BY <1>1, ThisFile
  <2>2. named = FALSE /\ Len(files) = 1
    BY DEF ParseIInv, RequestOK
  <2>3. filesDone = 0 /\ filesDone + 1 = 1
    BY <2>1, <2>2
  <2>4. QED
    BY <2>1, <2>2, <2>3 DEF ParseIInv, ParseOK
<1>3. \A kinds : FilesTo(files, named, 1, kinds) = LinesTo(this, Unnamed, linesDone, kinds)
  <2>1. ASSUME NEW kinds
        PROVE  FilesTo(files, named, 1, kinds) = LinesTo(files[1], SourceOf(named, 1), Len(files[1]), kinds)
    <3>1. filesDone \in Nat /\ filesDone < Len(files) /\ filesDone + 1 = 1
      BY <1>2
    <3>2. FilesTo(files, named, 0, kinds) = {}
      BY DEF FilesTo
    <3>3. FilesTo(files, named, filesDone + 1, kinds) =
            FilesTo(files, named, filesDone, kinds)
              \cup LinesTo(this, SourceOf(named, filesDone + 1), Len(this), kinds)
      BY <1>1, OneMoreFile
    <3>4. QED
      BY <1>2, <3>1, <3>2, <3>3
  <2>2. SourceOf(named, 1) = Unnamed
    BY <1>2 DEF SourceOf
  <2>3. QED
    BY <1>1, <1>2, <2>1, <2>2
<1>4. RequestOK' /\ ParseOK'
  BY <1>1, <1>2 DEF ParseIInv, RequestOK, ParseOK
<1>5. FitSoFar'
  <2>1. \A s \in 1..(filesDone + 1) : \A l \in DOMAIN files[s] : files[s][l].size <= MaxLineSize
    BY <1>1, FileFits
  <2>2. QED
    BY <1>1, <1>2, <2>1 DEF FitSoFar
<1>11. SoundSoFar'
  BY <1>1, <1>2 DEF SoundSoFar
<1>6. CurrentHas'
  BY <1>1 DEF CurrentHas
<1>7. filesDone' = 1
  BY <1>1, <1>2
<1>8. ParsedHas'
  <2>1. Holds(current, LinesTo(this, Unnamed, linesDone, {"entry"}),
              LinesTo(this, Unnamed, linesDone, Faulty))
    BY <1>1 DEF ParseIInv, CurrentHas
  <2>2. QED
    BY <1>1, <1>3, <1>7, <2>1 DEF ParsedHas
<1>9. Tallied'
  <2>1. Tally(current.count, LinesTo(this, Unnamed, linesDone, Faulty))
    BY <1>1, <1>2 DEF ParseIInv, Tallied, SourceOf
  <2>2. QED
    BY <1>1, <1>3, <1>7, <2>1 DEF Tallied
<1>10. QED
  BY <1>4, <1>5, <1>6, <1>8, <1>9, <1>11 DEF ParseIInv

\* A named reader is at its end, and its places get its name.
LEMMA NamedEnds ==
    ASSUME ParseIInv, EndOfFile, named
    PROVE  ParseIInv'
<1> DEFINE source == filesDone + 1
           own(from, kinds) == LinesTo(this, from, linesDone, kinds)
<1>1. /\ phase = "scan" /\ phase' = "append" /\ linesDone = Len(this)
      /\ filesDone + 1 \notin broken
      /\ files' = files /\ named' = named /\ broken' = broken
      /\ filesDone' = filesDone /\ linesDone' = linesDone
      /\ parsed' = parsed /\ copied' = copied /\ err' = err /\ this' = this
  BY DEF EndOfFile, AllScanned, ReadFailed, this
<1>2. /\ linesDone \in Nat /\ source \in Nat /\ err = "none" /\ filesDone < Len(files)
      /\ current \in ParsedFile /\ linesDone <= Len(this)
  BY <1>1, ThisFile DEF ParseIInv, ParseOK
<1>3. /\ current.entries \in Seq(Where) /\ current.skipped \in Seq(Where) /\ current.count \in Nat
      /\ Ordered(current.entries) /\ Range(current.entries) = own(Unnamed, {"entry"})
      /\ Recorded(current.skipped, own(Unnamed, Faulty))
  BY <1>1, <1>2 DEF ParseIInv, CurrentHas, Holds, ParsedFile
<1>4. /\ current'.entries = RenamedTo(current.entries, source)
      /\ current'.skipped = RenamedTo(current.skipped, source)
      /\ current'.count = current.count
      /\ current' = [entries |-> current'.entries, skipped |-> current'.skipped,
                     count |-> current'.count]
  <2>1. current' = [current EXCEPT !.entries = Name(current.entries), !.skipped = Name(current.skipped)]
    BY <1>2 DEF EndOfFile, ParsedFile
  <2>2. \A where : Name(where) = RenamedTo(where, source)
    BY DEF Name, RenamedTo, Source
  <2>3. QED
    BY <1>2, <2>1, <2>2 DEF ParsedFile
<1>5. /\ current'.entries \in Seq(Where) /\ Ordered(current'.entries)
      /\ Range(current'.entries) = own(source, {"entry"})
  <2>1. /\ current'.entries \in Seq(Where) /\ Ordered(current'.entries)
        /\ Range(current'.entries) \subseteq own(source, {"entry"})
        /\ \A l : [source |-> source, line |-> l] \in Range(current'.entries)
                    <=> [source |-> Unnamed, line |-> l] \in own(Unnamed, {"entry"})
    <3> HIDE DEF source
    <3>1. Range(current.entries) \subseteq LinesTo(this, Unnamed, linesDone, {"entry"})
      BY <1>3
    <3>2. /\ RenamedTo(current.entries, source) \in Seq(Where)
          /\ Ordered(RenamedTo(current.entries, source))
          /\ Range(RenamedTo(current.entries, source)) \subseteq LinesTo(this, source, linesDone, {"entry"})
          /\ \A l : [source |-> source, line |-> l] \in Range(RenamedTo(current.entries, source))
                      <=> [source |-> Unnamed, line |-> l] \in Range(current.entries)
      BY <1>2, <1>3, <3>1, Renamed, Zenon
    <3>3. QED
      BY <1>3, <1>4, <3>2
  <2>2. ASSUME NEW w \in own(source, {"entry"})
        PROVE  w \in Range(current'.entries)
    <3>1. PICK l \in 1..linesDone : this[l].kind \in {"entry"} /\ w = [source |-> source, line |-> l]
      BY DEF LinesTo
    <3>2. [source |-> Unnamed, line |-> l] \in own(Unnamed, {"entry"})
      BY <3>1 DEF LinesTo
    <3>3. QED
      BY <2>1, <3>1, <3>2
  <2>3. QED
    BY <2>1, <2>2
<1>6. Recorded(current'.skipped, own(source, Faulty)) /\ current'.skipped \in Seq(Where)
  <2>1. Ordered(current.skipped) /\ Range(current.skipped) \subseteq own(Unnamed, Faulty)
    BY <1>3 DEF Recorded
  <2>2. current'.skipped \in Seq(Where)
    <3> HIDE DEF source
    <3>1. Range(current.skipped) \subseteq LinesTo(this, Unnamed, linesDone, Faulty)
      BY <2>1
    <3>2. RenamedTo(current.skipped, source) \in Seq(Where)
      BY <1>2, <1>3, <2>1, <3>1, Renamed, Zenon
    <3>3. QED
      BY <1>4, <3>2
  <2>3. Recorded(current'.skipped, own(source, Faulty))
    BY <1>2, <1>3, <1>4, RecordedRenamed
  <2>4. QED
    BY <2>2, <2>3
<1>7. RequestOK'
  BY <1>1 DEF ParseIInv, RequestOK
<1>8. ParseOK'
  <2>1. current' \in ParsedFile
    BY <1>3, <1>4, <1>5, <1>6 DEF ParsedFile
  <2>2. QED
    BY <1>1, <2>1 DEF ParseIInv, ParseOK
<1>9. FitSoFar' /\ SoundSoFar'
  BY <1>1 DEF ParseIInv, FitSoFar, SoundSoFar
<1>10. CurrentHas'
  BY <1>1, <1>5, <1>6 DEF CurrentHas, Holds
<1>11. ParsedHas'
  BY <1>1 DEF ParseIInv, ParsedHas
<1>12. Tallied'
  BY <1>1, <1>4 DEF ParseIInv, Tallied
<1>13. QED
  BY <1>7, <1>8, <1>9, <1>10, <1>11, <1>12 DEF ParseIInv

\* The places before a file and its own.
LEMMA Apart ==
    ASSUME ParseIInv, phase \in {"append", "skipped"}, NEW kinds, NEW others,
           NEW v \in FilesTo(files, named, filesDone, kinds),
           NEW w \in LinesTo(this, filesDone + 1, Len(this), others)
    PROVE  v # w /\ Before(v, w) /\ v.source \in 1..filesDone /\ w.source = filesDone + 1
<1>1. /\ files \in Seq(Seq(Line)) /\ filesDone \in Nat /\ filesDone < Len(files)
      /\ Len(this) \in Nat /\ Len(files) \in Nat
  BY ThisFile
<1>2. named = TRUE
  BY DEF ParseIInv, ParseOK, RequestOK
<1>3. v.source \in 1..filesDone
  <2>1. v \in FilesTo(files, TRUE, filesDone, kinds)
    BY <1>2
  <2>2. filesDone <= Len(files)
    BY <1>1
  <2>3. QED
    BY <1>1, <2>1, <2>2, FilesBefore
<1>4. w.source = filesDone + 1
  BY <1>1, PlacesAre
<1>5. v.source < w.source /\ v.source # w.source
  BY <1>1, <1>3, <1>4
<1>6. QED
  BY <1>3, <1>4, <1>5 DEF Before

LEMMA AppendEntriesStep ==
    ASSUME ParseIInv, AppendEntries
    PROVE  ParseIInv'
<1> DEFINE earlier(kinds) == FilesTo(files, named, filesDone, kinds)
           own(kinds) == LinesTo(this, filesDone + 1, Len(this), kinds)
<1>1. /\ phase = "append" /\ phase' = "skipped" /\ copied' = 0
      /\ parsed' = [parsed EXCEPT !.entries = @ \o current.entries]
      /\ files' = files /\ named' = named /\ broken' = broken
      /\ filesDone' = filesDone /\ linesDone' = linesDone
      /\ current' = current /\ err' = err /\ this' = this
  BY DEF AppendEntries, this
<1>2. /\ filesDone \in Nat /\ current \in ParsedFile /\ parsed \in ParsedFile
      /\ named = TRUE
  BY <1>1 DEF ParseIInv, ParseOK, RequestOK
<1>3. /\ parsed.entries \in Seq(Where) /\ current.entries \in Seq(Where)
      /\ parsed.skipped \in Seq(Where) /\ current.skipped \in Seq(Where)
      /\ Ordered(parsed.entries) /\ Range(parsed.entries) = earlier({"entry"})
      /\ Ordered(current.entries) /\ Range(current.entries) = own({"entry"})
      /\ Recorded(parsed.skipped, earlier(Faulty))
  BY <1>1, <1>2 DEF ParseIInv, CurrentHas, ParsedHas, Holds, ParsedFile
<1>4. /\ parsed'.entries = parsed.entries \o current.entries /\ parsed'.skipped = parsed.skipped
      /\ parsed'.count = parsed.count
      /\ parsed' = [entries |-> parsed'.entries, skipped |-> parsed.skipped, count |-> parsed.count]
  BY <1>1, <1>2 DEF ParsedFile
<1>5. /\ Ordered(parsed'.entries) /\ parsed'.entries \in Seq(Where)
      /\ Range(parsed'.entries) = FilesTo(files, named, filesDone + 1, {"entry"})
  <2>1. \A v \in Range(parsed.entries), w \in Range(current.entries) : Before(v, w)
    BY <1>1, <1>3, Apart
  <2>2. FilesTo(files, named, filesDone + 1, {"entry"}) = earlier({"entry"}) \cup own({"entry"})
    BY <1>1, <1>2, OneMoreFile DEF SourceOf
  <2>3. /\ Ordered(parsed.entries \o current.entries)
        /\ parsed.entries \o current.entries \in Seq(Where)
        /\ Range(parsed.entries \o current.entries) = Range(parsed.entries) \cup Range(current.entries)
    <3> HIDE DEF earlier, own
    <3>1. QED
      BY <1>3, <2>1, OrderedConcat
  <2>4. QED
    BY <1>3, <1>4, <2>2, <2>3
<1>6. RequestOK' /\ FitSoFar' /\ SoundSoFar'
  BY <1>1 DEF ParseIInv, RequestOK, FitSoFar, SoundSoFar
<1>7. ParseOK'
  <2>1. parsed' \in ParsedFile
    BY <1>2, <1>3, <1>4, <1>5 DEF ParsedFile
  <2>2. Len(current.skipped) \in Nat
    BY <1>3
  <2>3. QED
    BY <1>1, <2>1, <2>2 DEF ParseIInv, ParseOK
<1>8. CurrentHas'
  BY <1>1 DEF ParseIInv, CurrentHas
<1>9. ParsedHas'
  <2>1. {current.skipped[x] : x \in 1..copied'} = {}
    BY <1>1
  <2>2. earlier(Faulty) \cup {current.skipped[x] : x \in 1..copied'} = earlier(Faulty)
    BY <2>1
  <2>3. copied' <= Len(parsed'.skipped)
    BY <1>1, <1>3, <1>4
  <2>4. Recorded(parsed'.skipped, FilesTo(files, named, filesDone, Faulty)
                                    \cup {current.skipped[x] : x \in 1..copied'})
    BY <1>3, <1>4, <2>2
  <2>5. QED
    BY <1>1, <1>4, <1>5, <2>3, <2>4 DEF ParsedHas
<1>10. Tallied'
  BY <1>1, <1>4 DEF ParseIInv, Tallied
<1>11. QED
  BY <1>6, <1>7, <1>8, <1>9, <1>10 DEF ParseIInv

LEMMA AppendSkippedStep ==
    ASSUME ParseIInv, AppendSkipped
    PROVE  ParseIInv'
<1> DEFINE earlier == FilesTo(files, named, filesDone, Faulty)
           own == LinesTo(this, filesDone + 1, Len(this), Faulty)
           told == {current.skipped[x] : x \in 1..copied}
           w == current.skipped[copied + 1]
           longer == IF Len(parsed.skipped) < MaxSkipped THEN Append(parsed.skipped, w)
                     ELSE parsed.skipped
<1>1. /\ phase = "skipped" /\ phase' = "skipped" /\ copied' = copied + 1
      /\ copied < Len(current.skipped)
      /\ parsed' = [parsed EXCEPT !.skipped = longer]
      /\ files' = files /\ named' = named /\ broken' = broken
      /\ filesDone' = filesDone /\ linesDone' = linesDone
      /\ current' = current /\ err' = err /\ this' = this
  BY DEF AppendSkipped, this
<1>2. /\ copied \in Nat /\ current \in ParsedFile /\ parsed \in ParsedFile
  BY <1>1 DEF ParseIInv, ParseOK
<1>3. /\ parsed.entries \in Seq(Where) /\ parsed.skipped \in Seq(Where) /\ parsed.count \in Nat
      /\ current.skipped \in Seq(Where)
      /\ Ordered(current.skipped) /\ Range(current.skipped) \subseteq own
      /\ Recorded(parsed.skipped, earlier \cup told)
      /\ Len(parsed.skipped) < MaxSkipped => copied <= Len(parsed.skipped)
  BY <1>1, <1>2 DEF ParseIInv, CurrentHas, ParsedHas, Holds, Recorded, ParsedFile
<1>4. /\ DOMAIN current.skipped = 1..Len(current.skipped) /\ Len(current.skipped) \in Nat
      /\ copied + 1 \in 1..Len(current.skipped)
      /\ \A x \in 1..copied : x \in 1..Len(current.skipped) /\ x < copied + 1
  BY <1>1, <1>2, <1>3
<1>5. w \in Where /\ w \in own /\ told \subseteq own
  BY <1>3, <1>4 DEF Range
<1>6. \A v \in earlier : v # w /\ Before(v, w)
  BY <1>1, <1>5, Apart
<1>7. \A v \in told : v # w /\ Before(v, w)
  <2>1. \A x \in 1..copied : Before(current.skipped[x], w)
    BY <1>3, <1>4 DEF Ordered
  <2>2. ~Before(w, w)
    <3>1. w.line \in Nat
      BY <1>5 DEF Where
    <3>2. QED
      BY <3>1 DEF Before
  <2>3. QED
    BY <2>1, <2>2
<1>8. {current.skipped[x] : x \in 1..(copied + 1)} = told \cup {w}
  <2>1. \A x : x \in 1..(copied + 1) <=> x \in 1..copied \/ x = copied + 1
    BY <1>2
  <2>2. QED
    BY <2>1
<1>9. Recorded(longer, (earlier \cup told) \cup {w}) /\ longer \in Seq(Where)
  <2> HIDE DEF earlier, told, w
  <2>1. w \notin earlier \cup told /\ \A v \in earlier \cup told : Before(v, w)
    BY <1>6, <1>7
  <2>2. QED
    BY <1>3, <1>5, <2>1, RecordedStep
<1>10. Len(longer) < MaxSkipped => copied + 1 <= Len(longer)
  <2>1. CASE Len(parsed.skipped) < MaxSkipped
    <3>1. Len(longer) = Len(parsed.skipped) + 1 /\ Len(parsed.skipped) \in Nat
      BY <1>3, <2>1
    <3>2. QED
      BY <1>2, <1>3, <2>1, <3>1
  <2>2. CASE ~(Len(parsed.skipped) < MaxSkipped)
    BY <2>2
  <2>3. QED
    BY <2>1, <2>2
<1> HIDE DEF earlier, own, told, w, longer
<1>11. /\ parsed'.entries = parsed.entries /\ parsed'.skipped = longer /\ parsed'.count = parsed.count
       /\ parsed' \in ParsedFile
  <2>1. parsed' = [entries |-> parsed.entries, skipped |-> longer, count |-> parsed.count]
    BY <1>1, <1>2 DEF ParsedFile
  <2>2. QED
    BY <1>3, <1>9, <2>1 DEF ParsedFile
<1>12. RequestOK' /\ FitSoFar' /\ SoundSoFar'
  BY <1>1 DEF ParseIInv, RequestOK, FitSoFar, SoundSoFar
<1>13. ParseOK'
  BY <1>1, <1>4, <1>11 DEF ParseIInv, ParseOK
<1>14. CurrentHas'
  BY <1>1 DEF ParseIInv, CurrentHas
<1>15. ParsedHas'
  <2>1. Recorded(longer, earlier \cup {current.skipped[x] : x \in 1..(copied + 1)})
    <3>1. (earlier \cup told) \cup {w} = earlier \cup {current.skipped[x] : x \in 1..(copied + 1)}
      BY <1>8
    <3>2. QED
      BY <1>9, <3>1
  <2>2. /\ Ordered(parsed.entries)
        /\ Range(parsed.entries) = FilesTo(files, named, filesDone + 1, {"entry"})
    BY <1>1 DEF ParseIInv, ParsedHas
  <2>3. QED
    BY <1>1, <1>10, <1>11, <2>1, <2>2 DEF ParsedHas, earlier
<1>16. Tallied'
  BY <1>1, <1>11 DEF ParseIInv, Tallied
<1>17. QED
  BY <1>12, <1>13, <1>14, <1>15, <1>16 DEF ParseIInv

LEMMA AppendCountStep ==
    ASSUME ParseIInv, AppendCount
    PROVE  ParseIInv'
<1> DEFINE earlier == FilesTo(files, named, filesDone, Faulty)
           own == LinesTo(this, filesDone + 1, Len(this), Faulty)
<1>1. /\ phase = "skipped" /\ copied = Len(current.skipped)
      /\ parsed' = [parsed EXCEPT !.count = @ + current.count]
      /\ filesDone' = filesDone + 1 /\ linesDone' = 0 /\ copied' = 0 /\ current' = Empty
      /\ phase' = IF filesDone + 1 = Len(files) THEN "done" ELSE "scan"
      /\ files' = files /\ named' = named /\ broken' = broken /\ err' = err
  BY DEF AppendCount
<1>2. /\ files \in Seq(Seq(Line)) /\ filesDone \in Nat /\ filesDone < Len(files)
      /\ Len(files) \in Nat /\ err = "none" /\ linesDone = Len(this)
      /\ current \in ParsedFile /\ parsed \in ParsedFile /\ named = TRUE
  BY <1>1, ThisFile DEF ParseIInv, ParseOK, RequestOK
<1>3. /\ parsed.entries \in Seq(Where) /\ parsed.skipped \in Seq(Where) /\ parsed.count \in Nat
      /\ current.skipped \in Seq(Where) /\ current.count \in Nat
      /\ Ordered(parsed.entries)
      /\ Range(parsed.entries) = FilesTo(files, named, filesDone + 1, {"entry"})
      /\ Recorded(current.skipped, own)
      /\ Recorded(parsed.skipped, earlier \cup {current.skipped[x] : x \in 1..copied})
      /\ Len(parsed.skipped) < MaxSkipped => copied <= Len(parsed.skipped)
  BY <1>1, <1>2 DEF ParseIInv, CurrentHas, ParsedHas, Holds, ParsedFile
<1>4. FilesTo(files, named, filesDone + 1, Faulty) = earlier \cup own
  BY <1>1, <1>2, OneMoreFile DEF SourceOf
<1>5. Recorded(parsed.skipped, earlier \cup own)
  <2>1. {current.skipped[x] : x \in 1..copied} = Range(current.skipped)
    <3>1. DOMAIN current.skipped = 1..copied
      BY <1>1, <1>3
    <3>2. QED
      BY <3>1, Zenon DEF Range
  <2>2. \A v \in earlier, u \in own : Before(v, u)
    BY <1>1, Apart
  <2>3. Recorded(parsed.skipped, earlier \cup Range(current.skipped))
    BY <1>3, <2>1
  <2> HIDE DEF earlier, own
  <2>4. QED
    BY <1>1, <1>3, <2>2, <2>3, RecordedAll
<1>6. Tally(parsed.count + current.count, earlier \cup own)
  <2>1. Tally(parsed.count, earlier) /\ Tally(current.count, own)
    BY <1>1, <1>2 DEF ParseIInv, Tallied, SourceOf
  <2>2. earlier \cap own = {}
    BY <1>1, Apart
  <2> HIDE DEF earlier, own
  <2>3. Cardinality(earlier \cap own) = 0
    BY <2>2, FS_EmptySet
  <2>4. IsFiniteSet(earlier) /\ IsFiniteSet(own)
    BY <2>1 DEF Tally
  <2>5. /\ IsFiniteSet(earlier \cup own)
        /\ Cardinality(earlier \cup own) = Cardinality(earlier) + Cardinality(own)
             - Cardinality(earlier \cap own)
    BY <2>4, FS_Union
  <2>6. QED
    BY <1>3, <2>1, <2>3, <2>5 DEF Tally
<1> HIDE DEF earlier, own
<1>7. /\ parsed'.entries = parsed.entries /\ parsed'.skipped = parsed.skipped
      /\ parsed'.count = parsed.count + current.count /\ parsed' \in ParsedFile
  <2>1. parsed' = [entries |-> parsed.entries, skipped |-> parsed.skipped,
                   count |-> parsed.count + current.count]
    BY <1>1, <1>2 DEF ParsedFile
  <2>2. parsed.count + current.count \in Nat
    BY <1>3
  <2>3. QED
    BY <1>3, <2>1, <2>2 DEF ParsedFile
<1>8. RequestOK'
  BY <1>1 DEF ParseIInv, RequestOK
<1>9. phase' # "done" => /\ filesDone' < Len(files') /\ this' \in Seq(Line) /\ Len(this') \in Nat
  <2>1. SUFFICES ASSUME filesDone + 1 # Len(files)
                 PROVE  /\ filesDone' < Len(files') /\ this' \in Seq(Line) /\ Len(this') \in Nat
    BY <1>1
  <2>2. filesDone' < Len(files') /\ filesDone' + 1 \in 1..Len(files)
    BY <1>1, <1>2, <2>1
  <2>3. this' = files[filesDone' + 1]
    BY <1>1 DEF this
  <2>4. this' \in Seq(Line)
    BY <1>2, <2>2, <2>3
  <2>5. QED
    BY <2>2, <2>4
<1>10. ParseOK'
  <2>1. Empty \in ParsedFile
    BY DEF Empty, ParsedFile
  <2>2. QED
    BY <1>1, <1>2, <1>7, <1>9, <2>1 DEF ParseOK
<1>11. FitSoFar'
  <2>1. \A s \in 1..(filesDone + 1) : \A l \in DOMAIN files[s] : files[s][l].size <= MaxLineSize
    BY <1>1, <1>2, FileFits
  <2>2. QED
    BY <1>1, <1>2, <2>1 DEF FitSoFar
<1>17. SoundSoFar'
  <2>1. \A s \in 1..(filesDone + 1) : s \in 1..filesDone \/ s = filesDone + 1
    BY <1>2
  <2>2. \A s \in 1..(filesDone + 1) : s \notin broken
    BY <1>1, <2>1 DEF ParseIInv, SoundSoFar
  <2>3. QED
    BY <1>1, <1>2, <2>2 DEF SoundSoFar
<1>12. \A source, kinds : LinesTo(this', source, 0, kinds) = {}
  BY DEF LinesTo
<1>13. CurrentHas'
  <2>1. Holds(Empty, {}, {})
    BY EmptyHolds
  <2>2. QED
    BY <1>1, <1>12, <2>1 DEF CurrentHas
<1>14. ParsedHas'
  BY <1>1, <1>3, <1>4, <1>5, <1>7 DEF ParsedHas, Holds
<1>15. Tallied'
  <2>1. Empty.count = 0 /\ Tally(0, {})
    BY FS_EmptySet DEF Empty, Tally
  <2>2. QED
    BY <1>1, <1>4, <1>6, <1>7, <1>12, <2>1 DEF Tallied
<1>16. QED
  BY <1>8, <1>10, <1>11, <1>13, <1>14, <1>15, <1>17 DEF ParseIInv

LEMMA ParseStutter ==
    ASSUME ParseIInv, UNCHANGED parseVars
    PROVE  ParseIInv'
<1>1. /\ files' = files /\ named' = named /\ broken' = broken
      /\ filesDone' = filesDone /\ linesDone' = linesDone
      /\ current' = current /\ parsed' = parsed /\ copied' = copied /\ err' = err
      /\ phase' = phase /\ this' = this
  BY DEF parseVars, this
<1>2. RequestOK' /\ ParseOK' /\ FitSoFar'
  BY <1>1 DEF ParseIInv, RequestOK, ParseOK, FitSoFar
<1>5. SoundSoFar'
  <2>1. (Long(filesDone + 1))' <=> Long(filesDone + 1)
    BY <1>1 DEF Long
  <2>2. QED
    BY <1>1, <2>1 DEF ParseIInv, SoundSoFar
<1>3. CurrentHas' /\ ParsedHas' /\ Tallied'
  BY <1>1 DEF ParseIInv, CurrentHas, ParsedHas, Tallied
<1>4. QED
  BY <1>2, <1>3, <1>5 DEF ParseIInv

\* SignersParse: what is parsed is at every step what the lines so far add up to.
THEOREM ParseInductive == ParseSpec => []ParseIInv
<1>1. ParseInit => ParseIInv
  BY InitParseIInv
<1>2. ParseIInv /\ [ParseNext]_parseVars => ParseIInv'
  <2> SUFFICES ASSUME ParseIInv, [ParseNext]_parseVars
               PROVE  ParseIInv'
    OBVIOUS
  <2>1. CASE PassLine \/ SkipLine \/ KeepEntry
    BY <2>1, LineSteps
  <2>2. CASE TooLong \/ ReadFails
    BY <2>2, FailSteps
  <2>3. CASE EndOfFile
    <3>1. named \/ ~named
      OBVIOUS
    <3>2. QED
      BY <2>3, <3>1, UnnamedEnds, NamedEnds
  <2>4. CASE AppendEntries
    BY <2>4, AppendEntriesStep
  <2>5. CASE AppendSkipped
    BY <2>5, AppendSkippedStep
  <2>6. CASE AppendCount
    BY <2>6, AppendCountStep
  <2>7. CASE UNCHANGED parseVars
    BY <2>7, ParseStutter
  <2>8. QED
    BY <2>1, <2>2, <2>3, <2>4, <2>5, <2>6, <2>7, Zenon DEF ParseNext
<1>3. QED
  BY <1>1, <1>2, PTL DEF ParseSpec

\* parse.go: several files are parsed "as if g's lines followed f's in one file".
THEOREM ParsedAsOneFile == ParseSpec => []AsOneFile
<1>1. ParseIInv => AsOneFile
  <2> DEFINE faulty == Places(Faulty)
             recorded == Range(parsed.skipped)
  <2> SUFFICES ASSUME ParseIInv, phase = "done", err = "none"
               PROVE  /\ Ordered(parsed.entries) /\ Range(parsed.entries) = Places({"entry"})
                      /\ parsed.count = Cardinality(faulty)
                      /\ Ordered(parsed.skipped) /\ Len(parsed.skipped) <= MaxSkipped
                      /\ IF Len(parsed.skipped) < MaxSkipped THEN recorded = faulty
                         ELSE /\ recorded \subseteq faulty
                              /\ \A v \in recorded, w \in faulty \ recorded : Before(v, w)
    BY Zenon DEF AsOneFile
  <2>1. files \in Seq(Seq(Line)) /\ filesDone = Len(files)
    BY DEF ParseIInv, RequestOK, SoundSoFar
  <2>2. ASSUME NEW kinds
        PROVE  FilesTo(files, named, filesDone, kinds) = Places(kinds)
    <3>1. DOMAIN files = 1..Len(files) /\ \A s \in 1..Len(files) : DOMAIN files[s] = 1..Len(files[s])
      BY <2>1
    <3>2. \A v : v \in FilesTo(files, named, filesDone, kinds)
                   <=> \E s \in 1..Len(files) :
                         v \in LinesTo(files[s], SourceOf(named, s), Len(files[s]), kinds)
      BY <2>1 DEF FilesTo
    <3>3. \A v : v \in Places(kinds)
                   <=> \E s \in 1..Len(files) :
                         v \in LinesTo(files[s], SourceOf(named, s), Len(files[s]), kinds)
      BY <3>1 DEF Places, LinesTo, SourceOf
    <3>4. QED
      BY <3>2, <3>3
  <2>3. Holds(parsed, Places({"entry"}), faulty) /\ Tally(parsed.count, faulty)
    BY <2>2 DEF ParseIInv, ParsedHas, Tallied
  <2> HIDE DEF faulty
  <2>4. QED
    BY <2>3 DEF Holds, Recorded, Tally
<1>2. QED
  BY <1>1, ParseInductive, PTL

\* parse.go: whatever the files are and whichever readers fail, an error is returned exactly
\* when a line does not fit the buffer or a reader fails, and it is the one of the first file
\* of which this is so.
THEOREM ParsedInFull == ParseSpec => []NothingInPart
<1>1. ParseIInv => NothingInPart
  <2> SUFFICES ASSUME ParseIInv, phase = "done"
               PROVE  /\ (\A s \in DOMAIN files : ~Breaks(s)) => err = "none"
                      /\ \A s \in DOMAIN files :
                           Breaks(s) /\ (\A t \in 1..s - 1 : ~Breaks(t)) =>
                               err = IF Long(s) THEN "too long" ELSE "read"
    BY Zenon DEF NothingInPart
  <2>1. /\ files \in Seq(Seq(Line)) /\ MaxLineSize \in Nat /\ filesDone \in Nat /\ Len(files) \in Nat
        /\ DOMAIN files = 1..Len(files)
    BY ParseAssumption DEF ParseIInv, RequestOK, ParseOK
  <2>2. ASSUME NEW s \in DOMAIN files
        PROVE  (\A l \in DOMAIN files[s] : files[s][l].size <= MaxLineSize) => ~Long(s)
    <3>1. files[s] \in Seq(Line)
      BY <2>1, <2>2
    <3>2. \A l \in DOMAIN files[s] : files[s][l].size \in Nat
      <4>1. \A l \in DOMAIN files[s] : files[s][l] \in Line
        BY <3>1
      <4>2. \A x \in Line : x.size \in Nat
        BY DEF Line
      <4>3. QED
        BY <4>1, <4>2, Zenon
    <3>3. \A l \in DOMAIN files[s] : files[s][l].size <= MaxLineSize => ~(files[s][l].size > MaxLineSize)
      BY <2>1, <3>2
    <3>4. QED
      BY <3>3, Zenon DEF Long
  <2>3. \A s \in DOMAIN files : s \in 1..filesDone => ~Breaks(s)
    BY <2>2 DEF ParseIInv, FitSoFar, SoundSoFar, Breaks
  <2>4. CASE err = "none" /\ filesDone = Len(files)
    BY <2>1, <2>3, <2>4
  <2>5. ASSUME filesDone < Len(files), Breaks(filesDone + 1),
               err = IF Long(filesDone + 1) THEN "too long" ELSE "read"
        PROVE  /\ (\A s \in DOMAIN files : ~Breaks(s)) => err = "none"
               /\ \A s \in DOMAIN files :
                    Breaks(s) /\ (\A t \in 1..s - 1 : ~Breaks(t)) =>
                        err = IF Long(s) THEN "too long" ELSE "read"
    <3>1. filesDone + 1 \in 1..Len(files) /\ filesDone + 1 \in DOMAIN files
      <4>1. filesDone < Len(files)
        BY <2>5, Zenon
      <4>2. filesDone + 1 \in 1..Len(files)
        BY <2>1, <4>1
      <4>3. QED
        BY <2>1, <4>2, Zenon
    <3>2. ASSUME NEW s \in DOMAIN files, Breaks(s), \A t \in 1..s - 1 : ~Breaks(t)
          PROVE  s = filesDone + 1
      <4>1. s \notin 1..filesDone
        BY <2>3, <3>2
      <4>2. filesDone + 1 \notin 1..s - 1
        BY <2>5, <3>2
      <4>3. QED
        BY <2>1, <4>1, <4>2
    <3>3. QED
      BY <2>5, <3>1, <3>2
  <2>6. CASE err = "too long" /\ filesDone < Len(files) /\ Long(filesDone + 1)
    BY <2>5, <2>6 DEF Breaks
  <2>7. CASE /\ err = "read" /\ filesDone < Len(files) /\ filesDone + 1 \in broken
             /\ \A l \in DOMAIN this : this[l].size <= MaxLineSize
    <3>1. filesDone + 1 \in DOMAIN files
      BY <2>1, <2>7
    <3>2. ~Long(filesDone + 1)
      BY <2>2, <2>7, <3>1, Zenon DEF this
    <3>3. QED
      BY <2>5, <2>7, <3>2 DEF Breaks
  <2>8. QED
    BY <2>4, <2>6, <2>7 DEF ParseIInv, SoundSoFar
<1>2. QED
  BY <1>1, ParseInductive, PTL
=============================================================================
