-------------------------- MODULE VerifyFlowProofs --------------------------
(***************************************************************************)
(* Verify accepts exactly the signatures it is documented to accept, for   *)
(* every file, option, certificate and clock.  The checks are run one      *)
(* after the other and their errors collected, so the invariant says stage *)
(* by stage what the errors collected so far stand for: Settled is the     *)
(* designation, Vouched the authentication and Fits the certificate.       *)
(***************************************************************************)
EXTENDS VerifyFlow, WellFoundedInduction, TLAPS

Fits == CertificateValidAt(CertOf[sig.key], timestamp)
Vouched == answer.entry # 0

\* A designation failure that is reported as such, and one left to authentication.
Misdesignated ==
    \/ Inferred /\ Vouched /\ ~answer.restricted
    \/ Explicit /\ opts.namespace # sig.ns
RefusedElsewhere ==
    \/ Inferred /\ ~Vouched
    \/ Explicit /\ opts.namespace = sig.ns /\ answer.checked /\ ~answer.permitted

Designated == designation # ""

AtOneInstant ==
    /\ started <= clock
    /\ timestamp # NoTime =>
         /\ opts.time = NoTime => started <= timestamp /\ timestamp <= clock
         /\ opts.time # NoTime => timestamp = opts.time
    /\ pc \notin {"options", "done"} \/ designation # "" => timestamp # NoTime

\* The entries parsed are those of the files parsed, all of them once a signer is
\* matched.
FromFirst(files, n) == UNION {Range(files[s]) : s \in 1..n}
Matching == {"match", "designation", "authentication", "certificate", "verify"}

Gathered ==
    /\ Range(parsed) = FromFirst(sources, j)
    /\ pc \in Matching \/ Designated => j = Len(sources)

Answered ==
    pc \in {"designation", "authentication", "certificate", "verify"} \/ designation # "" =>
        answer = Verdict(parsed, SignerQuery)

DesignationSettled ==
    /\ pc \in {"options", "parse", "match", "designation"} => designation = ""
    /\ pc \in {"authentication", "certificate", "verify"} \/ result => designation # ""
    /\ designation # "" =>
         /\ designation = "invalid" <=> Misdesignated \/ RefusedElsewhere
         /\ designation = "disabled" <=> opts.noNamespace

AuthenticationSettled ==
    /\ pc = "certificate" =>
         authentication # "" /\ (authentication = "invalid" <=> ~Vouched)
    /\ pc = "verify" \/ result =>
         authentication # "" /\ (authentication = "invalid" <=> ~(Vouched /\ Fits))

ErrorsCollected ==
    /\ pc \in {"options", "parse", "match", "designation"} => errs = <<>>
    /\ pc = "authentication" => (errs = <<>> <=> ~Misdesignated)
    /\ pc = "certificate" => (errs = <<>> <=> ~Misdesignated /\ Vouched)
    /\ pc = "verify" => (errs = <<>> <=> ~Misdesignated /\ Vouched /\ Fits)
    /\ result => (errs = <<>> <=> ~Misdesignated /\ Vouched /\ Fits /\ outcome = "ok")
    /\ pc = "done" /\ ~result => errs # <<>>

DataVerified ==
    /\ pc # "done" => ~result /\ outcome = ""
    /\ result => outcome \in {"ok", "bad"} /\ verification = IF outcome = "ok" THEN "valid" ELSE "invalid"
    /\ ~result => outcome \notin {"ok", "bad"}

Settled ==
    /\ Answered
    /\ DesignationSettled
    /\ AuthenticationSettled
    /\ ErrorsCollected
    /\ DataVerified

IInv == TypeOK /\ AtOneInstant /\ Gathered /\ Settled

-----------------------------------------------------------------------------

\* Every nonempty set of naturals has a least element.
LEMMA Least ==
    ASSUME NEW S \in SUBSET Nat, S # {}
    PROVE  \E k \in S : \A j_1 \in S : k <= j_1
<1>1. PICK k \in S : \A i \in S : ~ (<<i, k>> \in OpToRel(<, Nat))
  BY WFMin, NatLessThanWellFounded, Zenon
<1>2. \A i \in S : ~(i < k)
  BY <1>1 DEF OpToRel
<1>3. QED
  BY <1>2

\* What the rest of Verify needs to know of the answer of the search.
LEMMA VerdictFacts ==
    ASSUME NEW f \in Seq(Entry), NEW q \in Query, NEW a, a = Verdict(f, q)
    PROVE  /\ a \in Verdicts
           /\ a.entry # 0 <=> Usable(f, q) # {}
           /\ a.entry # 0 => a.entry \in Preferred(f, q)
           /\ a.restricted <=> a.entry # 0 /\ Restricts(f[a.entry], q)
           /\ a.failed <=> Candidates(f, q) # {} /\ Usable(f, q) = {}
           /\ a.permitted <=> a.failed /\ \E k \in Candidates(f, q) : Permits(f[k], q)
           /\ a.checked <=> \/ a.permitted
                            \/ a.failed /\ \A k \in Candidates(f, q) : Refuses(f[k], q)
<1> DEFINE U == Usable(f, q)
           P == Preferred(f, q)
<1>1. U \subseteq Nat \ {0} /\ P \subseteq U
  BY DEF Usable, Candidates, Preferred
<1>2. U # {} => P # {}
  BY DEF Preferred
<1>3. P # {} => First(P) \in P
  BY <1>1, Least DEF First
<1>4. /\ a.entry = IF U = {} THEN 0 ELSE First(P)
      /\ a.failed = (Candidates(f, q) # {} /\ U = {})
      /\ a.restricted = (a.entry # 0 /\ Restricts(f[a.entry], q))
      /\ a.permitted = (a.failed /\ \E k \in Candidates(f, q) : Permits(f[k], q))
      /\ a.checked = (a.permitted \/ (a.failed /\ \A k \in Candidates(f, q) : Refuses(f[k], q)))
  BY DEF Verdict
<1> HIDE DEF U, P
<1>5. a.entry \in Nat /\ (a.entry # 0 <=> U # {}) /\ (a.entry # 0 => a.entry \in P)
  <2> DEFINE p == First(P)
             e == a.entry
  <2>1. P # {} => p \in P
    BY <1>3
  <2>2. e = IF U = {} THEN 0 ELSE p
    BY <1>4
  <2> HIDE DEF p, e
  <2>3. e \in Nat /\ (e # 0 <=> U # {}) /\ (e # 0 => e \in P)
    BY <1>1, <1>2, <2>1, <2>2
  <2>4. QED
    BY <2>3 DEF e
<1>6. a \in Verdicts
  <2>1. a = [entry |-> a.entry, restricted |-> a.restricted, failed |-> a.failed,
             checked |-> a.checked, permitted |-> a.permitted]
    BY DEF Verdict
  <2>2. a.restricted \in BOOLEAN /\ a.failed \in BOOLEAN /\ a.checked \in BOOLEAN
          /\ a.permitted \in BOOLEAN
    BY <1>4
  <2>3. QED
    BY <1>5, <2>1, <2>2 DEF Verdicts
<1>7. QED
  BY <1>4, <1>5, <1>6 DEF U, P

\* The entry that the answer names is one of the file, and usable.
LEMMA EntryFacts ==
    ASSUME NEW f \in Seq(Entry), NEW q \in Query, Verdict(f, q).entry # 0
    PROVE  LET e == Verdict(f, q).entry
           IN  e \in DOMAIN f /\ f[e] \in Entry /\ e \in Usable(f, q)
<1> DEFINE e == Verdict(f, q).entry
<1>1. e \in Preferred(f, q)
  BY VerdictFacts
<1>2. e \in Usable(f, q)
  BY <1>1 DEF Preferred
<1>3. QED
  BY <1>2 DEF Usable, Candidates

LEMMA QueryTyped ==
    ASSUME TypeOK, timestamp # NoTime
    PROVE  SignerQuery \in Query
<1>1. sig.key \in Key /\ sig.ns \in Namespace
  BY DEF TypeOK, Signature
<1>2. opts.principal \in Principal \cup {AnyPrincipal}
  BY DEF TypeOK, Options
<1>3. timestamp \in Time
  BY DEF TypeOK
<1>4. QED
  BY <1>1, <1>2, <1>3 DEF SignerQuery, Query, Mode

-----------------------------------------------------------------------------

\* Types are kept by every step; the identity is that of an entry of the file.
LEMMA Typing ==
    ASSUME IInv, [Next]_vars
    PROVE  TypeOK'
<1> USE DEF IInv, request, statuses
<1>0. \A check \in Checks : Append(errs, check) \in Seq(Checks)
  <2>1. errs \in Seq(Checks)
    BY DEF TypeOK
  <2>2. QED
    BY <2>1
<1>a. {"options", "parse", "signature", "read"} \subseteq Checks
        /\ {"designation", "authentication", "certificate", "verification"} \subseteq Checks
  BY DEF Checks
<1>1. CASE Tick
  BY <1>1 DEF Tick, TypeOK
<1>2. CASE RejectOptions
  BY <1>0, <1>a, <1>2 DEF RejectOptions, Fail, TypeOK
<1>3. CASE AcceptOptions
  <2>1. timestamp' \in Time \cup {NoTime}
    BY <1>3 DEF AcceptOptions, TypeOK, Options
  <2>2. QED
    BY <1>3, <2>1 DEF AcceptOptions, TypeOK
<1>4. CASE ParseSource
  <2>1. j \in 0..Len(sources) /\ j < Len(sources) /\ sources \in Seq(Seq(Entry))
    BY <1>4 DEF ParseSource, TypeOK
  <2>2. j + 1 \in 0..Len(sources) /\ sources[j + 1] \in Seq(Entry)
    BY <2>1
  <2>3. parsed \o sources[j + 1] \in Seq(Entry)
    <3>1. parsed \in Seq(Entry)
      BY DEF TypeOK
    <3>2. QED
      BY <2>2, <3>1
  <2>4. QED
    BY <1>4, <2>2, <2>3 DEF ParseSource, TypeOK
<1>5. CASE ParseFails \/ SignatureReadFails
  BY <1>0, <1>a, <1>5 DEF ParseFails, SignatureReadFails, Fail, TypeOK
<1>6. CASE SignatureRead
  BY <1>6 DEF SignatureRead, TypeOK
<1>7. CASE MatchSigner
  <2>1. SignerQuery \in Query /\ parsed \in Seq(Entry)
    BY <1>7, QueryTyped DEF MatchSigner, AtOneInstant, TypeOK
  <2>2. Verdict(parsed, SignerQuery) \in Verdicts
    BY <2>1, VerdictFacts
  <2>3. QED
    BY <1>7, <2>2 DEF MatchSigner, TypeOK
<1>8. CASE ResolveDesignation
  <2>1. designation' \in Status /\ errs' \in Seq(Checks)
    BY <1>0, <1>a, <1>8 DEF ResolveDesignation, Designate, TypeOK, Status
  <2>2. QED
    BY <1>8, <2>1 DEF ResolveDesignation, Designate, TypeOK
<1>9. CASE ResolveAuthentication
  <2>1. Requested \subseteq Principal
    BY DEF Requested, TypeOK, Options
  <2>2. ASSUME answer.entry # 0
        PROVE  parsed[answer.entry].principals \subseteq Principal
    <3>1. SignerQuery \in Query /\ parsed \in Seq(Entry) /\ answer = Verdict(parsed, SignerQuery)
      BY <1>9, QueryTyped
      DEF ResolveAuthentication, Authenticate, AtOneInstant, Settled, Answered, TypeOK
    <3>2. parsed[answer.entry] \in Entry
      BY <2>2, <3>1, EntryFacts
    <3>3. QED
      BY <3>2 DEF Entry
  <2>3. authentication' \in Status /\ errs' \in Seq(Checks) /\ identity' \subseteq Principal
    BY <1>0, <1>a, <1>9, <2>1, <2>2 DEF ResolveAuthentication, Authenticate, TypeOK, Status
  <2>4. QED
    BY <1>9, <2>3 DEF ResolveAuthentication, Authenticate, TypeOK
<1>10. CASE CheckCertificate
  <2>1. authentication' \in Status /\ errs' \in Seq(Checks)
    BY <1>0, <1>a, <1>10 DEF CheckCertificate, TypeOK, Status
  <2>2. QED
    BY <1>10, <2>1 DEF CheckCertificate, TypeOK
<1>11. CASE VerifyOK \/ VerifyBad \/ VerifyReadFails
  <2>1. errs' \in Seq(Checks) /\ verification' \in Status
    BY <1>0, <1>a, <1>11
    DEF VerifyOK, VerifyBad, VerifyReadFails, Verified, Fail, TypeOK, Status
  <2>2. QED
    BY <1>11, <2>1 DEF VerifyOK, VerifyBad, VerifyReadFails, Verified, Fail, TypeOK
<1>12. CASE UNCHANGED vars
  BY <1>12 DEF vars, TypeOK
<1>13. QED
  BY <1>1, <1>2, <1>3, <1>4, <1>5, <1>6, <1>7, <1>8, <1>9, <1>10, <1>11, <1>12 DEF Next

\* The clock goes on, but the instant that was chosen stays.
LEMMA InstantKept ==
    ASSUME IInv, [Next]_vars
    PROVE  AtOneInstant'
<1> USE DEF IInv, request, statuses
<1>1. /\ Time \subseteq Int /\ NoTime \notin Time
      /\ clock \in Time /\ started \in Time /\ started <= clock
      /\ opts.time \in Time \cup {NoTime}
  BY PolicyAssumption, FlowAssumption DEF TypeOK, Options, AtOneInstant
<1>2. CASE Tick
  <2>1. /\ clock' = clock + 1 /\ clock \in Int /\ started \in Int
        /\ UNCHANGED <<opts, started, timestamp, designation, pc>>
    BY <1>1, <1>2 DEF Tick
  <2>2. timestamp # NoTime => timestamp \in Int
    BY <1>1 DEF TypeOK
  <2>3. started' <= clock'
    BY <1>1, <2>1
  <2>4. timestamp # NoTime /\ opts.time = NoTime => timestamp <= clock + 1
    <3> SUFFICES ASSUME timestamp # NoTime, opts.time = NoTime PROVE timestamp <= clock + 1
      OBVIOUS
    <3>1. timestamp <= clock
      BY DEF AtOneInstant
    <3>2. timestamp \in Int /\ clock \in Int
      BY <2>1, <2>2
    <3>3. QED
      BY <3>1, <3>2
  <2>5. QED
    BY <2>1, <2>3, <2>4 DEF AtOneInstant
<1>3. CASE AcceptOptions
  <2>1. /\ UNCHANGED <<opts, started, clock, designation>>
        /\ timestamp' = IF opts.time = NoTime THEN clock ELSE opts.time
    BY <1>3 DEF AcceptOptions
  <2>2. clock <= clock /\ timestamp' # NoTime
    BY <1>1, <2>1
  <2>3. QED
    BY <1>1, <2>1, <2>2 DEF AtOneInstant
<1>4. CASE /\ UNCHANGED <<request, clock, timestamp, designation>>
           /\ pc' \notin {"options", "done"} => pc \notin {"options", "done"}
  BY <1>4 DEF AtOneInstant
<1>5. CASE ResolveDesignation
  BY <1>5 DEF ResolveDesignation, Designate, AtOneInstant
<1>6. QED
  BY <1>2, <1>3, <1>4, <1>5
  DEF Next, vars, RejectOptions, ParseSource, ParseFails, SignatureReadFails, SignatureRead,
      MatchSigner, ResolveAuthentication, Authenticate, CheckCertificate, VerifyOK, VerifyBad,
      VerifyReadFails, Verified, Fail

\* A file appended to those before it adds its entries and keeps theirs.
LEMMA Concatenated ==
    ASSUME NEW S, NEW f \in Seq(S), NEW g \in Seq(S)
    PROVE  Range(f \o g) = Range(f) \cup Range(g)
<1> DEFINE h == f \o g
<1>1. /\ Len(f) \in Nat /\ Len(g) \in Nat
      /\ DOMAIN f = 1..Len(f) /\ DOMAIN g = 1..Len(g)
      /\ DOMAIN h = 1..(Len(f) + Len(g))
  OBVIOUS
<1>2. \A k \in DOMAIN h : h[k] = IF k <= Len(f) THEN f[k] ELSE g[k - Len(f)]
  OBVIOUS
<1> HIDE DEF h
<1>3. ASSUME NEW k \in DOMAIN h
      PROVE  h[k] \in Range(f) \cup Range(g)
  <2>1. CASE k <= Len(f)
    BY <1>1, <1>2, <2>1 DEF Range
  <2>2. CASE ~(k <= Len(f))
    <3>1. k - Len(f) \in DOMAIN g /\ h[k] = g[k - Len(f)]
      BY <1>1, <1>2, <2>2
    <3>2. QED
      BY <3>1 DEF Range
  <2>3. QED
    BY <2>1, <2>2
<1>4. ASSUME NEW k \in DOMAIN f
      PROVE  k \in DOMAIN h /\ h[k] = f[k]
  BY <1>1, <1>2
<1>5. ASSUME NEW k \in DOMAIN g
      PROVE  k + Len(f) \in DOMAIN h /\ h[k + Len(f)] = g[k]
  <2>1. k + Len(f) \in DOMAIN h /\ ~(k + Len(f) <= Len(f)) /\ (k + Len(f)) - Len(f) = k
    BY <1>1
  <2>2. QED
    BY <1>2, <2>1
<1>6. Range(h) = Range(f) \cup Range(g)
  BY <1>3, <1>4, <1>5 DEF Range
<1>7. QED
  BY <1>6 DEF h

\* No entry of a file is lost, whatever file it is in.
LEMMA Gathering ==
    ASSUME IInv, [Next]_vars
    PROVE  Gathered'
<1> USE DEF IInv, request, statuses
<1>1. CASE /\ UNCHANGED <<sources, parsed, j, designation>>
           /\ pc' \in Matching => pc \in Matching
  BY <1>1 DEF Gathered, Designated
<1>2. CASE ParseSource
  <2>1. /\ j < Len(sources) /\ j' = j + 1 /\ parsed' = parsed \o sources[j + 1]
        /\ UNCHANGED <<sources, pc, designation>>
    BY <1>2 DEF ParseSource
  <2>2. pc \notin Matching /\ ~Designated
    BY <1>2 DEF ParseSource, Settled, DesignationSettled, Matching, Designated
  <2>3. j \in 0..Len(sources) /\ sources \in Seq(Seq(Entry)) /\ parsed \in Seq(Entry)
    BY DEF TypeOK
  <2>4. j \in Nat /\ sources[j + 1] \in Seq(Entry)
    BY <2>1, <2>3
  <2>5. Range(parsed') = Range(parsed) \cup Range(sources[j + 1])
    BY <2>1, <2>3, <2>4, Concatenated
  <2>6. 1..j' = (1..j) \cup {j + 1}
    BY <2>1, <2>4
  <2>7. FromFirst(sources, j') = FromFirst(sources, j) \cup Range(sources[j + 1])
    BY <2>6 DEF FromFirst
  <2>8. Range(parsed)' = FromFirst(sources, j)'
    BY <2>1, <2>5, <2>7 DEF Gathered
  <2>9. QED
    BY <2>1, <2>2, <2>8 DEF Gathered, Designated
<1>3. CASE SignatureRead
  <2>1. j >= Len(sources) /\ UNCHANGED <<sources, parsed, j>>
    BY <1>3 DEF SignatureRead
  <2>2. j \in 0..Len(sources) /\ Len(sources) \in Nat
    <3>1. j \in 0..Len(sources) /\ sources \in Seq(Seq(Entry))
      BY DEF TypeOK
    <3>2. QED
      BY <3>1
  <2>3. j = Len(sources)
    BY <2>1, <2>2
  <2>4. QED
    BY <2>1, <2>3 DEF Gathered
<1>4. CASE ResolveDesignation
  <2>1. UNCHANGED <<sources, parsed, j>> /\ pc \in Matching
    BY <1>4 DEF ResolveDesignation, Designate, Matching
  <2>2. QED
    BY <2>1 DEF Gathered
<1>5. QED
  BY <1>1, <1>2, <1>3, <1>4
  DEF Next, vars, Tick, RejectOptions, AcceptOptions, ParseFails, SignatureReadFails, MatchSigner,
      ResolveAuthentication, Authenticate, CheckCertificate, VerifyOK, VerifyBad, VerifyReadFails,
      Verified, Fail, Matching

\* What has been settled of the signer stays as it is while nothing it depends on
\* changes.
LEMMA Unmoved ==
    ASSUME UNCHANGED <<opts, sig, timestamp, parsed, answer>>
    PROVE  /\ SignerQuery' = SignerQuery
           /\ Verdict(parsed, SignerQuery)' = Verdict(parsed, SignerQuery)
           /\ Misdesignated' <=> Misdesignated
           /\ RefusedElsewhere' <=> RefusedElsewhere
           /\ Vouched' <=> Vouched
           /\ Fits' <=> Fits
<1>1. SignerQuery' = SignerQuery
  BY DEF SignerQuery, Inferred
<1>2. Verdict(parsed, SignerQuery)' = Verdict(parsed, SignerQuery)
  BY <1>1
<1>3. QED
  BY <1>1, <1>2 DEF Misdesignated, RefusedElsewhere, Vouched, Fits, Inferred, Explicit

\* Each check that runs settles its part and leaves the parts before it alone.
LEMMA Settling ==
    ASSUME IInv, [Next]_vars
    PROVE  Settled'
<1> USE DEF IInv, Settled, request, statuses
<1>0. \A check : Append(errs, check) # <<>>
  <2>1. errs \in Seq(Checks)
    BY DEF TypeOK
  <2>2. TAKE check
  <2>3. Len(errs) \in Nat /\ Len(Append(errs, check)) = Len(errs) + 1
    BY <2>1
  <2>4. Len(<<>>) = 0
    OBVIOUS
  <2>5. QED
    BY <2>3, <2>4
<1>1. CASE Tick \/ UNCHANGED vars
  <2>1. UNCHANGED <<opts, sig, timestamp, parsed, answer, designation, authentication,
                    verification, outcome, errs, result, pc>>
    BY <1>1 DEF Tick, vars
  <2>2. QED
    BY <2>1, Unmoved
    DEF Answered, DesignationSettled, AuthenticationSettled, ErrorsCollected, DataVerified
<1>2. CASE RejectOptions \/ ParseFails \/ SignatureReadFails
  <2>1. /\ pc' = "done" /\ designation = "" /\ designation' = ""
        /\ result' = FALSE /\ errs' # <<>> /\ outcome' = ""
    BY <1>0, <1>2
    DEF RejectOptions, ParseFails, SignatureReadFails, Fail, DesignationSettled, DataVerified
  <2>2. QED
    BY <2>1
    DEF Answered, DesignationSettled, AuthenticationSettled, ErrorsCollected, DataVerified
<1>3. CASE AcceptOptions \/ ParseSource \/ SignatureRead
  <2>1. /\ pc' \in {"parse", "match"} /\ designation = "" /\ designation' = ""
        /\ errs' = <<>> /\ UNCHANGED <<result, outcome>> /\ pc # "done"
    BY <1>3
    DEF AcceptOptions, ParseSource, SignatureRead, DesignationSettled, ErrorsCollected
  <2>2. ~result' /\ outcome' = ""
    BY <2>1 DEF DataVerified
  <2>3. QED
    BY <2>1, <2>2
    DEF Answered, DesignationSettled, AuthenticationSettled, ErrorsCollected, DataVerified
<1>4. CASE MatchSigner
  <2>1. /\ pc' = "designation" /\ designation = "" /\ designation' = ""
        /\ ~result' /\ errs' = <<>> /\ outcome' = ""
        /\ answer' = Verdict(parsed, SignerQuery)
        /\ UNCHANGED <<opts, sig, timestamp, parsed>>
    BY <1>4 DEF MatchSigner, DesignationSettled, ErrorsCollected, DataVerified
  <2>2. SignerQuery' = SignerQuery
    BY <2>1 DEF SignerQuery, Inferred
  <2>3. QED
    BY <2>1, <2>2
    DEF Answered, DesignationSettled, AuthenticationSettled, ErrorsCollected, DataVerified
<1>5. CASE ResolveDesignation
  <2>1. /\ pc = "designation" /\ pc' = "authentication" /\ errs = <<>>
        /\ UNCHANGED <<result, outcome, opts, sig, timestamp, parsed, answer>>
    BY <1>5 DEF ResolveDesignation, Designate, ErrorsCollected
  <2>2. /\ designation' \in {"valid", "invalid", "disabled"}
        /\ designation' = "invalid" <=> Misdesignated \/ RefusedElsewhere
        /\ designation' = "disabled" <=> opts.noNamespace
        /\ errs' = <<>> <=> ~Misdesignated
    BY <1>0, <1>5, <2>1
    DEF ResolveDesignation, Designate, Misdesignated, RefusedElsewhere, Refused, Vouched, Inferred,
        Explicit
  <2>3. ~result' /\ outcome' = ""
    BY <2>1 DEF DataVerified
  <2>4. QED
    BY <2>1, <2>2, <2>3, Unmoved
    DEF Answered, DesignationSettled, AuthenticationSettled, ErrorsCollected, DataVerified
<1>6. CASE ResolveAuthentication
  <2>1. /\ pc = "authentication" /\ pc' = "certificate" /\ (errs = <<>> <=> ~Misdesignated)
        /\ UNCHANGED <<result, outcome, opts, sig, timestamp, parsed, answer, designation>>
    BY <1>6 DEF ResolveAuthentication, Authenticate, ErrorsCollected
  <2>2. answer.failed => ~Vouched
    <3>1. SignerQuery \in Query /\ parsed \in Seq(Entry) /\ answer = Verdict(parsed, SignerQuery)
      BY <2>1, QueryTyped DEF AtOneInstant, Answered, TypeOK
    <3>2. QED
      BY <3>1, VerdictFacts DEF Vouched
  <2>3. /\ authentication' \in {"valid", "invalid", "disabled"}
        /\ authentication' = "invalid" <=> ~Vouched
        /\ errs' = <<>> <=> ~Misdesignated /\ Vouched
    BY <1>0, <1>6, <2>1, <2>2 DEF ResolveAuthentication, Authenticate, Vouched
  <2>4. ~result' /\ outcome' = ""
    BY <2>1 DEF DataVerified
  <2>5. QED
    BY <2>1, <2>3, <2>4, Unmoved
    DEF Answered, DesignationSettled, AuthenticationSettled, ErrorsCollected, DataVerified
<1>7. CASE CheckCertificate
  <2>1. /\ pc = "certificate" /\ pc' = "verify"
        /\ ~result' /\ outcome' = ""
        /\ UNCHANGED <<opts, sig, timestamp, parsed, answer, designation>>
    BY <1>7 DEF CheckCertificate, DataVerified
  <2>2. /\ authentication' # "" /\ (authentication' = "invalid" <=> ~(Vouched /\ Fits))
        /\ errs' = <<>> <=> ~Misdesignated /\ Vouched /\ Fits
    BY <1>0, <1>7 DEF CheckCertificate, Fits, AuthenticationSettled, ErrorsCollected
  <2>3. QED
    BY <2>1, <2>2, Unmoved
    DEF Answered, DesignationSettled, AuthenticationSettled, ErrorsCollected, DataVerified
<1>8. CASE VerifyOK \/ VerifyBad
  <2>1. /\ pc = "verify" /\ pc' = "done" /\ result'
        /\ UNCHANGED <<opts, sig, timestamp, parsed, answer, designation, authentication>>
        /\ outcome' \in {"ok", "bad"}
        /\ verification' = IF outcome' = "ok" THEN "valid" ELSE "invalid"
        /\ errs' = <<>> <=> errs = <<>> /\ outcome' = "ok"
    BY <1>0, <1>8 DEF VerifyOK, VerifyBad, Verified
  <2>2. QED
    BY <2>1, Unmoved
    DEF Answered, DesignationSettled, AuthenticationSettled, ErrorsCollected, DataVerified
<1>9. CASE VerifyReadFails
  <2>1. /\ pc = "verify" /\ pc' = "done" /\ ~result' /\ errs' # <<>> /\ outcome' = "unread"
        /\ UNCHANGED <<opts, sig, timestamp, parsed, answer, designation, authentication>>
    BY <1>0, <1>9 DEF VerifyReadFails, Fail
  <2>2. QED
    BY <2>1, Unmoved
    DEF Answered, DesignationSettled, AuthenticationSettled, ErrorsCollected, DataVerified
<1>10. QED
  BY <1>1, <1>2, <1>3, <1>4, <1>5, <1>6, <1>7, <1>8, <1>9 DEF Next

LEMMA Inductive == Spec => []IInv
<1>1. Init => IInv
  <2> SUFFICES ASSUME Init PROVE IInv
    OBVIOUS
  <2>1. /\ opts \in Options /\ sources \in Seq(Seq(Entry)) /\ sig \in Signature
    BY FlowAssumption DEF Init, Request
  <2>2. answer \in Verdicts
    BY DEF Init, Unanswered, Verdicts
  <2>3. parsed \in Seq(Entry) /\ errs \in Seq(Checks)
    <3>1. parsed = <<>> /\ errs = <<>>
      BY DEF Init
    <3>2. QED
      BY <3>1
  <2>4. j \in 0..Len(sources)
    <3>1. Len(sources) \in Nat
      BY <2>1
    <3>2. j = 0
      BY DEF Init
    <3>3. QED
      BY <3>1, <3>2
  <2>5. TypeOK
    BY <2>1, <2>2, <2>3, <2>4 DEF Init, TypeOK, Status
  <2>6. started <= clock
    <3>1. clock \in Time /\ started = clock
      BY DEF Init
    <3>2. QED
      BY <3>1, PolicyAssumption
  <2>7. Gathered
    <3>1. Range(parsed) = {}
      <4>1. parsed = <<>>
        BY DEF Init
      <4>2. Range(<<>>) = {}
        BY DEF Range
      <4>3. QED
        BY <4>1, <4>2
    <3>2. j = 0 /\ pc \notin Matching /\ ~Designated
      BY DEF Init, Matching, Designated
    <3>3. 1..0 = {}
      OBVIOUS
    <3>4. FromFirst(sources, 0) = {}
      BY <3>3 DEF FromFirst
    <3>5. QED
      BY <3>1, <3>2, <3>4 DEF Gathered
  <2>8. QED
    BY <2>5, <2>6, <2>7
    DEF Init, IInv, AtOneInstant, Settled, Answered, DesignationSettled, AuthenticationSettled,
        ErrorsCollected, DataVerified
<1>2. IInv /\ [Next]_vars => IInv'
  BY Typing, InstantKept, Gathering, Settling DEF IInv
<1>3. QED
  BY <1>1, <1>2, PTL DEF Spec

\* The state of one call of Verify has the types that TypeOK says.
THEOREM TypeCorrect == Spec => []TypeOK
<1>1. IInv => TypeOK
  BY DEF IInv
<1>2. QED
  BY <1>1, Inductive, PTL

-----------------------------------------------------------------------------

\* From the designation on, the answer is that of the search at an instant.
LEMMA AnswerFacts ==
    ASSUME IInv, Designated
    PROVE  /\ timestamp \in Time /\ timestamp \in Instants
           /\ parsed \in Seq(Entry) /\ SignerQuery \in Query
           /\ answer = Verdict(parsed, SignerQuery)
<1> USE DEF IInv
<1>1. timestamp \in Time /\ timestamp # NoTime /\ parsed \in Seq(Entry)
  BY DEF TypeOK, AtOneInstant, Designated
<1>2. timestamp \in Instants
  BY <1>1 DEF AtOneInstant, Instants
<1>3. QED
  BY <1>1, <1>2, QueryTyped DEF Settled, Answered, Designated

\* By then the entries parsed are those of all files.
LEMMA AllParsed ==
    ASSUME IInv, Designated
    PROVE  Listed = Range(parsed)
<1>1. /\ sources \in Seq(Seq(Entry)) /\ j = Len(sources)
      /\ Range(parsed) = FromFirst(sources, j)
  BY DEF IInv, TypeOK, Gathered
<1>2. DOMAIN sources = 1..j
  BY <1>1
<1>3. Listed = FromFirst(sources, j)
  BY <1>2 DEF Listed, FromFirst, Range
<1>4. QED
  BY <1>1, <1>3

\* An entry that the search accepts has all that is asked of it but, for an inferred
\* namespace, the restriction.
LEMMA EntryVouches ==
    ASSUME IInv, Designated, NEW k \in Usable(parsed, SignerQuery)
    PROVE  /\ parsed[k].key = sig.key
           /\ opts.principal # AnyPrincipal => opts.principal \in parsed[k].principals
           /\ \A a \in parsed[k].after : a <= timestamp
           /\ \A b \in parsed[k].before : timestamp <= b
           /\ ~opts.noNamespace /\ parsed[k].restricting => sig.ns \in parsed[k].namespaces
<1>1. /\ timestamp \in Int /\ Time \subseteq Int
      /\ parsed[k].after \subseteq Time /\ parsed[k].before \subseteq Time
  <2>1. timestamp \in Time /\ parsed \in Seq(Entry)
    BY AnswerFacts
  <2>2. parsed[k] \in Entry
    BY <2>1 DEF Usable, Candidates
  <2>3. QED
    BY <2>1, <2>2, PolicyAssumption DEF Entry
<1>2. /\ SignerQuery.key = sig.key /\ SignerQuery.principal = opts.principal
      /\ SignerQuery.ns = sig.ns /\ SignerQuery.time = timestamp
      /\ ~opts.noNamespace => SignerQuery.mode # "ignored"
  BY DEF SignerQuery
<1>3. /\ parsed[k].key = sig.key
      /\ opts.principal # AnyPrincipal => opts.principal \in parsed[k].principals
  BY <1>2 DEF Usable, Candidates, Names
<1>4. /\ \A a \in parsed[k].after : ~(timestamp < a)
      /\ \A b \in parsed[k].before : ~(timestamp > b)
  BY <1>2 DEF Usable, Accepts, NotYetValid, Expired
<1>5. ~opts.noNamespace /\ parsed[k].restricting => sig.ns \in parsed[k].namespaces
  BY <1>2 DEF Usable, Accepts, Refuses, Restricts
<1>6. \A a \in parsed[k].after : a <= timestamp
  <2> SUFFICES ASSUME NEW a \in parsed[k].after PROVE a <= timestamp
    OBVIOUS
  <2>1. a \in Int /\ timestamp \in Int /\ ~(timestamp < a)
    BY <1>1, <1>4
  <2>2. QED
    BY <2>1
<1>7. \A b \in parsed[k].before : timestamp <= b
  <2> SUFFICES ASSUME NEW b \in parsed[k].before PROVE timestamp <= b
    OBVIOUS
  <2>1. b \in Int /\ timestamp \in Int /\ ~(timestamp > b)
    BY <1>1, <1>4
  <2>2. QED
    BY <2>1
<1>8. QED
  BY <1>3, <1>5, <1>6, <1>7

\* Verify succeeds only for data that verifies and a signer that a single entry
\* vouches for, at an instant of the call at which the certificate was valid too.
THEOREM OnlyTrustedIsAccepted == Spec => []OnlyTrustedAccepted
<1>1. ASSUME IInv, Accepted
      PROVE  outcome = "ok" /\ \E t \in Instants : Trusted(t)
  <2>1. /\ Designated /\ outcome = "ok"
        /\ ~Misdesignated /\ Vouched /\ Fits
    BY <1>1 DEF IInv, Settled, DesignationSettled, Designated, ErrorsCollected, Accepted
  <2>2. /\ timestamp \in Time /\ timestamp \in Instants
        /\ parsed \in Seq(Entry) /\ SignerQuery \in Query
        /\ answer = Verdict(parsed, SignerQuery)
    BY <1>1, <2>1, AnswerFacts
  <2> DEFINE e == answer.entry
  <2>3. e \in DOMAIN parsed /\ e \in Usable(parsed, SignerQuery)
    BY <2>1, <2>2, EntryFacts DEF Vouched
  <2>4. answer.restricted => parsed[e].restricting
    BY <2>2, VerdictFacts DEF Restricts
  <2>5. Vouches(parsed[e], timestamp)
    BY <1>1, <2>1, <2>3, <2>4, EntryVouches
    DEF Vouches, NamespaceSettled, Misdesignated, Inferred, Explicit
  <2>6. Within(CertOf[sig.key], timestamp)
    <3>1. CertOf[sig.key] \in CertificateOf /\ timestamp \in Int /\ timestamp < Half * Second
      BY <1>1, <2>2, FlowAssumption, PolicyAssumption DEF IInv, TypeOK, Signature
    <3>2. QED
      BY <2>1, <3>1, CertificateWindow DEF Fits
  <2>7. QED
    BY <1>1, <2>1, <2>2, <2>3, <2>5, <2>6, AllParsed DEF Trusted, Range
<1>2. IInv => OnlyTrustedAccepted
  BY <1>1 DEF OnlyTrustedAccepted
<1>3. QED
  BY <1>2, Inductive, PTL

\* A signer that is trusted at every instant of the call is accepted, wherever the
\* entry is in the files and whatever other entries are there.
THEOREM TrustedIsAccepted == Spec => []TrustedAccepted
<1>1. ASSUME IInv, pc = "done", outcome = "ok", \A t \in Instants : Trusted(t),
             CertOf[sig.key].validBefore < Half \/ CertOf[sig.key].validBefore = Infinity
      PROVE  Accepted
  <2>1. result /\ Designated
    BY <1>1 DEF IInv, Settled, DesignationSettled, Designated, DataVerified
  <2>2. /\ timestamp \in Time /\ timestamp \in Instants
        /\ parsed \in Seq(Entry) /\ SignerQuery \in Query
        /\ answer = Verdict(parsed, SignerQuery)
    BY <1>1, <2>1, AnswerFacts
  <2>3. PICK k \in DOMAIN parsed : Vouches(parsed[k], timestamp)
    BY <1>1, <2>1, <2>2, AllParsed DEF Trusted, Range
  <2>4. k \in Usable(parsed, SignerQuery)
    <3>1. /\ timestamp \in Int /\ Time \subseteq Int
          /\ parsed[k].after \subseteq Time /\ parsed[k].before \subseteq Time
      <4>1. parsed[k] \in Entry
        BY <2>2, <2>3
      <4>2. QED
        BY <2>2, <4>1, PolicyAssumption DEF Entry
    <3>2. /\ SignerQuery.key = sig.key /\ SignerQuery.principal = opts.principal
          /\ SignerQuery.ns = sig.ns /\ SignerQuery.time = timestamp
          /\ SignerQuery.mode # "ignored" => Inferred \/ Explicit
      BY DEF SignerQuery, Inferred, Explicit
    <3>3. Names(parsed[k], SignerQuery)
      BY <2>3, <3>2 DEF Vouches, Names
    <3>4. ~NotYetValid(parsed[k], SignerQuery) /\ ~Expired(parsed[k], SignerQuery)
      <4>1. ASSUME NEW t \in parsed[k].after PROVE ~(timestamp < t)
        <5>1. t \in Int /\ timestamp \in Int /\ t <= timestamp
          BY <2>3, <3>1 DEF Vouches
        <5>2. QED
          BY <5>1
      <4>2. ASSUME NEW t \in parsed[k].before PROVE ~(timestamp > t)
        <5>1. t \in Int /\ timestamp \in Int /\ timestamp <= t
          BY <2>3, <3>1 DEF Vouches
        <5>2. QED
          BY <5>1
      <4>3. QED
        BY <3>2, <4>1, <4>2 DEF NotYetValid, Expired
    <3>5. ~Refuses(parsed[k], SignerQuery)
      BY <2>3, <3>2 DEF Vouches, NamespaceSettled, Refuses, Restricts
    <3>6. QED
      BY <2>3, <3>3, <3>4, <3>5 DEF Usable, Candidates, Accepts
  <2>5. Vouched
    BY <2>2, <2>4, VerdictFacts DEF Vouched
  <2>6. Inferred => answer.restricted
    <3>1. Inferred => SignerQuery.mode = "required" /\ Restricts(parsed[k], SignerQuery)
      BY <2>3 DEF SignerQuery, Inferred, Vouches, NamespaceSettled, Restricts
    <3>2. Inferred => answer.entry \in Preferred(parsed, SignerQuery)
      BY <2>2, <2>5, VerdictFacts DEF Vouched
    <3>3. Inferred => Restricts(parsed[answer.entry], SignerQuery)
      BY <2>4, <3>1, <3>2 DEF Preferred
    <3>4. QED
      BY <2>2, <2>5, <3>3, VerdictFacts DEF Vouched
  <2>7. ~Misdesignated
    BY <2>3, <2>6 DEF Misdesignated, Vouches, NamespaceSettled
  <2>8. Fits
    <3>1. CertOf[sig.key] \in CertificateOf /\ timestamp \in Int /\ timestamp < Half * Second
      BY <1>1, <2>2, FlowAssumption, PolicyAssumption DEF IInv, TypeOK, Signature
    <3>2. Within(CertOf[sig.key], timestamp)
      BY <1>1, <2>2 DEF Trusted
    <3>3. QED
      BY <1>1, <3>1, <3>2, CertificateWindow DEF Fits
  <2>9. QED
    BY <1>1, <2>1, <2>5, <2>7, <2>8 DEF IInv, Settled, ErrorsCollected, Accepted
<1>2. IInv => TrustedAccepted
  BY <1>1 DEF TrustedAccepted
<1>3. QED
  BY <1>2, Inductive, PTL

\* An "invalid" status is always accompanied by an error, and an error by one.
THEOREM InvalidReported == Spec => []InvalidIsReported
<1>1. ASSUME IInv, pc = "done", result
      PROVE  errs # <<>> <=> "invalid" \in {designation, authentication, verification}
  <2>1. /\ designation = "invalid" <=> Misdesignated \/ RefusedElsewhere
        /\ authentication = "invalid" <=> ~(Vouched /\ Fits)
        /\ verification = "invalid" <=> outcome # "ok"
        /\ errs = <<>> <=> ~Misdesignated /\ Vouched /\ Fits /\ outcome = "ok"
        /\ Designated
    BY <1>1
    DEF IInv, Settled, DesignationSettled, Designated, AuthenticationSettled, ErrorsCollected, DataVerified
  <2>2. RefusedElsewhere => ~Vouched
    <3>1. parsed \in Seq(Entry) /\ SignerQuery \in Query /\ answer = Verdict(parsed, SignerQuery)
      BY <1>1, <2>1, AnswerFacts
    <3>2. answer.checked => answer.failed
      BY <3>1, VerdictFacts
    <3>3. answer.failed => answer.entry = 0
      BY <3>1, VerdictFacts
    <3>4. QED
      BY <3>2, <3>3 DEF RefusedElsewhere, Vouched
  <2>3. QED
    BY <2>1, <2>2
<1>2. IInv => InvalidIsReported
  BY <1>1 DEF InvalidIsReported
<1>3. QED
  BY <1>2, Inductive, PTL

\* A result has every status, and without a result there is an error.
THEOREM EveryCheckRuns == Spec => []AllChecksRun
<1>1. IInv => AllChecksRun
  BY DEF IInv, Settled, DesignationSettled, AuthenticationSettled, ErrorsCollected,
         DataVerified, AllChecksRun
<1>2. QED
  BY <1>1, Inductive, PTL

\* A namespace is not designated "valid" unless an entry about the signer settles it,
\* or it is asked for and no entry is about the signer.
THEOREM DesignationBacked == Spec => []DesignationIsBacked
<1> DEFINE about == {e \in Listed : Names(e, SignerQuery)}
           About == {k \in DOMAIN parsed : Names(parsed[k], SignerQuery)}
<1>1. ASSUME IInv, designation = "valid"
      PROVE  \/ \E e \in about : NamespaceSettled(e)
             \/ Explicit /\ opts.namespace = sig.ns /\ about = {}
  <2>1. Designated /\ ~Misdesignated /\ ~RefusedElsewhere /\ ~opts.noNamespace
    BY <1>1 DEF IInv, Settled, DesignationSettled, Designated
  <2>2. parsed \in Seq(Entry) /\ SignerQuery \in Query /\ answer = Verdict(parsed, SignerQuery)
    BY <1>1, <2>1, AnswerFacts
  <2>3. /\ Inferred \/ Explicit
        /\ SignerQuery.ns = sig.ns /\ SignerQuery.mode # "ignored"
    BY <2>1 DEF SignerQuery, Inferred, Explicit
  <2>4. /\ Inferred => Vouched /\ answer.restricted
        /\ Explicit => opts.namespace = sig.ns /\ (answer.checked => answer.permitted)
    BY <2>1 DEF Misdesignated, RefusedElsewhere
  <2>5. About = Candidates(parsed, SignerQuery)
    BY DEF Candidates
  <2>6. ASSUME NEW k \in About, ~Refuses(parsed[k], SignerQuery),
               Inferred => Restricts(parsed[k], SignerQuery)
        PROVE  NamespaceSettled(parsed[k])
    BY <2>3, <2>4, <2>6 DEF NamespaceSettled, Refuses, Restricts
  <2> DEFINE Backed == \/ \E k \in About : NamespaceSettled(parsed[k])
                       \/ Explicit /\ opts.namespace = sig.ns /\ About = {}
  <2>7. ASSUME Vouched PROVE Backed
    <3> DEFINE e == answer.entry
    <3>1. e \in Usable(parsed, SignerQuery)
      BY <2>2, <2>7, EntryFacts DEF Vouched
    <3>2. e \in About /\ ~Refuses(parsed[e], SignerQuery)
      BY <2>5, <3>1 DEF Usable, Accepts
    <3>3. answer.restricted => Restricts(parsed[e], SignerQuery)
      BY <2>2, VerdictFacts
    <3>4. QED
      BY <2>4, <2>6, <3>2, <3>3
  <2>8. ASSUME ~Vouched, About # {} PROVE Backed
    <3>1. Explicit /\ ~Inferred
      BY <2>3, <2>4, <2>8 DEF Explicit, Inferred
    <3>2. Usable(parsed, SignerQuery) = {}
      BY <2>2, <2>8, VerdictFacts DEF Vouched
    <3>3. answer.failed
      BY <2>2, <2>5, <2>8, <3>2, VerdictFacts
    <3>4. \/ \E k \in About : Permits(parsed[k], SignerQuery)
          \/ \E k \in About : ~Refuses(parsed[k], SignerQuery)
      BY <2>2, <2>4, <2>5, <3>1, <3>3, VerdictFacts
    <3>5. \E k \in About : ~Refuses(parsed[k], SignerQuery)
      BY <3>4 DEF Permits, Refuses
    <3>6. QED
      BY <2>6, <3>1, <3>5
  <2>9. ASSUME ~Vouched, About = {} PROVE Backed
    BY <2>3, <2>4, <2>9
  <2>10. about = {parsed[k] : k \in About}
    BY <1>1, <2>1, AllParsed DEF Range
  <2>11. QED
    BY <2>7, <2>8, <2>9, <2>10
<1>2. IInv => DesignationIsBacked
  BY <1>1 DEF DesignationIsBacked
<1>3. QED
  BY <1>2, Inductive, PTL
=============================================================================
