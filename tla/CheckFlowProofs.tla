-------------------------- MODULE CheckFlowProofs --------------------------
(***************************************************************************)
(* Check accepts exactly the signatures it is documented to accept and     *)
(* reports every failure once, for every option, certificate and clock.    *)
(* The checks are run one after the other and their errors collected, so   *)
(* the invariant says stage by stage which checks errs stands for.         *)
(***************************************************************************)
EXTENDS CheckFlow, FiniteSetTheorems, TLAPS

Fits == CertificateValidAt(CertOf[sig.key], timestamp)
Failed == Range(errs)

\* The instant is taken once the signature is read, and stays.
AtOneInstant ==
    /\ pc = "timestamp" => readAt # NoTime
    /\ pc \in {"readers", "options", "signature", "timestamp"} => timestamp = NoTime
    /\ readAt # NoTime => readAt <= clock
    /\ pc \in {"authentication", "designation", "verify"} \/ result => timestamp # NoTime
    /\ timestamp # NoTime => readAt # NoTime
    /\ timestamp # NoTime =>
         /\ opts.time = NoTime => readAt <= timestamp /\ timestamp <= clock
         /\ opts.time # NoTime => timestamp = opts.time

Once(s) == \A a, b \in DOMAIN s : s[a] = s[b] => a = b

Unauthentic ==
    (IF RightKey THEN {} ELSE {"key"}) \cup
    (IF opts.noAuthKey \/ Fits THEN {} ELSE {"certificate"})
Undesignated == IF RightNamespace THEN {} ELSE {"designation"}
Unverified == IF outcome = "ok" THEN {} ELSE {"verification"}

Collected ==
    /\ Once(errs)
    /\ pc \in {"readers", "options", "signature", "timestamp", "authentication"} => errs = <<>>
    /\ pc = "designation" => Failed = Unauthentic
    /\ pc = "verify" => Failed = Unauthentic \cup Undesignated
    /\ result => Failed = Unauthentic \cup Undesignated \cup Unverified
    /\ pc = "done" /\ ~result => errs # <<>>

Statuses ==
    /\ pc \in {"designation", "verify"} \/ result =>
         (authentication = "invalid" <=> Unauthentic # {})
    /\ pc = "verify" \/ result => (designation = "invalid" <=> Undesignated # {})
    /\ pc # "done" => ~result /\ outcome = ""
    /\ result => outcome \in {"ok", "bad"} /\ verification = IF outcome = "ok" THEN "valid" ELSE "invalid"
    /\ ~result => outcome \notin {"ok", "bad"}

IInv == TypeOK /\ AtOneInstant /\ Collected /\ Statuses

-----------------------------------------------------------------------------

\* An error that is appended joins the failed checks, and errs are distinct if it is new.
LEMMA Reported ==
    ASSUME NEW S, NEW s \in Seq(S), NEW check \in S
    PROVE  /\ Append(s, check) \in Seq(S) /\ Append(s, check) # <<>>
           /\ Range(Append(s, check)) = Range(s) \cup {check}
           /\ Once(s) /\ check \notin Range(s) => Once(Append(s, check))
<1> DEFINE t == Append(s, check)
           m == Len(s)
<1>1. /\ m \in Nat /\ DOMAIN s = 1..m /\ t \in Seq(S)
      /\ DOMAIN t = 1..(m + 1) /\ Len(t) = m + 1
      /\ \A a \in 1..m : t[a] = s[a]
      /\ t[m + 1] = check
  OBVIOUS
<1> HIDE DEF t, m
<1>2. t # <<>>
  <2>1. Len(<<>>) = 0
    OBVIOUS
  <2>2. QED
    BY <1>1, <2>1
<1>3. 1..(m + 1) = (1..m) \cup {m + 1} /\ m + 1 \notin 1..m
  BY <1>1
<1>4. Range(t) = Range(s) \cup {check}
  BY <1>1, <1>3 DEF Range
<1>5. ASSUME Once(s), check \notin Range(s) PROVE Once(t)
  BY <1>1, <1>3, <1>5 DEF Once, Range
<1>6. QED
  BY <1>1, <1>2, <1>4, <1>5 DEF t

\* As many errors as failed checks, if none is there twice.
LEMMA Counted ==
    ASSUME NEW S, NEW s \in Seq(S), Once(s)
    PROVE  Cardinality(Range(s)) = Len(s)
<1> DEFINE m == Len(s)
<1>1. m \in Nat /\ DOMAIN s = 1..m /\ s \in [1..m -> S]
  OBVIOUS
<1> HIDE DEF m
<1>2. s \in [1..m -> Range(s)]
  BY <1>1 DEF Range
<1>3. s \in Bijection(1..m, Range(s))
  BY <1>1, <1>2 DEF Bijection, Injection, Surjection, Once, Range, IsInjective
<1>4. ExistsBijection(1..m, Range(s))
  BY <1>3 DEF ExistsBijection
<1>5. Cardinality(Range(s)) = m
  BY <1>1, <1>4, FS_CountingElements
<1>6. QED
  BY <1>5 DEF m

-----------------------------------------------------------------------------

\* No error, or the one.
MayAdd(a, x) == a = <<>> \/ a = <<x>>

\* Two checks that each may add an error to none.
LEMMA Complaints ==
    ASSUME NEW S, NEW x \in S, NEW y \in S, x # y,
           NEW a, MayAdd(a, x), NEW b, MayAdd(b, y)
    PROVE  /\ a \o b \in Seq(S) /\ Once(a \o b)
           /\ Range(a \o b) = (IF a = <<>> THEN {} ELSE {x}) \cup (IF b = <<>> THEN {} ELSE {y})
           /\ a \o b = <<>> <=> a = <<>> /\ b = <<>>
<1> USE DEF MayAdd
<1>1. /\ a \o b = IF a = <<>> THEN b ELSE IF b = <<>> THEN <<x>> ELSE <<x, y>>
      /\ a \in Seq(S) /\ b \in Seq(S)
  <2>1. <<>> \in Seq(S) /\ <<x>> \in Seq(S) /\ <<y>> \in Seq(S)
    OBVIOUS
  <2>2. <<x>> \o <<y>> = <<x, y>>
    <3> DEFINE c == <<x>> \o <<y>>
    <3>1. c \in Seq(S) /\ Len(c) = 2 /\ c[1] = x /\ c[2] = y
      BY <2>1
    <3> HIDE DEF c
    <3>2. c = <<x, y>>
      BY <3>1
    <3>3. QED
      BY <3>2 DEF c
  <2>3. \A t \in Seq(S) : t \o <<>> = t /\ <<>> \o t = t
    OBVIOUS
  <2>4. QED
    BY <2>1, <2>2, <2>3
<1>2. a \o b \in Seq(S)
  BY <1>1
<1>3. /\ Range(<<>>) = {} /\ Range(<<x>>) = {x} /\ Range(<<y>>) = {y} /\ Range(<<x, y>>) = {x, y}
      /\ Once(<<>>) /\ Once(<<x>>) /\ Once(<<y>>) /\ Once(<<x, y>>)
  <2>1. Range(<<>>) = {} /\ Once(<<>>)
    BY DEF Range, Once
  <2>2. \A z : Range(<<z>>) = {z} /\ Once(<<z>>)
    BY DEF Range, Once
  <2>3. Range(<<x, y>>) = {x, y} /\ Once(<<x, y>>)
    <3>1. DOMAIN <<x, y>> = {1, 2} /\ <<x, y>>[1] = x /\ <<x, y>>[2] = y
      OBVIOUS
    <3>2. QED
      BY <3>1 DEF Range, Once
  <2>4. QED
    BY <2>1, <2>2, <2>3
<1>4. <<x>> # <<>> /\ <<y>> # <<>> /\ <<x, y>> # <<>>
  OBVIOUS
<1>5. QED
  BY <1>1, <1>2, <1>3, <1>4

-----------------------------------------------------------------------------

\* What the two failures of an option, and those of the authentication, are as errors.
LEMMA OptionsRejected ==
    ASSUME TypeOK, CheckOptions, errs = <<>>, pc' = "done"
    PROVE  errs' \in Seq(Checks) /\ Once(errs') /\ errs' # <<>> /\ result' = FALSE
<1> DEFINE a == IF CheckAuthKey THEN <<>> ELSE <<"auth key">>
           b == IF CheckNamespace THEN <<>> ELSE <<"namespace">>
           c == a \o b
<1>1. errs' = errs \o c /\ c # <<>> /\ result' = FALSE
  BY DEF CheckOptions, Fail
<1>2. MayAdd(a, "auth key") /\ MayAdd(b, "namespace")
  BY DEF MayAdd
<1>3. "auth key" \in Checks /\ "namespace" \in Checks /\ "auth key" # "namespace"
  BY DEF Checks
<1> HIDE DEF a, b
<1>4. c \in Seq(Checks) /\ Once(c)
  BY <1>2, <1>3, Complaints
<1> HIDE DEF c
<1>5. errs \o c = c
  BY <1>4
<1>6. QED
  BY <1>1, <1>4, <1>5

LEMMA OptionsPassed ==
    ASSUME CheckOptions
    PROVE  /\ UNCHANGED outcome
           /\ \/ pc' = "done" /\ result' = FALSE
              \/ pc' = "signature" /\ errs' = errs /\ result' = result
BY Zenon DEF CheckOptions, Fail

LEMMA Authenticated ==
    ASSUME TypeOK, Authenticate, errs = <<>>
    PROVE  /\ errs' \in Seq(Checks) /\ Once(errs') /\ Failed' = Unauthentic'
           /\ authentication' \in {"valid", "invalid"}
           /\ authentication' = "invalid" <=> Unauthentic' # {}
<1> DEFINE p == opts.authKey = sig.key
           q == CertificateValidAt(CertOf[sig.key], timestamp)
           a == IF p THEN <<>> ELSE <<"key">>
           b == IF q THEN <<>> ELSE <<"certificate">>
           c == a \o b
<1>1. /\ errs' = errs \o a \o b /\ ~opts.noAuthKey
      /\ authentication' = IF c = <<>> THEN "valid" ELSE "invalid"
      /\ UNCHANGED <<opts, sig, timestamp>>
  BY DEF Authenticate
<1>2. MayAdd(a, "key") /\ MayAdd(b, "certificate")
  BY DEF MayAdd
<1>b. (a = <<>> <=> p) /\ (b = <<>> <=> q)
  <2>1. \A z : <<z>> # <<>>
    OBVIOUS
  <2>2. QED
    BY <2>1
<1> HIDE DEF a, b, p, q
<1>3. "key" \in Checks /\ "certificate" \in Checks /\ "key" # "certificate"
  BY DEF Checks
<1>4. /\ errs \o a \o b = c /\ c \in Seq(Checks) /\ Once(c)
      /\ Range(c) = (IF p THEN {} ELSE {"key"}) \cup (IF q THEN {} ELSE {"certificate"})
      /\ c = <<>> <=> p /\ q
  <2>1. /\ c \in Seq(Checks) /\ Once(c)
        /\ Range(c) = (IF a = <<>> THEN {} ELSE {"key"}) \cup (IF b = <<>> THEN {} ELSE {"certificate"})
        /\ c = <<>> <=> a = <<>> /\ b = <<>>
    BY <1>2, <1>3, Complaints
  <2>2. errs \o a \o b = c
    <3>1. errs \o a = a
      BY <1>2 DEF MayAdd
    <3>2. QED
      BY <3>1
  <2>3. QED
    BY <1>b, <2>1, <2>2
<1>5. Unauthentic' = (IF p THEN {} ELSE {"key"}) \cup (IF q THEN {} ELSE {"certificate"})
  BY <1>1 DEF Unauthentic, RightKey, Fits, p, q
<1> HIDE DEF c
<1>6. QED
  BY <1>1, <1>4, <1>5 DEF Failed, a, b, p, q

\* Types are kept by every step.
LEMMA Typing ==
    ASSUME IInv, [Next]_vars
    PROVE  TypeOK'
<1> USE DEF IInv, statuses
<1>0. /\ errs \in Seq(Checks)
      /\ \A check \in Checks : Append(errs, check) \in Seq(Checks) /\ errs \o <<check>> \in Seq(Checks)
  <2>1. errs \in Seq(Checks)
    BY DEF TypeOK
  <2>2. QED
    BY <2>1
<1>a. {"reader", "signature", "designation", "verification", "read"} \subseteq Checks
  BY DEF Checks
<1>1. CASE Tick
  BY <1>1 DEF Tick, TypeOK
<1>2. CASE RequireReaders
  BY <1>0, <1>a, <1>2 DEF RequireReaders, Fail, TypeOK
<1>3. CASE CheckOptions
  <2>1. errs = <<>>
    BY <1>3 DEF CheckOptions, Collected
  <2>2. errs' \in Seq(Checks) /\ result' \in BOOLEAN /\ pc' \in {"signature", "done"}
    <3>1. CASE pc' = "done"
      BY <1>3, <2>1, <3>1, OptionsRejected
    <3>2. CASE pc' # "done"
      BY <1>0, <1>3, <3>2 DEF CheckOptions, Fail, TypeOK
    <3>3. QED
      BY <1>3, <3>1, <3>2 DEF CheckOptions, Fail
  <2>3. QED
    BY <1>3, <2>2 DEF CheckOptions, TypeOK
<1>4. CASE SignatureReadFails
  BY <1>0, <1>a, <1>4 DEF SignatureReadFails, Fail, TypeOK
<1>5. CASE SignatureRead
  BY <1>5 DEF SignatureRead, TypeOK
<1>6. CASE TakeTimestamp
  <2>1. timestamp' \in Time \cup {NoTime}
    BY <1>6 DEF TakeTimestamp, TypeOK, Options
  <2>2. QED
    BY <1>6, <2>1 DEF TakeTimestamp, TypeOK
<1>7. CASE SkipAuthentication
  BY <1>7 DEF SkipAuthentication, TypeOK, Status
<1>8. CASE Authenticate
  <2>1. errs = <<>>
    BY <1>8 DEF Authenticate, Collected
  <2>2. errs' \in Seq(Checks) /\ authentication' \in Status
    BY <1>8, <2>1, Authenticated DEF Status
  <2>3. QED
    BY <1>8, <2>2 DEF Authenticate, TypeOK
<1>9. CASE ResolveDesignation
  <2>1. designation' \in Status /\ errs' \in Seq(Checks)
    BY <1>0, <1>a, <1>9 DEF ResolveDesignation, Designate, Status
  <2>2. QED
    BY <1>9, <2>1 DEF ResolveDesignation, Designate, TypeOK
<1>10. CASE VerifyOK \/ VerifyBad \/ VerifyReadFails
  <2>1. errs' \in Seq(Checks) /\ verification' \in Status
    BY <1>0, <1>a, <1>10
    DEF VerifyOK, VerifyBad, VerifyReadFails, Verified, Fail, TypeOK, Status
  <2>2. QED
    BY <1>10, <2>1 DEF VerifyOK, VerifyBad, VerifyReadFails, Verified, Fail, TypeOK
<1>11. CASE UNCHANGED vars
  BY <1>11 DEF vars, TypeOK
<1>12. QED
  BY <1>1, <1>2, <1>3, <1>4, <1>5, <1>6, <1>7, <1>8, <1>9, <1>10, <1>11 DEF Next

\* The clock goes on, but the instant that was chosen stays.
LEMMA InstantKept ==
    ASSUME IInv, [Next]_vars
    PROVE  AtOneInstant'
<1> USE DEF IInv, statuses
<1>1. /\ Time \subseteq Int /\ NoTime \notin Time
      /\ clock \in Time /\ opts.time \in Time \cup {NoTime}
      /\ readAt \in Time \cup {NoTime} /\ timestamp \in Time \cup {NoTime}
  BY CheckAssumption DEF TypeOK, Options
<1>2. CASE Tick
  <2>1. /\ clock' = clock + 1 /\ clock \in Int
        /\ UNCHANGED <<opts, readAt, timestamp, result, pc>>
    BY <1>1, <1>2 DEF Tick
  <2>2. readAt # NoTime => readAt <= clock + 1
    <3> SUFFICES ASSUME readAt # NoTime PROVE readAt <= clock + 1
      OBVIOUS
    <3>1. readAt <= clock /\ readAt \in Int
      BY <1>1 DEF AtOneInstant
    <3>2. QED
      BY <2>1, <3>1
  <2>3. timestamp # NoTime /\ opts.time = NoTime => timestamp <= clock + 1
    <3> SUFFICES ASSUME timestamp # NoTime, opts.time = NoTime PROVE timestamp <= clock + 1
      OBVIOUS
    <3>1. timestamp <= clock /\ timestamp \in Int
      BY <1>1 DEF AtOneInstant
    <3>2. QED
      BY <2>1, <3>1
  <2>4. QED
    BY <2>1, <2>2, <2>3 DEF AtOneInstant
<1>3. CASE SignatureRead
  <2>1. /\ UNCHANGED <<opts, clock, timestamp, result>>
        /\ readAt' = clock /\ pc' = "timestamp" /\ pc = "signature"
    BY <1>3 DEF SignatureRead
  <2>2. clock <= clock /\ clock # NoTime
    BY <1>1
  <2>3. timestamp = NoTime /\ ~result
    BY <2>1 DEF Collected, Statuses, AtOneInstant
  <2>4. QED
    BY <2>1, <2>2, <2>3 DEF AtOneInstant
<1>4. CASE TakeTimestamp
  <2>1. /\ UNCHANGED <<opts, readAt, clock, result>> /\ pc = "timestamp" /\ pc' = "authentication"
        /\ timestamp' = IF opts.time = NoTime THEN clock ELSE opts.time
    BY <1>4 DEF TakeTimestamp
  <2>2. clock <= clock /\ timestamp' # NoTime
    BY <1>1, <2>1
  <2>3. QED
    BY <1>1, <2>1, <2>2 DEF AtOneInstant
<1>5. ASSUME /\ UNCHANGED <<opts, readAt, clock, timestamp>>
             /\ pc' # "timestamp"
             /\ pc' \in {"readers", "options", "signature", "timestamp"} =>
                  pc \in {"readers", "options", "signature", "timestamp"}
             /\ pc' \in {"authentication", "designation", "verify"} \/ result' =>
                  pc \in {"authentication", "designation", "verify"} \/ result
      PROVE  AtOneInstant'
  BY <1>5 DEF AtOneInstant
<1>6. CASE RequireReaders \/ CheckOptions \/ SignatureReadFails
  BY <1>5, <1>6 DEF RequireReaders, CheckOptions, SignatureReadFails, Fail
<1>7. CASE SkipAuthentication \/ Authenticate
  BY <1>5, <1>7 DEF SkipAuthentication, Authenticate
<1>8. CASE ResolveDesignation
  BY <1>5, <1>8 DEF ResolveDesignation, Designate
<1>9. CASE VerifyOK \/ VerifyBad \/ VerifyReadFails
  BY <1>5, <1>9 DEF VerifyOK, VerifyBad, VerifyReadFails, Verified, Fail
<1>10. CASE UNCHANGED vars
  BY <1>10 DEF vars, AtOneInstant
<1>11. QED
  BY <1>2, <1>3, <1>4, <1>6, <1>7, <1>8, <1>9, <1>10 DEF Next

\* What has failed stays as it is while nothing it depends on changes.
LEMMA Unmoved ==
    ASSUME UNCHANGED <<opts, sig, timestamp>>
    PROVE  Unauthentic' = Unauthentic /\ Undesignated' = Undesignated
BY DEF Unauthentic, Undesignated, RightKey, RightNamespace, Fits

\* Each check that runs adds what it found and leaves what was found before it.
LEMMA Collecting ==
    ASSUME IInv, [Next]_vars
    PROVE  Collected'
<1> USE DEF IInv, statuses
<1>0. /\ errs \in Seq(Checks)
      /\ \A check \in Checks : errs \o <<check>> = Append(errs, check)
  <2>1. errs \in Seq(Checks)
    BY DEF TypeOK
  <2>2. QED
    BY <2>1
<1>a. ASSUME NEW check \in Checks
      PROVE  /\ Append(errs, check) # <<>>
             /\ Range(Append(errs, check)) = Failed \cup {check}
             /\ check \notin Failed => Once(Append(errs, check))
  BY <1>0, Reported DEF Collected, Failed
<1>b. {"reader", "signature", "designation", "verification", "read"} \subseteq Checks
  BY DEF Checks
<1>c. Once(<<>>) /\ Range(<<>>) = {}
  BY DEF Once, Range
<1>d. pc # "done" => ~result
  BY DEF Statuses
<1>1. CASE Tick \/ UNCHANGED vars
  <2>1. UNCHANGED <<opts, sig, timestamp, outcome, errs, result, pc>>
    BY <1>1 DEF Tick, vars
  <2>2. QED
    BY <2>1, Unmoved DEF Collected, Failed, Unverified
<1>2. CASE RequireReaders \/ SignatureReadFails
  <2>1. errs = <<>> /\ ~result
    BY <1>2, <1>d DEF RequireReaders, SignatureReadFails, Collected
  <2>2. \/ pc' = "done" /\ result' = FALSE /\ errs' = Append(errs, "reader")
        \/ pc' = "done" /\ result' = FALSE /\ errs' = Append(errs, "signature")
        \/ pc' = "options" /\ UNCHANGED <<errs, result>>
    BY <1>0, <1>2, <1>b DEF RequireReaders, SignatureReadFails, Fail
  <2>3. "reader" \notin Failed /\ "signature" \notin Failed
    BY <1>c, <2>1 DEF Failed
  <2>4. Once(errs') /\ (pc' = "done" => errs' # <<>>) /\ ~result'
    BY <1>a, <1>b, <1>c, <2>1, <2>2, <2>3
  <2>5. QED
    BY <2>1, <2>2, <2>4 DEF Collected
<1>3. CASE CheckOptions
  <2>1. errs = <<>> /\ ~result
    BY <1>3, <1>d DEF CheckOptions, Collected
  <2>2. CASE pc' = "done"
    <3>1. Once(errs') /\ errs' # <<>> /\ result' = FALSE
      BY <1>3, <2>1, <2>2, OptionsRejected
    <3>2. QED
      BY <2>2, <3>1 DEF Collected
  <2>3. CASE pc' # "done"
    <3>1. pc' = "signature" /\ errs' = <<>> /\ ~result'
      <4>1. pc' = "signature" /\ errs' = errs /\ result' = result
        BY <1>3, <2>3, OptionsPassed, Zenon
      <4>2. QED
        BY <2>1, <4>1
    <3>2. QED
      BY <1>c, <3>1 DEF Collected
  <2>4. QED
    BY <2>2, <2>3
<1>4. CASE SignatureRead \/ TakeTimestamp
  <2>1. pc' \in {"timestamp", "authentication"} /\ errs' = <<>> /\ ~result'
    BY <1>4, <1>d DEF SignatureRead, TakeTimestamp, Collected
  <2>2. QED
    BY <1>c, <2>1 DEF Collected
<1>5. CASE SkipAuthentication
  <2>1. /\ pc' = "designation" /\ errs' = <<>> /\ ~result'
        /\ opts.noAuthKey /\ UNCHANGED <<opts, sig, timestamp>>
    BY <1>5, <1>d DEF SkipAuthentication, Collected
  <2>2. Unauthentic' = {}
    BY <2>1 DEF Unauthentic, RightKey
  <2>3. QED
    BY <1>c, <2>1, <2>2 DEF Collected, Failed
<1>6. CASE Authenticate
  <2>1. errs = <<>> /\ pc' = "designation" /\ ~result'
    BY <1>6, <1>d DEF Authenticate, Collected
  <2>2. Once(errs') /\ Failed' = Unauthentic'
    BY <1>6, <2>1, Authenticated
  <2>3. QED
    BY <2>1, <2>2 DEF Collected
<1>7. CASE ResolveDesignation
  <2>1. /\ pc = "designation" /\ pc' = "verify" /\ ~result'
        /\ UNCHANGED <<opts, sig, timestamp>>
        /\ errs' = IF RightNamespace THEN errs ELSE Append(errs, "designation")
    BY <1>7, <1>d DEF ResolveDesignation, Designate, RightNamespace
  <2>2. Failed = Unauthentic /\ Once(errs)
    BY <2>1 DEF Collected
  <2>3. "designation" \notin Failed
    BY <2>2 DEF Unauthentic
  <2>4. Once(errs') /\ Failed' = Unauthentic \cup Undesignated
    BY <1>a, <1>b, <2>1, <2>2, <2>3 DEF Undesignated, Failed
  <2>5. QED
    BY <2>1, <2>4, Unmoved DEF Collected
<1>8. CASE VerifyOK \/ VerifyBad
  <2>1. /\ pc = "verify" /\ pc' = "done" /\ result'
        /\ UNCHANGED <<opts, sig, timestamp>>
        /\ \/ outcome' = "ok" /\ errs' = errs
           \/ outcome' = "bad" /\ errs' = Append(errs, "verification")
    BY <1>8 DEF VerifyOK, VerifyBad, Verified
  <2>2. Failed = Unauthentic \cup Undesignated /\ Once(errs)
    BY <2>1 DEF Collected
  <2>3. "verification" \notin Failed
    BY <2>2 DEF Unauthentic, Undesignated
  <2>4. Once(errs') /\ Failed' = Unauthentic \cup Undesignated \cup Unverified'
    BY <1>a, <1>b, <2>1, <2>2, <2>3 DEF Unverified, Failed
  <2>5. QED
    BY <2>1, <2>4, Unmoved DEF Collected
<1>9. CASE VerifyReadFails
  <2>1. pc = "verify" /\ pc' = "done" /\ result' = FALSE /\ errs' = Append(errs, "read")
    BY <1>0, <1>9, <1>b DEF VerifyReadFails, Fail
  <2>2. "read" \notin Failed
    BY <2>1 DEF Collected, Unauthentic, Undesignated
  <2>3. Once(errs') /\ errs' # <<>>
    BY <1>a, <1>b, <2>1, <2>2
  <2>4. QED
    BY <2>1, <2>3 DEF Collected
<1>10. QED
  BY <1>1, <1>2, <1>3, <1>4, <1>5, <1>6, <1>7, <1>8, <1>9 DEF Next

\* A status says whether one of its checks failed.
LEMMA StatusesSet ==
    ASSUME IInv, [Next]_vars
    PROVE  Statuses'
<1> USE DEF IInv, statuses
<1>1. CASE Tick \/ UNCHANGED vars
  <2>1. UNCHANGED <<opts, sig, timestamp, authentication, designation, verification, outcome,
                    result, pc>>
    BY <1>1 DEF Tick, vars
  <2>2. QED
    BY <2>1, Unmoved DEF Statuses
<1>2. CASE RequireReaders \/ CheckOptions \/ SignatureReadFails \/ SignatureRead \/ TakeTimestamp
  <2>1. /\ pc # "done" /\ pc' \notin {"designation", "verify"} /\ outcome' = outcome
        /\ result' = FALSE \/ result' = result
    <3>1. CASE RequireReaders \/ SignatureReadFails
      BY <3>1 DEF RequireReaders, SignatureReadFails, Fail
    <3>2. CASE CheckOptions
      BY <3>2, OptionsPassed DEF CheckOptions
    <3>3. CASE SignatureRead \/ TakeTimestamp
      BY <3>3 DEF SignatureRead, TakeTimestamp
    <3>4. QED
      BY <1>2, <3>1, <3>2, <3>3
  <2>2. ~result' /\ outcome' = ""
    <3>1. ~result /\ outcome = ""
      BY <2>1 DEF Statuses
    <3>2. CASE result' = FALSE
      BY <2>1, <3>1, <3>2
    <3>3. CASE result' = result
      BY <2>1, <3>1, <3>3
    <3>4. QED
      BY <2>1, <3>2, <3>3
  <2>3. QED
    BY <2>1, <2>2 DEF Statuses
<1>3. CASE SkipAuthentication
  <2>1. /\ pc' = "designation" /\ ~result' /\ outcome' = ""
        /\ authentication' = "disabled" /\ opts'.noAuthKey
    BY <1>3 DEF SkipAuthentication, Statuses
  <2>2. Unauthentic' = {}
    BY <2>1 DEF Unauthentic, RightKey
  <2>3. QED
    BY <2>1, <2>2 DEF Statuses
<1>4. CASE Authenticate
  <2>1. pc' = "designation" /\ ~result' /\ outcome' = "" /\ errs = <<>>
    BY <1>4 DEF Authenticate, Statuses, Collected
  <2>2. authentication' = "invalid" <=> Unauthentic' # {}
    BY <1>4, <2>1, Authenticated
  <2>3. QED
    BY <2>1, <2>2 DEF Statuses
<1>5. CASE ResolveDesignation
  <2>0. /\ pc = "designation" /\ pc' = "verify"
        /\ UNCHANGED <<opts, sig, timestamp, authentication, result, outcome>>
    BY <1>5 DEF ResolveDesignation, Designate
  <2>a. designation' = "invalid" <=> ~RightNamespace
    BY <1>5 DEF ResolveDesignation, Designate, RightNamespace
  <2>1. /\ pc = "designation" /\ pc' = "verify" /\ ~result' /\ outcome' = ""
        /\ UNCHANGED <<opts, sig, timestamp, authentication>>
        /\ designation' = "invalid" <=> ~RightNamespace
    BY <2>0, <2>a DEF Statuses
  <2>2. designation' = "invalid" <=> Undesignated' # {}
    BY <2>1, Unmoved DEF Undesignated
  <2>3. QED
    BY <2>1, <2>2, Unmoved DEF Statuses
<1>6. CASE VerifyOK \/ VerifyBad \/ VerifyReadFails
  <2>1. /\ pc = "verify" /\ pc' = "done"
        /\ UNCHANGED <<opts, sig, timestamp, authentication, designation>>
        /\ \/ result' /\ outcome' = "ok" /\ verification' = "valid"
           \/ result' /\ outcome' = "bad" /\ verification' = "invalid"
           \/ ~result' /\ outcome' = "unread"
    BY <1>6 DEF VerifyOK, VerifyBad, VerifyReadFails, Verified, Fail
  <2>2. QED
    BY <2>1, Unmoved DEF Statuses
<1>7. QED
  BY <1>1, <1>2, <1>3, <1>4, <1>5, <1>6 DEF Next

LEMMA Inductive == Spec => []IInv
<1>1. Init => IInv
  <2> SUFFICES ASSUME Init PROVE IInv
    OBVIOUS
  <2>1. opts \in Options /\ sig \in [key : Key, ns : Namespace]
    BY CheckAssumption DEF Init, Request
  <2>2. errs = <<>> /\ Once(<<>>)
    <3>1. Once(<<>>)
      BY DEF Once
    <3>2. QED
      BY <3>1 DEF Init
  <2>3. TypeOK
    <3>1. errs \in Seq(Checks)
      BY <2>2
    <3>2. QED
      BY <2>1, <3>1 DEF Init, TypeOK, Status
  <2>4. QED
    BY <2>2, <2>3 DEF Init, IInv, AtOneInstant, Collected, Statuses
<1>2. IInv /\ [Next]_vars => IInv'
  BY Typing, InstantKept, Collecting, StatusesSet DEF IInv
<1>3. QED
  BY <1>1, <1>2, PTL DEF Spec

\* The state of one call of Check has the types that TypeOK says.
THEOREM TypeCorrect == Spec => []TypeOK
<1>1. IInv => TypeOK
  BY DEF IInv
<1>2. QED
  BY <1>1, Inductive, PTL

-----------------------------------------------------------------------------

\* A result is judged at an instant at which the signature was there, and the code's
\* comparison of the certificate with it is the stated window.
LEMMA Judged ==
    ASSUME IInv, result
    PROVE  /\ timestamp \in Instants
           /\ Fits <=> /\ Within(CertOf[sig.key], timestamp)
                       /\ CertOf[sig.key].kind = "user" =>
                            \/ CertOf[sig.key].validBefore < Half
                            \/ CertOf[sig.key].validBefore = Infinity
<1>1. timestamp \in Time /\ timestamp # NoTime /\ sig.key \in Key
  BY DEF IInv, TypeOK, AtOneInstant
<1>2. timestamp \in Instants
  BY <1>1 DEF IInv, AtOneInstant, Instants
<1>3. timestamp \in Int /\ timestamp < Half * Second /\ CertOf[sig.key] \in CertificateOf
  BY <1>1, CheckAssumption
<1>4. QED
  BY <1>2, <1>3, CertificateWindow DEF Fits

\* What no option disables has passed: the key, its certificate at an instant at which
\* the signature was there, the namespace and the data.
THEOREM OnlyCheckedIsAccepted == Spec => []OnlyCheckedAccepted
<1>1. IInv => OnlyCheckedAccepted
  <2> SUFFICES ASSUME IInv, Accepted
               PROVE  /\ outcome = "ok" /\ RightKey /\ RightNamespace
                      /\ opts.noAuthKey \/ \E t \in Instants : Within(CertOf[sig.key], t)
    BY DEF OnlyCheckedAccepted
  <2>1. result /\ Failed = {}
    <3>1. Range(<<>>) = {}
      BY DEF Range
    <3>2. QED
      BY <3>1 DEF Accepted, Failed
  <2>2. Unauthentic = {} /\ Undesignated = {} /\ Unverified = {}
    BY <2>1 DEF IInv, Collected
  <2>3. outcome = "ok" /\ RightKey /\ RightNamespace /\ (opts.noAuthKey \/ Fits)
    BY <2>2 DEF Unauthentic, Undesignated, Unverified
  <2>4. QED
    BY <2>1, <2>3, Judged
<1>2. QED
  BY <1>1, Inductive, PTL

\* No disabled check, and none that holds all the time, keeps a signature from being
\* accepted.
THEOREM CheckedIsAccepted == Spec => []CheckedAccepted
<1>1. IInv => CheckedAccepted
  <2> SUFFICES ASSUME IInv, pc = "done", outcome = "ok", RightKey, RightNamespace,
                      \/ opts.noAuthKey
                      \/ /\ \A t \in Instants : Within(CertOf[sig.key], t)
                         /\ \/ CertOf[sig.key].validBefore < Half
                            \/ CertOf[sig.key].validBefore = Infinity
               PROVE  Accepted
    BY DEF CheckedAccepted
  <2>1. result
    BY DEF IInv, Statuses
  <2>2. opts.noAuthKey \/ Fits
    BY <2>1, Judged
  <2>3. Failed = {}
    BY <2>1, <2>2 DEF IInv, Collected, Unauthentic, Undesignated, Unverified
  <2>4. errs = <<>>
    <3>1. errs \in Seq(Checks)
      BY DEF IInv, TypeOK
    <3>2. DOMAIN errs = {}
      BY <2>3 DEF Failed, Range
    <3>3. QED
      BY <3>1, <3>2
  <2>5. QED
    BY <2>1, <2>4 DEF Accepted
<1>2. QED
  BY <1>1, Inductive, PTL

\* The errors returned with a result are the checks that failed, each once, and a status
\* is invalid exactly when one of its checks is among them.
THEOREM FailuresReported == Spec => []AllFailuresReported
<1>1. IInv => AllFailuresReported
  <2> SUFFICES ASSUME IInv, pc = "done", result PROVE AllFailuresReported
    BY DEF AllFailuresReported
  <2>1. Len(errs) = Cardinality(Failed)
    <3>1. errs \in Seq(Checks) /\ Once(errs)
      BY DEF IInv, TypeOK, Collected
    <3>2. QED
      BY <3>1, Counted DEF Failed
  <2>2. Failed = Unauthentic \cup Undesignated \cup Unverified
    BY DEF IInv, Collected
  <2>3. /\ authentication = "invalid" <=> Unauthentic # {}
        /\ designation = "invalid" <=> Undesignated # {}
        /\ outcome \in {"ok", "bad"}
        /\ verification = IF outcome = "ok" THEN "valid" ELSE "invalid"
    BY DEF IInv, Statuses
  <2>4. /\ "key" \in Failed <=> ~RightKey
        /\ "certificate" \in Failed <=> ~opts.noAuthKey /\ ~Fits
        /\ "designation" \in Failed <=> ~RightNamespace
        /\ "verification" \in Failed <=> outcome = "bad"
    BY <2>2, <2>3 DEF Unauthentic, Undesignated, Unverified
  <2>5. authentication = "invalid" <=> Failed \cap {"key", "certificate"} # {}
    <3>1. Unauthentic = Failed \cap {"key", "certificate"}
      BY <2>2 DEF Unauthentic, Undesignated, Unverified
    <3>2. QED
      BY <2>3, <3>1
  <2>6. /\ designation = "invalid" <=> "designation" \in Failed
        /\ verification = "invalid" <=> "verification" \in Failed
    BY <2>3, <2>4 DEF Undesignated
  <2>7. QED
    BY <2>1, <2>4, <2>5, <2>6 DEF AllFailuresReported, Failed, Fits
<1>2. QED
  BY <1>1, Inductive, PTL
=============================================================================
