--------------------------- MODULE SignatureProofs ---------------------------
(***************************************************************************)
(* Signatures, for all keys, agents, timeouts, texts and wires.            *)
(*                                                                         *)
(* How they are made: the deadline is followed through the steps of the    *)
(* program (Deadline), and what is known of the request from the pick of a *)
(* signer on is kept with the signer itself (Chosen), since nothing takes  *)
(* it back.                                                                *)
(*                                                                         *)
(* How they are read: which texts SignatureRead accepts is settled without *)
(* any state (ReadArmored); what the reader has passed on and what is left *)
(* are always the pieces of what there was to read (ReadSoFar).            *)
(*                                                                         *)
(* What is read back is what was made (FromHere): no step of the agent's   *)
(* changes it any more (DoneStays).                                        *)
(***************************************************************************)
EXTENDS RoundTrip,
        SequenceTheorems, FiniteSetTheorems, WellFoundedInduction, TLAPS

\* There is a deadline while the program connects and lists, and then no more.
Deadline ==
    /\ pc \in {"check", "hash", "signing"} => left = NoLimit
    /\ pc = "list error" => left = 0 \/ wire = "failure"
    /\ err \in {"list", "sign"} => wire = "failure"
    /\ err # "none" => pc = "done"

Chosen ==
    /\ pc \in {"check", "hash", "signing"} => signer # NoKey
    /\ signer # NoKey => signer \in Fitting

InWindow ==
    /\ pc \in {"hash", "signing"} => checkedAt # -1
    /\ checkedAt # -1 => checkedAt <= clock /\ Within(CertOf[key], checkedAt)

Asked ==
    /\ wire \in {"sign?", "sign!"} =>
         /\ signer # NoKey /\ checkedAt # -1 /\ request.namespace = "good"
         /\ pc \in {"signing", "done"}
    /\ wire = "sign!" => format \in Format
    /\ wire = "sign!" /\ request.obeys # "any" =>
         /\ format = IF Obeyed(signer) THEN Algorithm ELSE TypeOf[signer]
         /\ trail = IF TypeOf[signer] = SK THEN "fields" ELSE "none"
    /\ pc = "signing" => wire \in {"sign?", "sign!"}

Judged ==
    /\ err = "algorithm" => wire = "sign!" /\ ~ValidateSignatureAlgorithm(TypeOf[key], format)
    /\ pc = "done" /\ err = "none" =>
         wire = "sign!" /\ ValidateSignatureAlgorithm(TypeOf[key], format)

IInv == TypeOK /\ Deadline /\ Chosen /\ InWindow /\ Asked /\ Judged

-----------------------------------------------------------------------------

LEMMA KeyFacts ==
    ASSUME request \in Request
    PROVE  /\ key \in Key /\ CertOf[key] \in CertificateOf
           /\ TypeOf[key] \in KeyType /\ PlainOf[key] \in Key
           /\ \A k \in Key : TypeOf[k] \in KeyType /\ PlainOf[k] \in Key /\ k # NoKey
           /\ held \in SUBSET Key
           /\ Fitting \subseteq Key /\ Fitting \subseteq held
BY SignAssumption DEF Request, key, held, Fitting

\* An agent that selects or ignores an algorithm makes a signature of the key's.
LEMMA AlgorithmFacts ==
    ASSUME request \in Request
    PROVE  /\ Algorithm = IF TypeOf[key] = RSA THEN SHA512 ELSE TypeOf[key]
           /\ Algorithm \in Format
           /\ \A k \in Key : TypeOf[k] \in Format
           /\ \A k \in Fitting : TypeOf[k] = TypeOf[key] /\ PlainOf[k] = PlainOf[key]
<1>1. \A k \in Fitting : TypeOf[k] = TypeOf[key] /\ PlainOf[k] = PlainOf[key]
  BY KeyFacts, SignAssumption DEF Fitting
<1>2. QED
  BY <1>1, KeyFacts DEF Algorithm, PlainRSA, RSACertificate, Format

LEMMA Bounds == EndTime \in Nat /\ Timeout \in Nat /\ Timeout > 0 /\ EndTime < Half * Second
BY SignAssumption

\* Only these steps change what is measured in time.
LEMMA TickTimes ==
    ASSUME TypeOK, Tick
    PROVE  /\ clock' \in 0..EndTime /\ left' \in 0..Timeout \cup {NoLimit}
           /\ clock <= clock'
           /\ left = NoLimit => left' = NoLimit
           /\ left = 0 => left' = 0
<1>1. clock \in 0..EndTime /\ (left \in 0..Timeout \/ left = -1)
  BY DEF TypeOK, NoLimit
<1>2. /\ left' = IF left > 0 THEN left - 1 ELSE left
      /\ clock' = IF clock < EndTime THEN clock + 1 ELSE clock
  BY DEF Tick
<1>3. EndTime \in Nat /\ Timeout \in Nat
  BY Bounds
<1>4. clock' \in 0..EndTime /\ clock <= clock'
  BY <1>1, <1>2, <1>3
<1>5. /\ left' \in 0..Timeout \/ left' = -1
      /\ left = -1 => left' = -1
      /\ left = 0 => left' = 0
  BY <1>1, <1>2, <1>3
<1>6. QED
  BY <1>4, <1>5 DEF NoLimit

LEMMA TickTyped ==
    ASSUME TypeOK, Tick
    PROVE  TypeOK'
<1>1. clock' \in 0..EndTime /\ left' \in 0..Timeout \cup {NoLimit}
  BY TickTimes
<1>2. UNCHANGED <<request, wire, signer, checkedAt, format, trail, err, pc>>
  BY DEF Tick
<1>3. request' \in Request /\ signer' \in Key \cup {NoKey} /\ checkedAt' \in -1..EndTime
  BY <1>2, Zenon DEF TypeOK
<1>4. QED
  BY <1>1, <1>2, <1>3 DEF TypeOK

LEMMA StutterTyped ==
    ASSUME TypeOK, UNCHANGED vars
    PROVE  TypeOK'
<1>1. UNCHANGED <<request, clock, left, wire, signer, checkedAt, format, trail, err, pc>>
  BY DEF vars
<1>2. request' \in Request /\ signer' \in Key \cup {NoKey}
  BY <1>1 DEF TypeOK
<1>3. clock' \in 0..EndTime /\ left' \in 0..Timeout \cup {NoLimit} /\ checkedAt' \in -1..EndTime
  BY <1>1, Zenon DEF TypeOK
<1>4. QED
  BY <1>1, <1>2, <1>3 DEF TypeOK

LEMMA Numbers ==
    ASSUME TypeOK
    PROVE  /\ clock \in Int /\ clock <= clock /\ clock < Half * Second
           /\ clock \in -1..EndTime /\ clock # -1
           /\ checkedAt \in Int
           /\ Timeout \in 0..Timeout
<1>1. clock \in 0..EndTime /\ checkedAt \in -1..EndTime
  BY DEF TypeOK
<1>2. Half * Second \in Int
  BY WordAssumption
<1>3. QED
  BY <1>1, <1>2, Bounds

LEMMA Typing ==
    ASSUME IInv, [Next]_vars
    PROVE  TypeOK'
<1> USE DEF IInv, TypeOK
<1>0. NoLimit \in 0..Timeout \cup {NoLimit} /\ Timeout \in 0..Timeout
  BY Numbers
<1>1. CASE Tick
  BY <1>1, TickTyped
<1>2. CASE Connected
  BY <1>0, <1>2 DEF Connected
<1>3. CASE TimesOut
  BY <1>3 DEF TimesOut, IOFails, Fail
<1>4. CASE AgentFails
  BY <1>4 DEF AgentFails, IOFails, Fail
<1>5. CASE AgentLists
  BY <1>5 DEF AgentLists
<1>6. CASE AgentSigns
  <2>1. signer \in Key
    BY <1>6 DEF AgentSigns, Asked
  <2>2. format' \in Format
    BY <1>6, <2>1, AlgorithmFacts DEF AgentSigns
  <2>3. trail' \in Rest
    BY <1>6 DEF AgentSigns, Rest
  <2>4. QED
    BY <1>6, <2>2, <2>3 DEF AgentSigns
<1>7. CASE SetDeadlineFails \/ List
  BY <1>0, <1>7 DEF SetDeadlineFails, List, Fail
<1>8. CASE ListFails \/ Listed
  BY <1>0, <1>8 DEF ListFails, Listed, Fail
<1>9. CASE Pick
  <2>1. signer' \in Key
    BY <1>9, KeyFacts DEF Pick
  <2>2. QED
    BY <1>0, <1>9, <2>1 DEF Pick
<1>10. CASE NoKeyFits
  BY <1>0, <1>10 DEF NoKeyFits, Fail
<1>11. CASE CertificateFits \/ CertificateRefused
  <2>1. checkedAt' \in -1..EndTime
    BY <1>11, Numbers DEF CertificateFits, CertificateRefused
  <2>2. QED
    BY <1>11, <2>1 DEF CertificateFits, CertificateRefused, Fail
<1>12. CASE NamespaceRefused \/ HashFails \/ Ask
  BY <1>12 DEF NamespaceRefused, HashFails, Ask, Fail
<1>13. CASE Created \/ AlgorithmRefused
  BY <1>13 DEF Created, AlgorithmRefused, Fail
<1> HIDE DEF IInv, TypeOK
<1>14. CASE UNCHANGED vars
  <2>1. TypeOK
    BY DEF IInv
  <2>2. QED
    BY <1>14, <2>1, StutterTyped
<1>15. QED
  BY <1>1, <1>2, <1>3, <1>4, <1>5, <1>6, <1>7, <1>8, <1>9, <1>10, <1>11, <1>12, <1>13, <1>14
  DEF Next, Agent, Data, Program

LEMMA DeadlineKept ==
    ASSUME IInv, [Next]_vars
    PROVE  Deadline'
<1> USE DEF IInv, Deadline
<1>1. CASE Tick
  BY <1>1, TickTimes DEF Tick
<1>2. CASE TimesOut \/ AgentFails
  <2>1. CASE pc = "signing"
    <3>1. left # 0
      BY <2>1 DEF NoLimit
    <3>2. QED
      BY <1>2, <2>1, <3>1 DEF TimesOut, AgentFails, IOFails, Fail
  <2>2. CASE pc # "signing"
    BY <1>2, <2>2 DEF TimesOut, AgentFails, IOFails, Fail
  <2>3. QED
    BY <2>1, <2>2
<1>3. CASE Connected \/ AgentLists \/ AgentSigns
  BY <1>3 DEF Connected, AgentLists, AgentSigns
<1>4. CASE SetDeadlineFails \/ List \/ ListFails \/ Listed
  BY <1>4 DEF SetDeadlineFails, List, ListFails, Listed, Fail
<1>5. CASE Pick \/ NoKeyFits
  BY <1>5 DEF Pick, NoKeyFits, Fail
<1>6. CASE CertificateFits \/ CertificateRefused \/ NamespaceRefused \/ HashFails \/ Ask
  BY <1>6 DEF CertificateFits, CertificateRefused, NamespaceRefused, HashFails, Ask, Fail
<1>7. CASE Created \/ AlgorithmRefused
  BY <1>7 DEF Created, AlgorithmRefused, Fail
<1>8. CASE UNCHANGED vars
  BY <1>8 DEF vars
<1>9. QED
  BY <1>1, <1>2, <1>3, <1>4, <1>5, <1>6, <1>7, <1>8 DEF Next, Agent, Data, Program

\* The request never changes, and a signer is picked once.
LEMMA ChosenKept ==
    ASSUME IInv, [Next]_vars
    PROVE  Chosen' /\ key' = key /\ Fitting' = Fitting
<1> USE DEF IInv, TypeOK, Chosen
<1>1. request' = request
  BY DEF Next, Agent, Data, Program, Tick, TimesOut, AgentFails, IOFails, Connected, AgentLists,
         AgentSigns, SetDeadlineFails, List, ListFails, Listed, Pick, NoKeyFits, CertificateFits,
         CertificateRefused, NamespaceRefused, HashFails, Ask, Created, AlgorithmRefused, vars
<1>2. key' = key /\ Fitting' = Fitting
  BY <1>1 DEF key, held, Fitting, RSACertificate
<1>3. CASE Pick
  BY <1>2, <1>3, KeyFacts DEF Pick
<1>4. CASE ~Pick
  BY <1>2, <1>4
  DEF Next, Agent, Data, Program, Tick, TimesOut, AgentFails, IOFails, Fail, Connected, AgentLists,
      AgentSigns, SetDeadlineFails, List, ListFails, Listed, NoKeyFits, CertificateFits,
      CertificateRefused, NamespaceRefused, HashFails, Ask, Created, AlgorithmRefused, vars
<1>5. QED
  BY <1>2, <1>3, <1>4

LEMMA WindowKept ==
    ASSUME IInv, [Next]_vars
    PROVE  InWindow'
<1>1. TypeOK /\ InWindow /\ key' = key
  BY ChosenKept DEF IInv
<1>2. CASE Tick
  <2>1. clock <= clock' /\ clock \in Int /\ clock' \in Int /\ checkedAt \in Int
    <3>1. clock' \in 0..EndTime
      BY <1>1, <1>2, TickTimes
    <3>2. clock' \in Int
      BY <3>1, Bounds
    <3>3. QED
      BY <1>1, <1>2, <3>2, TickTimes, Numbers
  <2>2. checkedAt <= clock => checkedAt <= clock'
    BY <2>1
  <2>3. QED
    BY <1>1, <1>2, <2>2 DEF Tick, InWindow
<1>3. CASE CertificateFits
  <2>1. Within(CertOf[key], clock)
    <3>1. clock \in Int /\ clock < Half * Second
      BY <1>1, Numbers
    <3>2. CertOf[key] \in CertificateOf
      BY <1>1, KeyFacts DEF TypeOK
    <3>3. QED
      BY <1>3, <3>1, <3>2, CertificateWindow DEF CertificateFits
  <2>2. checkedAt' = clock /\ clock' = clock
    BY <1>3 DEF CertificateFits
  <2>3. clock <= clock
    <3>1. clock \in Int
      BY <1>1, Numbers
    <3>2. QED
      BY <3>1
  <2>4. checkedAt' # -1
    BY <1>1, <2>2, Numbers
  <2>5. checkedAt' <= clock'
    BY <2>2, <2>3
  <2>6. Within(CertOf[key'], checkedAt')
    BY <1>1, <2>1, <2>2
  <2>7. QED
    BY <2>4, <2>5, <2>6 DEF InWindow
<1>4. CASE ~Tick /\ ~CertificateFits
  BY <1>1, <1>4
  DEF InWindow, Next, Agent, Data, Program, TimesOut, AgentFails, IOFails, Fail, Connected, AgentLists,
      AgentSigns, SetDeadlineFails, List, ListFails, Listed, Pick, NoKeyFits,
      CertificateRefused, NamespaceRefused, HashFails, Ask, Created, AlgorithmRefused, vars
<1>5. QED
  BY <1>2, <1>3, <1>4

LEMMA AskedKept ==
    ASSUME IInv, [Next]_vars
    PROVE  Asked'
<1> USE DEF IInv, TypeOK, Asked
<1>1. /\ request' = request
      /\ Algorithm' = Algorithm /\ \A k : Obeyed(k)' <=> Obeyed(k)
  <2>1. request' = request
    BY DEF Next, Agent, Data, Program, Tick, TimesOut, AgentFails, IOFails, Connected, AgentLists,
           AgentSigns, SetDeadlineFails, List, ListFails, Listed, Pick, NoKeyFits, CertificateFits,
           CertificateRefused, NamespaceRefused, HashFails, Ask, Created, AlgorithmRefused, vars
  <2>2. QED
    BY <2>1 DEF Algorithm, PlainRSA, RSACertificate, key, Obeyed
<1>2. CASE Ask
  BY <1>1, <1>2 DEF Ask, Chosen, InWindow
<1>3. CASE AgentSigns
  <2>1. format' \in Format
    BY <1>3, AlgorithmFacts, KeyFacts DEF AgentSigns
  <2>2. QED
    BY <1>1, <1>3, <2>1 DEF AgentSigns
<1>4. CASE Pick \/ CertificateFits
  BY <1>1, <1>4 DEF Pick, CertificateFits
<1>5. CASE TimesOut \/ AgentFails \/ AgentLists
  BY <1>1, <1>5 DEF TimesOut, AgentFails, IOFails, Fail, AgentLists
<1>6. CASE Tick \/ Connected \/ SetDeadlineFails \/ List \/ ListFails \/ Listed \/ NoKeyFits
  BY <1>1, <1>6 DEF Tick, Connected, SetDeadlineFails, List, ListFails, Listed, NoKeyFits, Fail
<1>7. CASE CertificateRefused \/ NamespaceRefused \/ HashFails \/ Created \/ AlgorithmRefused
  BY <1>1, <1>7 DEF CertificateRefused, NamespaceRefused, HashFails, Created, AlgorithmRefused, Fail
<1>8. CASE UNCHANGED vars
  BY <1>1, <1>8 DEF vars
<1>9. QED
  BY <1>2, <1>3, <1>4, <1>5, <1>6, <1>7, <1>8 DEF Next, Agent, Data, Program

LEMMA JudgedKept ==
    ASSUME IInv, [Next]_vars
    PROVE  Judged'
<1> USE DEF IInv, TypeOK, Judged
<1>1. key' = key
  BY ChosenKept
<1>2. CASE Created \/ AlgorithmRefused
  BY <1>1, <1>2 DEF Created, AlgorithmRefused, Fail
<1>3. CASE TimesOut \/ AgentFails
  BY <1>1, <1>3 DEF TimesOut, AgentFails, IOFails, Fail, Deadline
<1>4. CASE AgentLists \/ AgentSigns
  BY <1>1, <1>4 DEF AgentLists, AgentSigns
<1>5. CASE Tick \/ Connected \/ SetDeadlineFails \/ List \/ ListFails \/ Listed \/ Pick \/ NoKeyFits
  BY <1>1, <1>5
  DEF Tick, Connected, SetDeadlineFails, List, ListFails, Listed, Pick, NoKeyFits, Fail, Deadline
<1>6. CASE CertificateFits \/ CertificateRefused \/ NamespaceRefused \/ HashFails \/ Ask
  BY <1>1, <1>6
  DEF CertificateFits, CertificateRefused, NamespaceRefused, HashFails, Ask, Fail, Deadline
<1>7. CASE UNCHANGED vars
  BY <1>1, <1>7 DEF vars
<1>8. QED
  BY <1>2, <1>3, <1>4, <1>5, <1>6, <1>7 DEF Next, Agent, Data, Program

LEMMA SigningStarts == Init => IInv
BY SignAssumption
DEF Init, IInv, TypeOK, Deadline, Chosen, InWindow, Asked, Judged, NoLimit, Rest

LEMMA SigningGoesOn == IInv /\ [Next]_vars => IInv'
BY Typing, DeadlineKept, ChosenKept, WindowKept, AskedKept, JudgedKept DEF IInv

\* A set of numbers has a least one.
LEMMA LeastOf ==
    ASSUME NEW S \in SUBSET Nat, S # {}
    PROVE  \E k \in S : \A m \in S : k <= m
<1>1. PICK k \in S : \A m \in S : ~ (<<m, k>> \in OpToRel(<, Nat))
  BY WFMin, NatLessThanWellFounded, Zenon
<1>2. \A m \in S : ~(m < k)
  BY <1>1 DEF OpToRel
<1>3. QED
  BY <1>2

\* If there is a block, Decode has one.
LEMMA DecodeFacts ==
    ASSUME NEW t \in Seq(Token), Blocks(t) # {}
    PROVE  /\ Decode(t)[1] \in DOMAIN t /\ Decode(t)[2] \in DOMAIN t
           /\ IsBlock(t, Decode(t)[1], Decode(t)[2])
<1> DEFINE S == {q[1] : q \in Blocks(t)}
<1>1. S \in SUBSET Nat /\ S # {}
  BY DEF Blocks
<1>2. PICK k \in S : \A m \in S : k <= m
  BY <1>1, LeastOf
<1>3. PICK p \in Blocks(t) : p[1] = k
  BY <1>2
<1>4. \A q \in Blocks(t) : p[1] <= q[1]
  BY <1>2, <1>3
<1>5. Decode(t) \in Blocks(t)
  BY <1>3, <1>4 DEF Decode
<1>6. QED
  BY <1>5 DEF Blocks

\* One armored block, with one payload and blanks around it, at lines 1, p and e.
Armored(t, p, e) ==
    /\ t[1] = "begin" /\ t[p] = "body" /\ t[e] = "end" /\ p < e /\ t[e - 1] # "sp"
    /\ \A x \in DOMAIN t \ {1, p, e} : t[x] \in Blank

\* Such a text has one block only.
LEMMA ArmoredDecodes ==
    ASSUME NEW t \in Seq(Token), NEW p \in DOMAIN t, NEW e \in DOMAIN t, Armored(t, p, e)
    PROVE  /\ p > 1 /\ Blocks(t) = {<<1, e>>} /\ Decode(t) = <<1, e>>
           /\ Payload(t) = 1
           /\ t[2] # "header"
           /\ \A x \in 2..e : t[x] \notin Opening
           /\ \A x \in e + 1..Len(t) : t[x] \in Blank
<1>1. /\ p \in Nat /\ e \in Nat /\ 1 < p /\ p < e /\ e <= Len(t) /\ Len(t) \in Nat
      /\ DOMAIN t = 1..Len(t)
  BY DEF Armored
<1>2. /\ \A x \in DOMAIN t : x # 1 => t[x] \notin Opening
      /\ \A x \in DOMAIN t : x # e => t[x] # "end"
      /\ \A x \in 2..e - 1 : t[x] \in {"body"} \cup Blank
      /\ \A x \in e + 1..Len(t) : t[x] \in Blank
      /\ \A x \in DOMAIN t : t[x] = "body" <=> x = p
  BY <1>1 DEF Armored, Opening, Blank
<1>3. IsBlock(t, 1, e)
  <2>1. 1 \in 1..e - 1 /\ \A x \in 1 + 1..1 : t[x] = "header"
    BY <1>1
  <2>2. \A x \in 1 + 1..e - 1 : t[x] \in {"body"} \cup Blank
    BY <1>1, <1>2
  <2>3. 1 < e /\ t[1] \in Opening /\ t[e] = ClosingOf(t[1]) /\ t[e - 1] # "sp"
    BY <1>1 DEF Armored, ClosingOf, Opening
  <2>4. QED
    BY <2>1, <2>2, <2>3 DEF IsBlock
<1>4. ASSUME NEW b \in DOMAIN t, NEW x \in DOMAIN t, IsBlock(t, b, x)
      PROVE  b = 1 /\ x = e
  <2>1. b = 1
    BY <1>2, <1>4 DEF IsBlock
  <2>2. t[x] = "end"
    BY <2>1, <1>4 DEF IsBlock, ClosingOf, Armored
  <2>3. QED
    BY <1>2, <2>1, <2>2
<1>5. Blocks(t) = {<<1, e>>}
  <2>1. 1 \in DOMAIN t /\ e \in DOMAIN t
    BY <1>1
  <2>2. ASSUME NEW q \in Blocks(t) PROVE q = <<1, e>>
    BY <1>4 DEF Blocks
  <2>3. <<1, e>> \in Blocks(t)
    BY <2>1, <1>3 DEF Blocks
  <2>4. QED
    BY <2>2, <2>3
<1>6. Decode(t) = <<1, e>>
  <2>1. \A q \in Blocks(t) : <<1, e>>[1] <= q[1]
    BY <1>5
  <2>2. QED
    BY <1>5, <2>1 DEF Decode
<1>7. Payload(t) = 1
  <2>1. {x \in 1..e : t[x] = "body"} = {p}
    BY <1>1, <1>2
  <2>2. Decode(t)[1] = 1 /\ Decode(t)[2] = e
    BY <1>6
  <2>3. Payload(t) = Cardinality({p})
    BY <2>1, <2>2 DEF Payload
  <2>4. QED
    BY <2>3, FS_Singleton
<1>8. t[2] # "header"
  <2>1. 2 \in 2..e - 1
    BY <1>1
  <2>2. QED
    BY <2>1, <1>2 DEF Blank
<1>9. \A x \in 2..e : t[x] \notin Opening
  BY <1>1, <1>2
<1>10. QED
  BY <1>1, <1>2, <1>5, <1>6, <1>7, <1>8, <1>9

\* SignatureRead accepts exactly such texts, in spite of all that pem.Decode skips.
LEMMA ReadArmored ==
    ASSUME NEW t \in Seq(Token), NEW w \in Wire
    PROVE  SignatureRead(t, w)
             <=> /\ Len(t) <= MaxSize
                 /\ \E e \in DOMAIN t, p \in DOMAIN t : Armored(t, p, e)
                 /\ ParseSignature(w) /\ ValidateSignatureAlgorithm(w.type, w.format)
<1>1. ASSUME NEW e \in DOMAIN t, NEW p \in DOMAIN t, Armored(t, p, e), Len(t) <= MaxSize
      PROVE  Unarmors(t) /\ Payload(t) = 1
  <2>1. /\ Decode(t) = <<1, e>> /\ Blocks(t) # {} /\ Payload(t) = 1
        /\ t[2] # "header"
        /\ \A x \in 2..e : t[x] \notin Opening
        /\ \A x \in e + 1..Len(t) : t[x] \in Blank
    BY <1>1, ArmoredDecodes
  <2>2. t[1] = "begin" /\ t # <<>> /\ t[1] \in Opening
    BY <1>1 DEF Armored, Opening
  <2>3. Decode(t)[1] = 1 /\ Decode(t)[2] = e
    BY <2>1
  <2>4. QED
    BY <2>1, <2>2, <2>3, <1>1 DEF Unarmors
<1>2. ASSUME Unarmors(t), Payload(t) = 1
      PROVE  \E e \in DOMAIN t, p \in DOMAIN t : Armored(t, p, e)
  <2> DEFINE b == Decode(t)[1]
             e == Decode(t)[2]
  <2>1. /\ b \in DOMAIN t /\ e \in DOMAIN t /\ IsBlock(t, b, e)
        /\ \A x \in 2..e : t[x] \notin Opening
        /\ t[b] = "begin" /\ t[b + 1] # "header"
        /\ \A x \in e + 1..Len(t) : t[x] \in Blank
    BY <1>2, DecodeFacts DEF Unarmors
  <2>2. {x \in b..e : t[x] = "body"} # {} /\ \E p : {x \in b..e : t[x] = "body"} = {p}
    <3>1. IsFiniteSet(b..e)
      BY <2>1, FS_Interval
    <3>2. IsFiniteSet({x \in b..e : t[x] = "body"})
      BY <3>1, FS_Subset
    <3>3. QED
      BY <3>2, <1>2, FS_Singleton DEF Payload
  <2>3. PICK p : {x \in b..e : t[x] = "body"} = {p}
    BY <2>2
  <2> HIDE DEF b, e
  <2>4. b \in 1..Len(t) /\ e \in 1..Len(t) /\ b < e /\ b = 1
    BY <2>1 DEF IsBlock, Opening
  <2>5. p \in 1..e /\ t[p] = "body" /\ \A x \in 1..e : t[x] = "body" => x = p
    BY <2>3, <2>4
  <2>6. t[e] = "end" /\ t[e - 1] # "sp"
    BY <2>1 DEF IsBlock, ClosingOf
  <2>7. \A x \in 2..e - 1 : t[x] \in {"body"} \cup Blank
    <3>1. PICK h \in b..e - 1 :
            /\ \A x \in b + 1..h : t[x] = "header"
            /\ \A x \in h + 1..e - 1 : t[x] \in {"body"} \cup Blank
      BY <2>1 DEF IsBlock
    <3>2. h = 1
      BY <3>1, <2>1, <2>4
    <3>3. QED
      BY <3>1, <3>2
  <2>8. Armored(t, p, e)
    <3>1. p < e
      BY <2>4, <2>5, <2>6
    <3>2. ASSUME NEW x \in DOMAIN t \ {1, p, e} PROVE t[x] \in Blank
      BY <2>1, <2>4, <2>5, <2>7
    <3>3. QED
      BY <2>1, <2>4, <2>5, <2>6, <3>1, <3>2 DEF Armored
  <2>9. QED
    BY <2>4, <2>5, <2>8
<1>3. Unarmors(t) => Len(t) <= MaxSize
  BY DEF Unarmors
<1>4. QED
  BY <1>1, <1>2, <1>3 DEF SignatureRead

\* The armor that is written is such a text.
LEMMA ArmorReads ==
    ASSUME NEW w \in Wire
    PROVE  SignatureRead(Armor, w)
             <=> ParseSignature(w) /\ ValidateSignatureAlgorithm(w.type, w.format)
<1>1. Armor \in Seq(Token) /\ Len(Armor) = 3 /\ DOMAIN Armor = 1..3
  BY DEF Armor, Token, Opening
<1>2. Armored(Armor, 2, 3)
  BY <1>1 DEF Armor, Armored
<1>3. Len(Armor) <= MaxSize
  BY <1>1, FormatAssumption
<1>4. \E e \in DOMAIN Armor, p \in DOMAIN Armor : Armored(Armor, p, e)
  BY <1>1, <1>2
<1>5. QED
  BY <1>1, <1>3, <1>4, ReadArmored, Zenon

\* The blanks that a text starts with.
LEMMA LeadingFacts ==
    ASSUME NEW t \in Seq(Token)
    PROVE  /\ Leading(t) \in 0..Len(t)
           /\ \A x \in 1..Leading(t) : t[x] \in Blank
           /\ Leading(t) < Len(t) => t[Leading(t) + 1] \notin Blank
           /\ \A m \in 0..Len(t) :
                (\A x \in 1..m : t[x] \in Blank) /\ m < Len(t) /\ t[m + 1] \notin Blank
                  => m = Leading(t)
<1> DEFINE S == {k \in 1..Len(t) + 1 : k <= Len(t) => t[k] \notin Blank}
<1>1. S \in SUBSET Nat /\ Len(t) + 1 \in S /\ Len(t) \in Nat
  OBVIOUS
<1>2. PICK k \in S : \A m \in S : k <= m
  BY <1>1, LeastOf
<1>3. k - 1 \in 0..Len(t) /\ (k - 1 < Len(t) => t[(k - 1) + 1] \notin Blank)
  BY <1>2
<1>4. \A x \in 1..k - 1 : t[x] \in Blank
  BY <1>2
<1>5. \E m \in 0..Len(t) :
        /\ \A x \in 1..m : t[x] \in Blank
        /\ m < Len(t) => t[m + 1] \notin Blank
  BY <1>3, <1>4
<1>6. /\ Leading(t) \in 0..Len(t)
      /\ \A x \in 1..Leading(t) : t[x] \in Blank
      /\ Leading(t) < Len(t) => t[Leading(t) + 1] \notin Blank
  BY <1>5 DEF Leading
<1>7. ASSUME NEW m \in 0..Len(t), \A x \in 1..m : t[x] \in Blank, m < Len(t), t[m + 1] \notin Blank
      PROVE  m = Leading(t)
  BY <1>6, <1>7
<1>8. QED
  BY <1>6, <1>7

-----------------------------------------------------------------------------
\* What there is to read: all but the leading blanks of standard input.
Given == IF via = "stdin" THEN SubSeq(text, Leading(text) + 1, Len(text)) ELSE text

\* The first Read from standard input does not refuse it.
Fillable ==
    /\ Len(text) <= MaxSize
    /\ \/ Leading(text) = Len(text)
       \/ Leading(text) <= MaxBlank /\ (Leading(text) > 0 => text[Leading(text)] = "nl")

FormatOK ==
    /\ via \in {"stdin", "file", "built"} /\ text \in Seq(Token) /\ sig \in Wire
    /\ via = "built" => sig.magic /\ ~sig.trailing
    /\ filled \in BOOLEAN
    /\ rest \in Seq(Token) /\ data \in Seq(Token) /\ Len(data) <= MaxSize + 1
    /\ phase \in {"read", "verify", "failed", "refused",
                  "accepted", "verified", "unverified", "message unread"}

\* Nothing is lost, repeated or reordered between the source and SignatureRead.
ReadSoFar ==
    IF via = "stdin" /\ ~filled
    THEN data = <<>> /\ rest = text /\ phase \in {"read", "failed", "refused"}
    ELSE data \o rest = Given /\ (via = "stdin" => Fillable)

Concluded ==
    /\ Accepted => SignatureRead(Given, sig)
    /\ phase = "refused" => IF via = "stdin" /\ ~filled THEN ~Fillable ELSE ~SignatureRead(Given, sig)
    /\ via = "built" <=> phase \in {"verify", "verified", "unverified", "message unread"} /\ ~Accepted
    /\ phase = "verified" => Verifiable(sig) /\ KeyVerifies(sig)
    /\ phase = "unverified" => ~(Verifiable(sig) /\ KeyVerifies(sig))

FormatIInv == FormatOK /\ ReadSoFar /\ Concluded

\* Of its own armor, all is given.
LEMMA ArmorGiven == text = Armor => Given = Armor /\ Fillable
<1> SUFFICES ASSUME text = Armor PROVE Given = Armor /\ Fillable
  OBVIOUS
<1>1. Armor \in Seq(Token) /\ Len(Armor) = 3 /\ Armor[1] = "begin" /\ Armor[1] \notin Blank
  BY DEF Armor, Token, Opening, Blank
<1>2. Leading(Armor) = 0
  <2>1. 0 \in 0..Len(Armor) /\ (\A x \in 1..0 : Armor[x] \in Blank) /\ 0 < Len(Armor)
    BY <1>1
  <2>2. Armor[0 + 1] \notin Blank
    BY <1>1
  <2>3. QED
    BY <1>1, <2>1, <2>2, LeadingFacts
<1>3. SubSeq(Armor, 1, Len(Armor)) = Armor
  BY <1>1, SubSeqFull
<1>4. Given = Armor
  BY <1>2, <1>3 DEF Given
<1>5. Fillable
  BY <1>1, <1>2, FormatAssumption DEF Fillable
<1>6. QED
  BY <1>4, <1>5

LEMMA Regroup ==
    ASSUME NEW x \in Seq(Token), NEW y \in Seq(Token), NEW z \in Seq(Token)
    PROVE  (x \o y) \o z = x \o (y \o z)
BY ConcatAssociative

\* A call of Read moves a piece of what is left.
LEMMA TakeFacts ==
    ASSUME FormatOK, NEW from \in Seq(Token), Take(from)
    PROVE  /\ data' \in Seq(Token) /\ rest' \in Seq(Token) /\ Len(data') <= MaxSize + 1
           /\ data' \o rest' = data \o from
<1>1. PICK n \in 1..Len(from) :
        /\ n <= Room
        /\ data' = data \o SubSeq(from, 1, n)
        /\ rest' = SubSeq(from, n + 1, Len(from))
  BY DEF Take
<1>2. MaxSize \in Nat /\ Len(from) \in Nat /\ n \in Nat /\ n <= Len(from) /\ 1 <= n
  BY FormatAssumption
<1> DEFINE a == SubSeq(from, 1, n)
           b == SubSeq(from, n + 1, Len(from))
<1>3. a \in Seq(Token) /\ b \in Seq(Token) /\ Len(a) = n
  <2>1. \A x \in 1..n : from[x] \in Token
    BY <1>2
  <2>2. \A x \in n + 1..Len(from) : from[x] \in Token
    BY <1>2
  <2>3. a \in Seq(Token) /\ Len(a) = n
    BY <2>1, <1>2, SubSeqProperties
  <2>4. b \in Seq(Token)
    BY <2>2, <1>2, SubSeqProperties
  <2>5. QED
    BY <2>3, <2>4
<1>4. a \o b = from
  <2>1. SubSeq(from, 1, n) \o SubSeq(from, n + 1, Len(from)) = SubSeq(from, 1, Len(from))
    BY <1>2, ConcatAdjacentSubSeq
  <2>2. QED
    BY <2>1, SubSeqFull
<1> HIDE DEF a, b
<1>5. data' = data \o a /\ rest' = b
  BY <1>1 DEF a, b
<1>6. data \in Seq(Token)
  BY Zenon DEF FormatOK
<1>7. (data \o a) \o b = data \o (a \o b)
  BY <1>3, <1>6, Regroup
<1>8. data \o a \in Seq(Token) /\ Len(data \o a) = Len(data) + n /\ Len(data) \in Nat
  BY <1>3, <1>6, ConcatProperties, LenProperties
<1>9. Len(data \o a) <= MaxSize + 1
  BY <1>1, <1>2, <1>8 DEF Room
<1>10. QED
  BY <1>3, <1>4, <1>5, <1>7, <1>8, <1>9

\* Nothing has been read yet.
Unread ==
    /\ via \in {"stdin", "file", "built"} /\ text \in Seq(Token) /\ sig \in Wire
    /\ via = "built" => sig.magic /\ ~sig.trailing
    /\ rest = text /\ data = <<>> /\ filled = FALSE
    /\ phase = IF via = "built" THEN "verify" ELSE "read"

LEMMA UnreadFits == Unread => FormatIInv
<1> SUFFICES ASSUME Unread PROVE FormatIInv
  OBVIOUS
<1> USE DEF Unread
<1>1. <<>> \in Seq(Token) /\ Len(<<>>) = 0 /\ MaxSize \in Nat
  BY EmptySeq, FormatAssumption
<1>2. FormatOK
  <2>1. filled \in BOOLEAN /\ phase \in {"read", "verify"}
    OBVIOUS
  <2>2. rest \in Seq(Token) /\ data \in Seq(Token) /\ Len(data) <= MaxSize + 1
    BY <1>1
  <2>3. QED
    BY <2>1, <2>2 DEF FormatOK
<1>3. <<>> \o text = text
  BY ConcatEmptySeq
<1>4. ReadSoFar
  BY <1>3 DEF ReadSoFar, Given
<1>5. Concluded
  BY DEF Concluded, Accepted
<1>6. QED
  BY <1>2, <1>4, <1>5 DEF FormatIInv

LEMMA InitUnread == FormatInit => Unread
<1> SUFFICES ASSUME FormatInit PROVE Unread
  OBVIOUS
<1>1. PICK i \in Inputs : via = i.via /\ text \in i.texts /\ sig \in i.wires
  BY DEF FormatInit
<1>2. /\ via \in {"stdin", "file", "built"} /\ text \in Seq(Token) /\ sig \in Wire
      /\ via = "built" => sig.magic /\ ~sig.trailing
  BY <1>1, FormatAssumption
<1>3. rest = text /\ data = <<>> /\ filled = FALSE /\ phase = IF via = "built" THEN "verify" ELSE "read"
  BY DEF FormatInit
<1>4. QED
  BY <1>2, <1>3 DEF Unread

\* As long as the text is read, nothing is concluded.
LEMMA StillReading ==
    ASSUME FormatIInv, phase = "read", phase' = "read", UNCHANGED <<via, text, sig>>
    PROVE  Concluded'
BY DEF FormatIInv, Concluded, Accepted

LEMMA FillStep == ASSUME FormatIInv, Fill PROVE FormatIInv'
<1>1. /\ phase = "read" /\ via = "stdin" /\ ~filled /\ filled' = TRUE
      /\ data = <<>> /\ rest = text /\ text \in Seq(Token) /\ Len(text) <= MaxSize
      /\ FormatOK
  BY DEF Fill, Filling, FormatIInv, ReadSoFar, FormatOK
<1>2. phase' = "read" /\ UNCHANGED <<via, text, sig>>
  BY DEF Fill, Take, To
<1>3. Leading(text) \in 0..Len(text) /\ Len(text) \in Nat
  BY <1>1, LeadingFacts
<1> DEFINE given == SubSeq(text, Leading(text) + 1, Len(text))
<1>4. given \in Seq(Token)
  <2>1. \A x \in Leading(text) + 1..Len(text) : text[x] \in Token
    BY <1>1, <1>3
  <2>2. QED
    BY <2>1, <1>3, SubSeqProperties
<1>5. Given' = given
  BY <1>1, <1>2 DEF Given
<1>6. /\ data' \in Seq(Token) /\ rest' \in Seq(Token) /\ Len(data') <= MaxSize + 1
      /\ data' \o rest' = given
      /\ Fillable'
  <2>1. CASE Lead = Len(rest) /\ rest' = <<>> /\ UNCHANGED data
    <3>1. given = <<>>
      BY <1>1, <1>3, <2>1, SubSeqEmpty DEF Lead
    <3>2. <<>> \o <<>> = <<>> /\ <<>> \in Seq(Token)
      BY EmptySeq, ConcatEmptySeq
    <3>3. Fillable'
      BY <1>1, <1>2, <2>1 DEF Fillable, Lead
    <3>4. QED
      BY <1>1, <2>1, <3>1, <3>2, <3>3 DEF FormatOK
  <2>2. CASE /\ Lead <= MaxBlank /\ (Lead > 0 => rest[Lead] = "nl")
             /\ Take(SubSeq(rest, Lead + 1, Len(rest)))
    <3>1. Take(given)
      BY <1>1, <2>2 DEF Lead
    <3> HIDE DEF given
    <3>2. /\ data' \in Seq(Token) /\ rest' \in Seq(Token) /\ Len(data') <= MaxSize + 1
          /\ data' \o rest' = data \o given
      BY <1>1, <1>4, <3>1, TakeFacts
    <3>3. data \o given = given
      BY <1>1, <1>4, ConcatEmptySeq
    <3>4. Fillable'
      BY <1>1, <1>2, <2>2 DEF Fillable, Lead
    <3>5. QED
      BY <3>2, <3>3, <3>4
  <2>3. QED
    BY <2>1, <2>2 DEF Fill
<1> HIDE DEF given
<1>7. FormatOK'
  BY <1>1, <1>2, <1>6 DEF FormatOK
<1>8. ReadSoFar'
  BY <1>1, <1>2, <1>5, <1>6 DEF ReadSoFar
<1>9. QED
  BY <1>1, <1>2, <1>7, <1>8, StillReading DEF FormatIInv

LEMMA FillRefusesStep == ASSUME FormatIInv, FillRefuses PROVE FormatIInv'
<1>1. /\ phase = "read" /\ via = "stdin" /\ ~filled /\ rest = text /\ data = <<>>
      /\ phase' = "refused" /\ UNCHANGED <<via, text, sig, filled, rest, data>>
      /\ Len(text) > MaxSize \/ (Leading(text) < Len(text) /\
           (Leading(text) > MaxBlank \/ (Leading(text) > 0 /\ text[Leading(text)] # "nl")))
  BY DEF FillRefuses, Filling, To, Lead, FormatIInv, ReadSoFar
<1>2. FormatOK'
  BY <1>1 DEF FormatIInv, FormatOK
<1>3. ReadSoFar'
  BY <1>1 DEF FormatIInv, ReadSoFar
<1>4. ~Fillable
  <2>1. text \in Seq(Token) /\ MaxBlank \in Nat /\ MaxSize \in Nat
    BY FormatAssumption DEF FormatIInv, FormatOK
  <2>2. Leading(text) \in 0..Len(text) /\ Len(text) \in Nat
    BY <2>1, LeadingFacts
  <2>3. QED
    BY <1>1, <2>1, <2>2 DEF Fillable
<1>5. ~Fillable'
  BY <1>1, <1>4 DEF Fillable
<1>6. Concluded'
  BY <1>1, <1>5 DEF Concluded, Accepted
<1>7. QED
  BY <1>2, <1>3, <1>6 DEF FormatIInv

LEMMA ReadStep == ASSUME FormatIInv, Read PROVE FormatIInv'
<1>1. /\ phase = "read" /\ (via = "stdin" => filled)
      /\ Take(rest) /\ phase' = "read" /\ UNCHANGED <<via, text, sig, filled>>
      /\ FormatOK /\ rest \in Seq(Token)
  BY DEF Read, Reading, Take, To, FormatIInv, FormatOK
<1>2. /\ data' \in Seq(Token) /\ rest' \in Seq(Token) /\ Len(data') <= MaxSize + 1
      /\ data' \o rest' = data \o rest
  BY <1>1, TakeFacts
<1>3. FormatOK'
  BY <1>1, <1>2 DEF FormatOK
<1>4. Given' = Given /\ (Fillable' <=> Fillable)
  BY <1>1 DEF Given, Fillable
<1>5. ReadSoFar'
  BY <1>1, <1>2, <1>4 DEF FormatIInv, ReadSoFar
<1>6. QED
  BY <1>1, <1>3, <1>5, StillReading DEF FormatIInv

LEMMA SourceFailsStep == ASSUME FormatIInv, SourceFails PROVE FormatIInv'
<1>1. /\ phase = "read" /\ phase' = "failed" /\ UNCHANGED <<via, text, sig, filled, rest, data>>
  BY DEF SourceFails, Filling, Reading, To
<1>2. FormatOK'
  BY <1>1 DEF FormatIInv, FormatOK
<1>3. Given' = Given /\ (Fillable' <=> Fillable)
  BY <1>1 DEF Given, Fillable
<1>4. ReadSoFar'
  BY <1>1, <1>3 DEF FormatIInv, ReadSoFar
<1>5. Concluded'
  BY <1>1 DEF FormatIInv, Concluded, Accepted
<1>6. QED
  BY <1>2, <1>4, <1>5 DEF FormatIInv

\* What has been read up to the limit, or to the end, decides.
LEMMA ReadDecides ==
    ASSUME FormatIInv, Reading, rest = <<>> \/ Room = 0
    PROVE  SignatureRead(data, sig) <=> SignatureRead(Given, sig)
<1>1. /\ data \in Seq(Token) /\ rest \in Seq(Token) /\ Len(data) \in Nat /\ Len(rest) \in Nat
      /\ data \o rest = Given /\ MaxSize \in Nat
  BY FormatAssumption DEF FormatIInv, FormatOK, ReadSoFar, Reading
<1>2. CASE rest = <<>>
  BY <1>1, <1>2, ConcatEmptySeq
<1>3. CASE Room = 0
  <2>1. Len(data) > MaxSize
    BY <1>1, <1>3 DEF Room
  <2>2. Len(Given) = Len(data) + Len(rest)
    BY <1>1, ConcatProperties
  <2>3. Len(Given) > MaxSize
    BY <1>1, <2>1, <2>2
  <2>4. ~(Len(data) <= MaxSize) /\ ~(Len(Given) <= MaxSize)
    BY <1>1, <2>1, <2>2
  <2>5. QED
    BY <2>4 DEF SignatureRead, Unarmors
<1>4. QED
  BY <1>2, <1>3

LEMMA EndOfDataStep == ASSUME FormatIInv, EndOfData PROVE FormatIInv'
<1>1. /\ phase = "read" /\ (via = "stdin" => filled)
      /\ phase' = IF SignatureRead(data, sig) THEN "accepted" ELSE "refused"
      /\ UNCHANGED <<via, text, sig, filled, rest, data>>
  BY DEF EndOfData, Reading, To
<1>2. SignatureRead(data, sig) <=> SignatureRead(Given, sig)
  BY ReadDecides DEF EndOfData
<1>3. FormatOK'
  BY <1>1 DEF FormatIInv, FormatOK
<1>4. Given' = Given /\ (Fillable' <=> Fillable)
  BY <1>1 DEF Given, Fillable
<1>5. ReadSoFar'
  BY <1>1, <1>4 DEF FormatIInv, ReadSoFar
<1>6. via # "built"
  BY <1>1 DEF FormatIInv, Concluded
<1>7. sig' = sig /\ via' = via /\ filled' = filled
  BY <1>1
<1>8. SignatureRead(Given, sig)' <=> SignatureRead(Given, sig)
  BY <1>4, <1>7 DEF SignatureRead
<1>9. via' # "built" /\ ~(via' = "stdin" /\ ~filled')
  BY <1>1, <1>6
<1>10. Concluded'
  <2>1. CASE SignatureRead(data, sig)
    <3>1. phase' = "accepted" /\ SignatureRead(Given, sig)'
      BY <1>1, <1>2, <1>8, <2>1
    <3>2. Accepted'
      BY <1>9, <3>1 DEF Accepted
    <3>3. QED
      BY <1>9, <3>1, <3>2 DEF Concluded
  <2>2. CASE ~SignatureRead(data, sig)
    <3>1. phase' = "refused" /\ ~SignatureRead(Given, sig)'
      BY <1>1, <1>2, <1>8, <2>2
    <3>2. ~Accepted'
      BY <3>1 DEF Accepted
    <3>3. QED
      BY <1>9, <3>1, <3>2 DEF Concluded
  <2>3. QED
    BY <2>1, <2>2
<1>11. QED
  BY <1>3, <1>5, <1>10 DEF FormatIInv

LEMMA VerifyStep == ASSUME FormatIInv, Verify PROVE FormatIInv'
<1>1. /\ phase \in {"accepted", "verify"}
      /\ phase' \in {"verified", "unverified", "message unread"}
      /\ phase' = "verified" => Verifiable(sig) /\ KeyVerifies(sig)
      /\ phase' = "unverified" => ~(Verifiable(sig) /\ KeyVerifies(sig))
      /\ UNCHANGED <<via, text, sig, signed, filled, rest, data>>
  BY DEF Verify, To
<1>2. FormatOK'
  BY <1>1 DEF FormatIInv, FormatOK
<1>3. Given' = Given /\ (Fillable' <=> Fillable)
  BY <1>1 DEF Given, Fillable
<1>4. ReadSoFar'
  BY <1>1, <1>3 DEF FormatIInv, ReadSoFar
<1>5. sig' = sig /\ via' = via /\ signed' = signed
  BY <1>1
<1>6. /\ SignatureRead(Given, sig)' <=> SignatureRead(Given, sig)
      /\ Verifiable(sig)' <=> Verifiable(sig)
      /\ KeyVerifies(sig)' <=> KeyVerifies(sig)
  BY <1>3, <1>5 DEF SignatureRead, Verifiable, KeyVerifies
<1>7. /\ Accepted <=> via # "built"
      /\ Accepted' <=> via # "built"
  BY <1>1, <1>5 DEF FormatIInv, Concluded, Accepted
<1>8. Concluded'
  BY <1>1, <1>5, <1>6, <1>7 DEF FormatIInv, Concluded
<1>9. QED
  BY <1>2, <1>4, <1>8 DEF FormatIInv

LEMMA FormatStutters ==
    ASSUME FormatIInv, UNCHANGED <<via, text, sig, signed, filled, rest, data, phase>>
    PROVE  FormatIInv'
<1>1. FormatOK'
  BY DEF FormatIInv, FormatOK
<1>2. Given' = Given /\ (Fillable' <=> Fillable)
  BY DEF Given, Fillable
<1>3. ReadSoFar'
  BY <1>2 DEF FormatIInv, ReadSoFar
<1>4. sig' = sig /\ via' = via /\ signed' = signed /\ phase' = phase /\ filled' = filled
  OBVIOUS
<1>5. /\ SignatureRead(Given, sig)' <=> SignatureRead(Given, sig)
      /\ Verifiable(sig)' <=> Verifiable(sig)
      /\ KeyVerifies(sig)' <=> KeyVerifies(sig)
      /\ Accepted' <=> Accepted
  BY <1>2, <1>4 DEF SignatureRead, Verifiable, KeyVerifies, Accepted
<1>6. Concluded'
  <2>1. Concluded
    BY DEF FormatIInv
  <2>2. (via' = "stdin" /\ ~filled') <=> (via = "stdin" /\ ~filled)
    <3>1. filled' \in BOOLEAN /\ filled \in BOOLEAN /\ filled' = filled
      BY <1>1, <1>4 DEF FormatIInv, FormatOK
    <3>2. QED
      BY <1>4, <3>1
  <2>3. phase' = "refused" =>
          IF via' = "stdin" /\ ~filled' THEN ~Fillable' ELSE ~SignatureRead(Given, sig)'
    <3>1. CASE via = "stdin" /\ ~filled
      BY <1>2, <1>4, <2>1, <2>2, <3>1 DEF Concluded
    <3>2. CASE ~(via = "stdin" /\ ~filled)
      <4>1. phase = "refused" => ~SignatureRead(Given, sig)
        BY <2>1, <3>2 DEF Concluded
      <4>2. QED
        BY <1>4, <1>5, <2>2, <3>2, <4>1
    <3>3. QED
      BY <3>1, <3>2
  <2>4. QED
    BY <1>4, <1>5, <2>1, <2>3 DEF Concluded
<1>7. QED
  BY <1>1, <1>3, <1>6 DEF FormatIInv

LEMMA ReadingGoesOn == FormatIInv /\ [FormatNext]_formatVars => FormatIInv'
<1> SUFFICES ASSUME FormatIInv, [FormatNext]_formatVars PROVE FormatIInv'
  OBVIOUS
<1>1. CASE UNCHANGED formatVars
  <2>1. UNCHANGED <<via, text, sig, signed, filled, rest, data, phase>>
    BY <1>1 DEF formatVars
  <2>2. QED
    BY <2>1, FormatStutters
<1>2. CASE FormatNext
  BY <1>2, FillStep, FillRefusesStep, ReadStep, SourceFailsStep, EndOfDataStep, VerifyStep
    DEF FormatNext
<1>3. QED
  BY <1>1, <1>2

-----------------------------------------------------------------------------
\* Where a signature that is read back comes from.
FromHere ==
    /\ phase # "idle" => pc = "done"
    /\ IsCreated /\ phase # "idle" =>
         /\ via \in {"stdin", "file"} /\ text = Armor /\ sig = Signature
         /\ request.obeys # "any" => signed = format

RoundIInv == IInv /\ (phase # "idle" => FormatIInv) /\ FromHere

\* A signing call that has ended stays as it is, but that an agent may answer too late.
LEMMA DoneStays ==
    ASSUME IInv, [Next]_vars, pc = "done"
    PROVE  /\ pc' = "done" /\ err' = err
           /\ err = "none" => UNCHANGED <<request, wire, format, trail>>
<1>1. err = "none" => wire = "sign!"
  BY DEF IInv, Judged
<1>2. \/ AgentLists \/ AgentSigns \/ UNCHANGED vars
  BY DEF Next, Agent, Data, Program, Tick, TimesOut, AgentFails, IOFails, Connected, SetDeadlineFails,
         List, ListFails, Listed, Pick, NoKeyFits, CertificateFits, CertificateRefused,
         NamespaceRefused, HashFails, Ask, Created, AlgorithmRefused
<1>3. QED
  BY <1>1, <1>2 DEF AgentLists, AgentSigns, vars

LEMMA SignatureIsWire ==
    ASSUME IInv, IsCreated
    PROVE  Signature \in Wire
<1>1. /\ TypeOf[key] \in KeyType
      /\ format \in Format /\ trail \in Rest
      /\ (CertOf[key].kind # "plain") \in BOOLEAN
  BY KeyFacts DEF IInv, TypeOK, Judged, Asked, IsCreated
<1>2. QED
  BY <1>1 DEF Signature, Wire

LEMMA ReadBackStep == ASSUME RoundIInv, ReadBack PROVE RoundIInv'
<1>1. /\ IsCreated /\ UNCHANGED vars
      /\ via' \in {"stdin", "file"} /\ text' = Armor /\ sig' = Signature
      /\ filled' = FALSE /\ rest' = Armor /\ data' = <<>> /\ phase' = "read"
      /\ request.obeys # "any" => signed' = format
  BY DEF ReadBack
<1>2. IInv'
  BY <1>1, SigningGoesOn DEF RoundIInv
<1>3. Signature \in Wire /\ Armor \in Seq(Token)
  BY <1>1, SignatureIsWire DEF RoundIInv, Armor, Token, Opening
<1>4. Unread'
  BY <1>1, <1>3 DEF Unread
<1>5. FormatIInv'
  <2>1. Unread' => FormatIInv'
    BY UnreadFits, PTL
  <2>2. QED
    BY <1>4, <2>1
<1>6. FromHere'
  <2>1. UNCHANGED <<request, format, trail, pc>>
    BY <1>1 DEF vars
  <2>2. Signature' = Signature
    BY <2>1 DEF Signature, key
  <2>3. QED
    BY <1>1, <2>1, <2>2 DEF FromHere, IsCreated
<1>7. QED
  BY <1>2, <1>5, <1>6 DEF RoundIInv

LEMMA SignStep == ASSUME RoundIInv, [Next]_vars, UNCHANGED formatVars PROVE RoundIInv'
<1>1. UNCHANGED <<via, text, sig, signed, phase>>
  BY DEF formatVars
<1>2. IInv'
  BY SigningGoesOn DEF RoundIInv
<1>3. phase' # "idle" => FormatIInv'
  BY <1>1, ReadingGoesOn DEF RoundIInv
<1>4. FromHere'
  <2>1. CASE phase = "idle"
    BY <1>1, <2>1 DEF FromHere
  <2>2. CASE phase # "idle"
    <3>1. /\ pc = "done" /\ pc' = "done" /\ err' = err
          /\ err = "none" => UNCHANGED <<request, format, trail>>
      BY <2>2, DoneStays DEF RoundIInv, FromHere
    <3>2. err = "none" => Signature' = Signature
      BY <3>1 DEF Signature, key
    <3>3. QED
      BY <1>1, <2>2, <3>1, <3>2 DEF RoundIInv, FromHere, IsCreated
  <2>3. QED
    BY <2>1, <2>2
<1>5. QED
  BY <1>2, <1>3, <1>4 DEF RoundIInv

LEMMA FormatStep == ASSUME RoundIInv, phase # "idle", FormatNext, UNCHANGED vars PROVE RoundIInv'
<1>1. UNCHANGED <<via, text, sig, signed>> /\ phase' # "idle"
  BY DEF FormatNext, Fill, FillRefuses, Read, Take, SourceFails, EndOfData, Verify, To
<1>2. IInv'
  BY SigningGoesOn DEF RoundIInv
<1>3. FormatIInv'
  BY ReadingGoesOn DEF RoundIInv
<1>4. FromHere'
  <2>1. UNCHANGED <<request, format, trail, pc, err>>
    BY DEF vars
  <2>2. Signature' = Signature
    BY <2>1 DEF Signature, key
  <2>3. QED
    BY <1>1, <2>1, <2>2 DEF RoundIInv, FromHere, IsCreated
<1>5. QED
  BY <1>2, <1>3, <1>4 DEF RoundIInv

LEMMA NoAgentFits == NoAgent => IInv
<1> SUFFICES ASSUME NoAgent PROVE IInv
  OBVIOUS
<1>1. request \in Requests
  BY SomeRequest DEF NoAgent
<1>2. request \in Request /\ 0 \in 0..EndTime /\ Timeout \in 0..Timeout
  BY <1>1, SignAssumption
<1>3. TypeOK
  BY <1>2, Bounds DEF NoAgent, TypeOK, Rest
<1>4. QED
  BY <1>3 DEF NoAgent, IInv, Deadline, Chosen, InWindow, Asked, Judged

LEMMA Inductive == RoundTripSpec => []RoundIInv
<1>1. RoundTripInit => RoundIInv
  <2>1. CASE Init /\ NothingToRead
    BY <2>1, SigningStarts DEF RoundIInv, FromHere, NothingToRead
  <2>2. CASE NoAgent /\ FormatInit
    BY <2>2, NoAgentFits, InitUnread, UnreadFits DEF RoundIInv, FromHere, IsCreated, NoAgent
  <2>3. QED
    BY <2>1, <2>2 DEF RoundTripInit
<1>2. RoundIInv /\ [RoundTripNext]_roundVars => RoundIInv'
  <2> SUFFICES ASSUME RoundIInv, [RoundTripNext]_roundVars PROVE RoundIInv'
    OBVIOUS
  <2>1. CASE UNCHANGED roundVars
    BY <2>1, SignStep DEF roundVars
  <2>2. CASE RoundTripNext
    BY <2>2, SignStep, ReadBackStep, FormatStep DEF RoundTripNext
  <2>3. QED
    BY <2>1, <2>2
<1>3. QED
  BY <1>1, <1>2, PTL DEF RoundTripSpec

-----------------------------------------------------------------------------

\* The state of a signing call has the types that TypeOK says.
THEOREM TypeCorrect == RoundTripSpec => []TypeOK
<1>1. RoundIInv => TypeOK
  BY DEF RoundIInv, IInv
<1>2. QED
  BY <1>1, Inductive, PTL

\* An error of the agent's is the agent's: no deadline ends a signature, and one that
\* ends the listing is told apart from an answer.
THEOREM FailuresTold == RoundTripSpec => []FailuresAreTheAgents
<1>1. RoundIInv => FailuresAreTheAgents
  BY DEF RoundIInv, IInv, Deadline, FailuresAreTheAgents
<1>2. QED
  BY <1>1, Inductive, PTL

\* The agent is asked only when nothing but its own answer can fail the call, except
\* for the algorithm.
THEOREM AskingIsLast == RoundTripSpec => []AskedLast
<1>1. RoundIInv => AskedLast
  <2> SUFFICES ASSUME RoundIInv, wire = "sign?"
      PROVE  /\ signer \in held /\ PlainOf[signer] = PlainOf[key]
             /\ checkedAt <= clock /\ Within(CertOf[key], checkedAt)
             /\ request.namespace = "good"
    BY DEF AskedLast
  <2>1. request \in Request /\ signer \in Fitting /\ checkedAt # -1 /\ request.namespace = "good"
    BY DEF RoundIInv, IInv, TypeOK, Chosen, Asked
  <2>2. QED
    BY <2>1, KeyFacts, AlgorithmFacts DEF RoundIInv, IInv, InWindow
<1>2. QED
  BY <1>1, Inductive, PTL

\* A signature that is returned is never DSA or SHA-1, and is read back and verified if
\* the agent has signed with the key it was asked for.
THEOREM CreatedReadable == RoundTripSpec => []CreatedIsReadable
<1>1. ASSUME RoundIInv, IsCreated
      PROVE  /\ wire = "sign!" /\ TypeOf[key] # DSA /\ format # DSA
             /\ TypeOf[key] = RSA => format \in {SHA256, SHA512}
             /\ request.obeys # "any" =>
                  SignatureRead(Armor, Signature) /\ phase \notin {"refused", "unverified"}
  <2>1. wire = "sign!" /\ ValidateSignatureAlgorithm(TypeOf[key], format)
    BY <1>1 DEF RoundIInv, IInv, Judged, IsCreated
  <2>2. request \in Request /\ signer \in Fitting /\ signer \in Key /\ TypeOf[signer] = TypeOf[key]
    BY <1>1, <2>1, AlgorithmFacts, KeyFacts DEF RoundIInv, IInv, TypeOK, Chosen, Asked
  <2>3. ASSUME request.obeys # "any"
        PROVE  /\ SignatureRead(Armor, Signature) /\ Verifiable(Signature)
               /\ phase \notin {"refused", "unverified"}
    <3>1. /\ format \in {TypeOf[key], Algorithm}
          /\ trail = IF TypeOf[key] = SK THEN "fields" ELSE "none"
      BY <1>1, <2>1, <2>2, <2>3 DEF RoundIInv, IInv, Asked
    <3>2. ValidateSignatureFormat(TypeOf[key], format)
      BY <2>2, <3>1, AlgorithmFacts DEF ValidateSignatureFormat
    <3>3. /\ Signature \in Wire
          /\ Signature.magic /\ ~Signature.trailing /\ Signature.version = 1 /\ ~Signature.reserved
          /\ Signature.namespace = "git" /\ Signature.hash = "sha512"
          /\ Signature.type = TypeOf[key] /\ Signature.format = format /\ Signature.rest = trail
      BY <1>1, SignatureIsWire DEF RoundIInv, Signature
    <3>4. ValidateStructure(Signature)
      BY <3>1, <3>2, <3>3 DEF ValidateStructure, SecurityKeyFields
    <3>5. ParseSignature(Signature) /\ Verifiable(Signature)
      BY <2>1, <3>3, <3>4 DEF ParseSignature, Verifiable
    <3>6. SignatureRead(Armor, Signature)
      BY <2>1, <3>3, <3>5, ArmorReads
    <3>7. ASSUME phase \in {"refused", "unverified"} PROVE FALSE
      <4>1. /\ FormatIInv /\ via \in {"stdin", "file"} /\ text = Armor /\ sig = Signature
            /\ signed = format
        BY <1>1, <2>3, <3>7 DEF RoundIInv, FromHere
      <4>2. KeyVerifies(sig)
        BY <3>1, <3>3, <4>1 DEF KeyVerifies
      <4>3. phase = "refused"
        BY <3>5, <3>7, <4>1, <4>2 DEF FormatIInv, Concluded
      <4>4. Given = Armor /\ Fillable
        BY <4>1, ArmorGiven
      <4>5. QED
        BY <3>6, <4>1, <4>3, <4>4 DEF FormatIInv, Concluded
    <3>8. QED
      BY <3>5, <3>6, <3>7
  <2>4. QED
    BY <2>1, <2>3 DEF ValidateSignatureAlgorithm
<1>2. RoundIInv => CreatedIsReadable
  BY <1>1 DEF CreatedIsReadable
<1>3. QED
  BY <1>2, Inductive, PTL

\* The key below a certificate is preferred, so that no signature is refused for its
\* algorithm if the agent holds a key for which it can be selected.
THEOREM RefusalNeeded == RoundTripSpec => []NoNeedlessRefusal
<1>1. RoundIInv => NoNeedlessRefusal
  <2> SUFFICES ASSUME RoundIInv, err = "algorithm", TypeOf[key] # DSA,
                      NEW k \in held, PlainOf[k] = PlainOf[key], k \in {key, PlainOf[key]}
      PROVE  ~Obeyed(k)
    BY DEF NoNeedlessRefusal
  <2>1. wire = "sign!" /\ ~ValidateSignatureAlgorithm(TypeOf[key], format)
    BY DEF RoundIInv, IInv, Judged
  <2> SUFFICES ASSUME request.obeys # "any" PROVE ~Obeyed(k)
    BY DEF Obeyed
  <2>2. /\ request \in Request /\ signer \in Fitting /\ signer \in Key
        /\ format = IF Obeyed(signer) THEN Algorithm ELSE TypeOf[key]
    BY <2>1, AlgorithmFacts, KeyFacts DEF RoundIInv, IInv, TypeOK, Chosen, Asked
  <2>3. TypeOf[key] = RSA /\ ~Obeyed(signer)
    <3>1. TypeOf[key] \in {RSA, ED25519, SK}
      BY <2>2, KeyFacts DEF KeyType
    <3>2. TypeOf[key] = RSA
      BY <2>1, <2>2, <3>1, AlgorithmFacts
      DEF ValidateSignatureAlgorithm, RSA, DSA, ED25519, SK, SHA512, SHA256
    <3>3. QED
      BY <2>1, <2>2, <3>2, AlgorithmFacts
      DEF ValidateSignatureAlgorithm, RSA, DSA, SHA512, SHA256
  <2>4. CASE signer = PlainOf[key] /\ CertOf[signer].kind = "plain"
    BY <2>3, <2>4 DEF Obeyed
  <2>5. CASE signer = key /\ k = key
    BY <2>3, <2>5
  <2>6. CASE signer = key /\ k = PlainOf[key] /\ CertOf[key].kind # "plain"
    BY <2>2, <2>3, <2>6, KeyFacts, SignAssumption DEF Fitting, RSACertificate
  <2>7. signer \in {key, PlainOf[key]} /\ CertOf[PlainOf[key]].kind = "plain"
    BY <2>2, KeyFacts, SignAssumption DEF Fitting
  <2>8. CertOf[key].kind = "plain" => PlainOf[key] = key
    BY <2>2, KeyFacts, SignAssumption
  <2>9. QED
    BY <2>4, <2>5, <2>6, <2>7, <2>8
<1>2. QED
  BY <1>1, Inductive, PTL

\* A signature that verifies, read or built, is in all its fields what was signed.
THEOREM SignatureNotMalleable == RoundTripSpec => []NotMalleable
<1>1. ASSUME FormatIInv, phase = "verified" PROVE NotMalleable
  <2>1. sig \in Wire /\ Verifiable(sig) /\ KeyVerifies(sig)
    BY <1>1 DEF FormatIInv, FormatOK, Concluded
  <2>2. sig.magic /\ ~sig.trailing
    <3>1. CASE via = "built"
      BY <1>1, <3>1 DEF FormatIInv, FormatOK
    <3>2. CASE via # "built"
      <4>1. SignatureRead(Given, sig)
        BY <1>1, <3>2 DEF FormatIInv, Concluded, Accepted
      <4>2. QED
        BY <4>1 DEF SignatureRead, ParseSignature
    <3>3. QED
      BY <3>1, <3>2
  <2>3. /\ sig.version = 1 /\ ~sig.reserved /\ sig.namespace = "git" /\ sig.hash = "sha512"
        /\ sig.format = signed
        /\ sig.rest = IF sig.type = SK THEN "fields" ELSE "none"
    BY <2>1 DEF Verifiable, ValidateStructure, SecurityKeyFields, KeyVerifies
  <2>4. sig.magic = TRUE /\ sig.trailing = FALSE /\ sig.reserved = FALSE
    BY <2>1, <2>2, <2>3 DEF Wire
  <2>5. QED
    BY <2>1, <2>3, <2>4 DEF NotMalleable, Wire
<1>2. RoundIInv => NotMalleable
  BY <1>1 DEF RoundIInv, NotMalleable, Accepted
<1>3. QED
  BY <1>2, Inductive, PTL

\* What verifies here is read back from its armor, however it was obtained.
THEOREM VerifiedIsReadBack == RoundTripSpec => []VerifiedReadsBack
<1>1. ASSUME FormatIInv, phase = "verified" PROVE SignatureRead(Armor, sig)
  <2>1. sig \in Wire /\ Verifiable(sig)
    BY <1>1 DEF FormatIInv, FormatOK, Concluded
  <2>2. sig.magic /\ ~sig.trailing
    <3>1. CASE via = "built"
      BY <1>1, <3>1 DEF FormatIInv, FormatOK
    <3>2. CASE via # "built"
      <4>1. SignatureRead(Given, sig)
        BY <1>1, <3>2 DEF FormatIInv, Concluded, Accepted
      <4>2. QED
        BY <4>1 DEF SignatureRead, ParseSignature
    <3>3. QED
      BY <3>1, <3>2
  <2>3. ParseSignature(sig) /\ ValidateSignatureAlgorithm(sig.type, sig.format)
    BY <2>1, <2>2 DEF Verifiable, ParseSignature
  <2>4. QED
    BY <2>1, <2>3, ArmorReads
<1>2. RoundIInv => VerifiedReadsBack
  BY <1>1 DEF RoundIInv, VerifiedReadsBack, Accepted
<1>3. QED
  BY <1>2, Inductive, PTL

\* Exactly one armored block is read from a file, in whatever pieces it comes and
\* whatever pem.Decode would skip.
THEOREM OneBlockIsRead == RoundTripSpec => []OneBlock
<1>1. ASSUME FormatIInv, via = "file", Accepted \/ phase = "refused" PROVE OneBlock
  <2>1. text \in Seq(Token) /\ sig \in Wire /\ Given = text
    BY <1>1 DEF FormatIInv, FormatOK, Given
  <2>2. Accepted <=> SignatureRead(text, sig)
    <3>1. phase = "refused" => ~Accepted
      BY DEF Accepted
    <3>2. QED
      BY <1>1, <2>1, <3>1 DEF FormatIInv, Concluded
  <2>3. ParseSignature(sig) /\ ValidateSignatureAlgorithm(sig.type, sig.format)
          <=> ParseSignature(sig) /\ Readable(sig.type, sig.format)
    BY DEF ParseSignature, ValidateStructure, Readable
  <2> DEFINE good == \E e \in DOMAIN text, p \in DOMAIN text :
                /\ Len(text) <= MaxSize
                /\ text[1] = "begin" /\ text[p] = "body" /\ text[e] = "end"
                /\ p < e /\ text[e - 1] # "sp"
                /\ \A i \in DOMAIN text \ {1, p, e} : text[i] \in Blank
  <2>4. good <=> Len(text) <= MaxSize /\ \E e \in DOMAIN text, p \in DOMAIN text : Armored(text, p, e)
    BY DEF Armored
  <2>5. SignatureRead(text, sig)
          <=> /\ Len(text) <= MaxSize
              /\ \E e \in DOMAIN text, p \in DOMAIN text : Armored(text, p, e)
              /\ ParseSignature(sig) /\ ValidateSignatureAlgorithm(sig.type, sig.format)
    BY <2>1, ReadArmored
  <2>6. Accepted <=> good /\ ParseSignature(sig) /\ Readable(sig.type, sig.format)
    BY <2>2, <2>3, <2>4, <2>5
  <2>7. QED
    BY <2>6, Zenon DEF OneBlock
<1>2. RoundIInv => OneBlock
  BY <1>1 DEF RoundIInv, OneBlock, Accepted
<1>3. QED
  BY <1>2, Inductive, PTL

\* Leading blank lines on standard input, and how it is cut into pieces, make no difference.
THEOREM StdinReadsAsFile == RoundTripSpec => []StdinAsFile
<1>1. ASSUME FormatIInv, via = "stdin", Accepted \/ phase = "refused" PROVE StdinAsFile
  <2> DEFINE lead == Leading(text)
  <2>1. text \in Seq(Token) /\ sig \in Wire /\ Given = SubSeq(text, lead + 1, Len(text))
    BY <1>1 DEF FormatIInv, FormatOK, Given
  <2>2. /\ lead \in 0..Len(text) /\ Len(text) \in Nat /\ MaxBlank \in Nat
        /\ \A x \in 1..lead : text[x] \in Blank
        /\ \A m \in 0..Len(text) :
             (\A x \in 1..m : text[x] \in Blank) /\ m < Len(text) /\ text[m + 1] \notin Blank
               => m = lead
    BY <2>1, LeadingFacts, FormatAssumption
  <2> HIDE DEF lead
  <2>3. ASSUME NEW m \in 0..Len(text), SignatureRead(SubSeq(text, m + 1, Len(text)), sig)
        PROVE  m < Len(text) /\ text[m + 1] \notin Blank
    <3>1. \A x \in m + 1..Len(text) : text[x] \in Token
      BY <2>1, <2>2
    <3> DEFINE t == SubSeq(text, m + 1, Len(text))
    <3>2. /\ Len(t) = IF m + 1 <= Len(text) THEN Len(text) - (m + 1) + 1 ELSE 0
          /\ \A x \in 1..Len(text) - (m + 1) + 1 : t[x] = text[(m + 1) + x - 1]
          /\ t \in Seq(Token)
      BY <3>1, <2>2, SubSeqProperties
    <3> HIDE DEF t
    <3>3. t # <<>> /\ t[1] \in Opening
      BY <2>3 DEF SignatureRead, Unarmors, t
    <3>4. m < Len(text)
      BY <3>2, <3>3, <2>2, EmptySeq
    <3>5. t[1] = text[m + 1]
      BY <3>2, <3>4, <2>2
    <3>6. QED
      BY <3>3, <3>4, <3>5 DEF Opening, Blank
  <2> DEFINE accepted(m) ==
        /\ m <= MaxBlank
        /\ \A i \in 1..m : text[i] \in Blank /\ (i = m => text[i] = "nl")
        /\ SignatureRead(SubSeq(text, m + 1, Len(text)), sig)
  <2>4. CASE Accepted
    <3>1. SignatureRead(Given, sig) /\ Fillable
      BY <1>1, <2>4 DEF FormatIInv, Concluded, ReadSoFar, Accepted
    <3>2. lead < Len(text)
      BY <2>1, <2>2, <2>3, <3>1
    <3>3. /\ Len(text) <= MaxSize /\ lead <= MaxBlank
          /\ lead > 0 => text[lead] = "nl"
      BY <3>1, <3>2, <2>2 DEF Fillable, lead
    <3>4. accepted(lead)
      BY <2>1, <2>2, <3>1, <3>3
    <3>5. QED
      BY <2>2, <2>4, <3>3, <3>4, Zenon DEF StdinAsFile
  <2>5. CASE phase = "refused"
    <3>1. ~Accepted
      BY <2>5 DEF Accepted
    <3>2. ASSUME Len(text) <= MaxSize, NEW m \in 0..Len(text), accepted(m) PROVE FALSE
      <4>1. m < Len(text) /\ text[m + 1] \notin Blank
        BY <3>2, <2>3
      <4>2. \A x \in 1..m : text[x] \in Blank
        BY <3>2
      <4>3. m = lead
        BY <2>2, <4>1, <4>2
      <4>4. lead > 0 => text[lead] = "nl"
        BY <2>2, <3>2, <4>3
      <4>5. Fillable
        BY <3>2, <4>3, <4>4 DEF Fillable, lead
      <4>6. SignatureRead(Given, sig)
        BY <2>1, <3>2, <4>3
      <4>7. QED
        BY <1>1, <2>5, <4>5, <4>6 DEF FormatIInv, Concluded
    <3>3. QED
      BY <3>1, <3>2, Zenon DEF StdinAsFile
  <2>6. QED
    BY <1>1, <2>4, <2>5
<1>2. RoundIInv => StdinAsFile
  BY <1>1 DEF RoundIInv, StdinAsFile, Accepted
<1>3. QED
  BY <1>2, Inductive, PTL
=============================================================================
