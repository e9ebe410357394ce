---------------------------- MODULE Certificate ----------------------------
(***************************************************************************)
(* The validity window of OpenSSH certificates (pkg/sshsig/certificate.go, *)
(* CertificateValidAt): seconds in unsigned words, which the code converts *)
(* to signed ones and compares with a time of a finer unit.                *)
(***************************************************************************)
EXTENDS Integers, TLAPS

CONSTANTS
    Half,  \* half the range of a word: 2^63 in the code
    Second \* units of time in a second

ASSUME WordAssumption == Half \in Nat \ {0} /\ Second \in Nat \ {0}

Word == 0..(2 * Half - 1)

\* ssh.CertTimeInfinity
Infinity == 2 * Half - 1

\* What asCertificate finds in a public key: no certificate, one it cannot parse,
\* or one that is or is not for a user.
Kind == {"plain", "unparseable", "host", "user"}
CertificateOf == [kind : Kind, validAfter : Word, validBefore : Word]

\* int64(u)
Signed(u) == IF u < Half THEN u ELSE u - 2 * Half

\* at.Unix()
Unix(at) == at \div Second

InsideWindow(cert, at) ==
    LET unix == Unix(at)
        after == Signed(cert.validAfter)
        before == Signed(cert.validBefore)
    IN  /\ after >= 0 /\ unix >= after
        /\ cert.validBefore = Infinity \/ (unix < before /\ before >= 0)

CertificateValidAt(cert, at) ==
    \/ cert.kind = "plain"
    \/ cert.kind = "user" /\ InsideWindow(cert, at)

-----------------------------------------------------------------------------

\* The window a certificate states, in whole numbers.
StatedWindow(cert, at) ==
    /\ cert.validAfter * Second <= at
    /\ cert.validBefore = Infinity \/ at < cert.validBefore * Second

\* A plain key, or a user certificate at a time its window contains.
Within(cert, at) == cert.kind = "plain" \/ (cert.kind = "user" /\ StatedWindow(cert, at))

-----------------------------------------------------------------------------
(***************************************************************************)
(* The signed comparison in whole seconds never widens the window that a   *)
(* certificate states, and narrows it only for an end of window that has   *)
(* the sign bit without being the infinite one.                            *)
(***************************************************************************)

\* Whole seconds are enough to compare with a bound that is one.
LEMMA WholeSeconds ==
    ASSUME NEW at \in Int, NEW s \in Int
    PROVE  /\ Unix(at) \in Int
           /\ s <= Unix(at) <=> s * Second <= at
<1> DEFINE u == Unix(at)
<1>1. u \in Int /\ u * Second <= at /\ at < (u + 1) * Second
  BY WordAssumption DEF Unix
<1> HIDE DEF u
<1>2. ASSUME s <= u PROVE s * Second <= at
  <2>1. s * Second <= u * Second
    BY <1>1, <1>2, WordAssumption
  <2>2. QED
    BY <1>1, <2>1, WordAssumption
<1>3. ASSUME s > u PROVE s * Second > at
  <2>1. s >= u + 1
    BY <1>1, <1>3
  <2>2. s * Second >= (u + 1) * Second
    BY <1>1, <2>1, WordAssumption
  <2>3. QED
    BY <1>1, <2>2, WordAssumption
<1>4. QED
  BY <1>1, <1>2, <1>3, WordAssumption DEF u

\* A time and a certificate that CertificateValidAt accepts are within the window
\* the certificate states, and it refuses one within it only when the end of the
\* window is in the upper half of the words and not the infinite one.
THEOREM CertificateWindow ==
    ASSUME NEW cert \in CertificateOf, NEW at \in Int, at < Half * Second
    PROVE  CertificateValidAt(cert, at)
             <=> /\ Within(cert, at)
                 /\ cert.kind = "user" =>
                      cert.validBefore < Half \/ cert.validBefore = Infinity
<1>1. /\ cert.validAfter \in Int /\ cert.validAfter >= 0 /\ cert.validAfter < 2 * Half
      /\ cert.validBefore \in Int /\ cert.validBefore >= 0 /\ cert.validBefore < 2 * Half
  BY WordAssumption DEF CertificateOf, Word
<1>2. Unix(at) \in Int /\ Unix(at) < Half
  BY WholeSeconds, WordAssumption
<1>3. /\ cert.validAfter <= Unix(at) <=> cert.validAfter * Second <= at
      /\ cert.validBefore <= Unix(at) <=> cert.validBefore * Second <= at
  BY <1>1, WholeSeconds
<1>4. /\ cert.validAfter * Second \in Int
      /\ cert.validBefore * Second \in Int
  BY <1>1, WordAssumption
<1>5. Signed(cert.validAfter) >= 0 /\ Unix(at) >= Signed(cert.validAfter)
        <=> cert.validAfter * Second <= at
  BY <1>1, <1>2, <1>3, WordAssumption DEF Signed
<1>6. Unix(at) < Signed(cert.validBefore) /\ Signed(cert.validBefore) >= 0
        <=> at < cert.validBefore * Second /\ cert.validBefore < Half
  BY <1>1, <1>2, <1>3, <1>4, WordAssumption DEF Signed
<1>7. InsideWindow(cert, at)
        <=> /\ StatedWindow(cert, at)
            /\ cert.validBefore < Half \/ cert.validBefore = Infinity
  BY <1>5, <1>6 DEF InsideWindow, StatedWindow
<1>8. QED
  BY <1>7 DEF CertificateValidAt, Within
=============================================================================
