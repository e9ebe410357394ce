-------------------------- MODULE SignerLineProofs --------------------------
(***************************************************************************)
(* The two parsers of package allowedsigners that take text apart: the     *)
(* pattern-lists, and the lines of a file.                                 *)
(***************************************************************************)
EXTENDS PatternList, SignerLine, WellFoundedInduction, TLAPS

(***************************************************************************)
(* wildcardMatch answers TRUE exactly when the pattern fits the value, for *)
(* every pattern and every value: its single backtrack point loses no      *)
(* match.  No induction over the strings is needed, for the invariant      *)
(* relates the scan to a whole alignment, not to a recursive definition.   *)
(* From that, patternsMatch accepts what its list includes and does not    *)
(* exclude: the invariant of wildcardMatch holds again at every call.      *)
(***************************************************************************)

\* What was scanned so far is accounted for by some cut.
Reached(n, to) ==
    \E c \in Cuts(pattern, value) : CutsUpTo(pattern, value, c, n) /\ c[n] = to

\* The '*' to go back to, what it may swallow, and the bytes passed since then.
StarInv ==
    star >= 0 =>
        /\ star < p
        /\ pattern[star + 1] = "*"
        /\ mark <= v
        /\ \E low \in 0..mark : Reached(star, low)

\* Every alignment of the whole strings agrees with the scan, up to what the
\* last '*' swallows; that '*' swallows no less than mark.
Pending(c) ==
    /\ star = -1 => c[p] = v
    /\ star >= 0 => c[star + 1] >= mark /\ c[p] = c[star + 1] + (v - mark)

LossFree ==
    \A c \in Cuts(pattern, value) : Alignment(pattern, value, c) => Pending(c)

\* Once the value is used up, every alignment has used it up as well.
UsedUp ==
    /\ v = Len(value)
    /\ \A c \in Cuts(pattern, value) : Alignment(pattern, value, c) => c[p] = v

IInv ==
    /\ TypeOK
    /\ pc = "match" => Reached(p, v) /\ StarInv /\ LossFree
    /\ pc = "trail" => Reached(p, v) /\ UsedUp
    /\ ResultIsGlob

-----------------------------------------------------------------------------

\* A cut of the first n bytes goes on over byte n + 1 wherever that byte fits.
LEMMA Extend ==
    ASSUME NEW pat \in Seq(Byte), NEW val \in Seq(Byte),
           NEW c \in Cuts(pat, val), NEW n \in 0..(Len(pat) - 1), NEW to \in 0..Len(val),
           CutsUpTo(pat, val, c, n), Fits(pat, val, n + 1, c[n], to)
    PROVE  \E d \in Cuts(pat, val) : CutsUpTo(pat, val, d, n + 1) /\ d[n + 1] = to
<1> DEFINE d == [c EXCEPT ![n + 1] = to]
<1>1. d \in Cuts(pat, val) /\ d[n + 1] = to /\ d[0] = 0
  BY DEF Cuts, CutsUpTo
<1>2. ASSUME NEW k \in 1..(n + 1)
      PROVE  Fits(pat, val, k, d[k - 1], d[k])
  <2>1. CASE k = n + 1
    BY <2>1, <1>1 DEF Cuts, CutsUpTo
  <2>2. CASE k \in 1..n
    <3>1. d[k - 1] = c[k - 1] /\ d[k] = c[k]
      BY <2>2 DEF Cuts
    <3>2. QED
      BY <3>1, <2>2 DEF CutsUpTo
  <2>3. QED
    BY <2>1, <2>2
<1>3. CutsUpTo(pat, val, d, n + 1)
  BY <1>1, <1>2 DEF CutsUpTo
<1>4. QED
  BY <1>1, <1>3

\* What an alignment does at the byte after n: the case analysis of the switch.
LEMMA AtByte ==
    ASSUME NEW pat \in Seq(Byte), NEW val \in Seq(Byte), NEW c \in Cuts(pat, val),
           Alignment(pat, val, c), NEW n \in 0..(Len(pat) - 1)
    PROVE  /\ pat[n + 1] = "*" => c[n] <= c[n + 1]
           /\ pat[n + 1] # "*" => /\ c[n + 1] = c[n] + 1
                                  /\ pat[n + 1] = "?" \/ pat[n + 1] = val[c[n] + 1]
<1>1. Fits(pat, val, n + 1, c[n], c[n + 1])
  BY DEF Alignment, CutsUpTo
<1>2. QED
  BY <1>1 DEF Fits

\* A cut divides the value.
LEMMA CutBounds ==
    ASSUME NEW pat \in Seq(Byte), NEW val \in Seq(Byte), NEW c \in Cuts(pat, val),
           NEW n \in 0..Len(pat)
    PROVE  c[n] \in 0..Len(val) /\ c[n] \in Int
<1>1. c[n] \in 0..Len(val)
  BY DEF Cuts
<1>2. QED
  BY <1>1

LEMMA InitIInv == Init => IInv
<1> SUFFICES ASSUME Init PROVE IInv
  OBVIOUS
<1>1. TypeOK
  <2>1. Len(pattern) \in Nat /\ Len(value) \in Nat
    BY DEF Init
  <2>2. matched \in BOOLEAN
    BY DEF Init
  <2>3. QED
    BY <2>1, <2>2 DEF Init, TypeOK
<1>2. Reached(p, v)
  <2> DEFINE c == [k \in 0..Len(pattern) |-> 0]
  <2>1. c \in Cuts(pattern, value) /\ CutsUpTo(pattern, value, c, p) /\ c[p] = v
    BY <1>1 DEF Init, TypeOK, Cuts, CutsUpTo
  <2>2. QED
    BY <2>1 DEF Reached
<1>3. StarInv
  BY DEF Init, StarInv
<1>4. LossFree
  BY DEF Init, LossFree, Pending, Alignment, CutsUpTo
<1>5. QED
  BY <1>1, <1>2, <1>3, <1>4 DEF IInv, Init, ResultIsGlob

LEMMA TypeStep == TypeOK /\ (pc = "match" => StarInv) /\ [Next]_vars => TypeOK'
<1> SUFFICES ASSUME TypeOK, pc = "match" => StarInv, [Next]_vars
             PROVE  TypeOK'
  OBVIOUS
<1> USE DEF TypeOK
<1>1. CASE SeeStar
  BY <1>1 DEF SeeStar, InMatch, StarNext, args
<1>2. CASE PassByte
  BY <1>2 DEF PassByte, InMatch, ByteNext, args
<1>3. CASE Backtrack
  BY <1>3 DEF Backtrack, InMatch, StarInv, args
<1>4. CASE Mismatch
  BY <1>4 DEF Mismatch, args
<1>5. CASE EndOfValue
  BY <1>5 DEF EndOfValue, args
<1>6. CASE TrailingStar
  BY <1>6 DEF TrailingStar, StarNext, args
<1>7. CASE Return
  BY <1>7 DEF Return, args
<1>8. CASE UNCHANGED vars
  BY <1>8 DEF vars
<1>9. QED
  BY <1>1, <1>2, <1>3, <1>4, <1>5, <1>6, <1>7, <1>8 DEF Next

LEMMA SeeStarStep == IInv /\ SeeStar => IInv'
<1> SUFFICES ASSUME IInv, SeeStar PROVE IInv'
  OBVIOUS
<1> USE DEF SeeStar, InMatch, StarNext, args
<1>1. TypeOK /\ TypeOK' /\ Reached(p, v) /\ StarInv /\ LossFree
  BY TypeStep DEF IInv, Next
<1>2. p \in 0..(Len(pattern) - 1) /\ v \in 0..Len(value) /\ Len(pattern) \in Nat /\ Len(value) \in Nat
  BY <1>1 DEF TypeOK
<1>3. Reached(p, v)' /\ Reached(p + 1, v)
  <2>1. PICK c \in Cuts(pattern, value) : CutsUpTo(pattern, value, c, p) /\ c[p] = v
    BY <1>1 DEF Reached
  <2>2. Fits(pattern, value, p + 1, c[p], v)
    BY <2>1, <1>2 DEF Fits
  <2>3. \E d \in Cuts(pattern, value) : CutsUpTo(pattern, value, d, p + 1) /\ d[p + 1] = v
    BY <2>1, <2>2, <1>1, <1>2, Extend DEF TypeOK
  <2>4. QED
    BY <2>3 DEF Reached
<1>4. StarInv'
  BY <1>1, <1>2 DEF StarInv, Reached, TypeOK
<1>5. LossFree'
  <2> SUFFICES ASSUME NEW c \in Cuts(pattern, value), Alignment(pattern, value, c)
               PROVE  c[p + 1] >= v /\ c[p + 1] = c[p + 1] + (v - v)
    BY <1>2 DEF LossFree, Pending
  <2>1. c[p] \in 0..Len(value) /\ c[p + 1] \in 0..Len(value)
    <3>1. p \in 0..Len(pattern) /\ p + 1 \in 0..Len(pattern)
      BY <1>2
    <3>2. QED
      BY <3>1, <1>1, CutBounds DEF TypeOK
  <2>2. c[p] <= c[p + 1]
    BY <1>1, <1>2, AtByte DEF TypeOK
  <2>3. c[p] >= v
    <3>1. CASE star = -1
      BY <3>1, <2>1, <1>1, <1>2 DEF LossFree, Pending
    <3>2. CASE star >= 0
      <4>1. c[star + 1] \in Int
        BY <3>2, <1>1, <1>2 DEF TypeOK, StarInv, Cuts
      <4>2. QED
        BY <4>1, <3>2, <2>1, <1>1, <1>2 DEF LossFree, Pending, TypeOK
    <3>3. QED
      BY <3>1, <3>2, <1>1, <1>2 DEF TypeOK
  <2>4. QED
    BY <2>1, <2>2, <2>3, <1>2
<1>6. QED
  BY <1>1, <1>3, <1>4, <1>5 DEF IInv, ResultIsGlob

LEMMA PassByteStep == IInv /\ PassByte => IInv'
<1> SUFFICES ASSUME IInv, PassByte PROVE IInv'
  OBVIOUS
<1> USE DEF PassByte, InMatch, StarNext, ByteNext, args
<1>1. TypeOK /\ TypeOK' /\ Reached(p, v) /\ StarInv /\ LossFree
  BY TypeStep DEF IInv, Next
<1>2. /\ p \in 0..(Len(pattern) - 1) /\ v \in 0..(Len(value) - 1)
      /\ Len(pattern) \in Nat /\ Len(value) \in Nat
      /\ pattern[p + 1] # "*"
  BY <1>1 DEF TypeOK
<1>3. Reached(p + 1, v + 1)
  <2>1. PICK c \in Cuts(pattern, value) : CutsUpTo(pattern, value, c, p) /\ c[p] = v
    BY <1>1 DEF Reached
  <2>2. Fits(pattern, value, p + 1, c[p], v + 1)
    BY <2>1, <1>2 DEF Fits
  <2>3. \E d \in Cuts(pattern, value) : CutsUpTo(pattern, value, d, p + 1) /\ d[p + 1] = v + 1
    BY <2>1, <2>2, <1>1, <1>2, Extend DEF TypeOK
  <2>4. QED
    BY <2>3 DEF Reached
<1>4. StarInv'
  BY <1>1, <1>2 DEF StarInv, Reached, TypeOK
<1>5. LossFree'
  <2> SUFFICES ASSUME NEW c \in Cuts(pattern, value), Alignment(pattern, value, c)
               PROVE  Pending(c)'
    BY <1>2 DEF LossFree
  <2>1. c[p] \in Int /\ c[p + 1] = c[p] + 1
    <3>1. p \in 0..Len(pattern)
      BY <1>2
    <3>2. c[p + 1] = c[p] + 1
      BY <1>1, <1>2, AtByte DEF TypeOK
    <3>3. QED
      BY <3>1, <3>2, <1>1, CutBounds DEF TypeOK
  <2>2. star >= 0 => c[star + 1] \in Int
    <3>1. star >= 0 => star + 1 \in 0..Len(pattern)
      BY <1>1, <1>2 DEF TypeOK
    <3>2. QED
      BY <3>1, <1>1, CutBounds DEF TypeOK
  <2>3. Pending(c)
    BY <1>1 DEF LossFree
  <2>4. QED
    BY <2>1, <2>2, <2>3, <1>1, <1>2 DEF Pending, TypeOK
<1>6. QED
  BY <1>1, <1>3, <1>4, <1>5 DEF IInv, ResultIsGlob, Reached

\* Where the switch finds neither a '*' nor a fitting byte, no alignment cuts the
\* value just there.
LEMMA Stuck ==
    ASSUME TypeOK, pc = "match", v < Len(value), ~StarNext, ~ByteNext,
           NEW c \in Cuts(pattern, value), Alignment(pattern, value, c)
    PROVE  c[p] # v
<1> SUFFICES ASSUME c[p] = v PROVE FALSE
  OBVIOUS
<1>1. p \in 0..Len(pattern) /\ v \in 0..Len(value) /\ Len(pattern) \in Nat /\ Len(value) \in Nat
  BY DEF TypeOK
<1>2. p # Len(pattern)
  BY <1>1 DEF Alignment
<1>3. pattern[p + 1] # "*"
  BY <1>1, <1>2 DEF StarNext
<1>4. pattern[p + 1] = "?" \/ pattern[p + 1] = value[v + 1]
  BY <1>1, <1>2, <1>3, AtByte DEF TypeOK
<1>5. QED
  BY <1>1, <1>2, <1>4 DEF ByteNext

LEMMA BacktrackStep == IInv /\ Backtrack => IInv'
<1> SUFFICES ASSUME IInv, Backtrack PROVE IInv'
  OBVIOUS
<1> USE DEF Backtrack, InMatch, args
<1>1. TypeOK /\ TypeOK' /\ Reached(p, v) /\ StarInv /\ LossFree
  BY TypeStep DEF IInv, Next
<1>2. /\ star \in 0..(p - 1) /\ p \in 0..Len(pattern)
      /\ mark \in 0..v /\ v \in 0..(Len(value) - 1)
      /\ Len(pattern) \in Nat /\ Len(value) \in Nat
      /\ pattern[star + 1] = "*"
  BY <1>1 DEF TypeOK, StarInv
<1>3. Reached(star + 1, mark + 1)
  <2>1. PICK low \in 0..mark : Reached(star, low)
    BY <1>1, <1>2 DEF StarInv
  <2>2. PICK c \in Cuts(pattern, value) : CutsUpTo(pattern, value, c, star) /\ c[star] = low
    BY <2>1 DEF Reached
  <2>3. Fits(pattern, value, star + 1, c[star], mark + 1)
    BY <2>1, <2>2, <1>2 DEF Fits
  <2>4. \E d \in Cuts(pattern, value) :
          CutsUpTo(pattern, value, d, star + 1) /\ d[star + 1] = mark + 1
    BY <2>2, <2>3, <1>1, <1>2, Extend DEF TypeOK
  <2>5. QED
    BY <2>4 DEF Reached
<1>4. StarInv'
  <2>1. PICK low \in 0..mark : Reached(star, low)
    BY <1>1, <1>2 DEF StarInv
  <2>2. low \in 0..(mark + 1) /\ Reached(star, low)'
    BY <2>1, <1>2 DEF Reached
  <2>3. QED
    BY <2>2, <1>2 DEF StarInv
<1>5. LossFree'
  <2> SUFFICES ASSUME NEW c \in Cuts(pattern, value), Alignment(pattern, value, c)
               PROVE  Pending(c)'
    BY <1>2 DEF LossFree
  <2>1. c[p] \in Int /\ c[star + 1] \in Int
    BY <1>2 DEF Cuts
  <2>2. c[star + 1] >= mark /\ c[p] = c[star + 1] + (v - mark)
    BY <1>1, <1>2 DEF LossFree, Pending
  <2>3. c[p] # v
    BY <1>1, Stuck
  <2>4. c[star + 1] >= mark + 1
    BY <2>1, <2>2, <2>3, <1>2
  <2>5. QED
    BY <2>1, <2>4, <1>2 DEF Pending
<1>6. QED
  BY <1>1, <1>3, <1>4, <1>5 DEF IInv, ResultIsGlob, Reached

LEMMA MismatchStep == IInv /\ Mismatch => IInv'
<1> SUFFICES ASSUME IInv, Mismatch PROVE IInv'
  OBVIOUS
<1> USE DEF Mismatch, InMatch, args
<1>1. TypeOK /\ TypeOK' /\ LossFree /\ star = -1
  BY TypeStep DEF IInv, Next, TypeOK
<1>2. ~Glob(pattern, value)
  BY <1>1, Stuck DEF Glob, LossFree, Pending
<1>3. QED
  BY <1>1, <1>2 DEF IInv, ResultIsGlob

LEMMA EndOfValueStep == IInv /\ EndOfValue => IInv'
<1> SUFFICES ASSUME IInv, EndOfValue PROVE IInv'
  OBVIOUS
<1> USE DEF EndOfValue, args
<1>1. TypeOK /\ TypeOK' /\ Reached(p, v) /\ StarInv /\ LossFree
  BY TypeStep DEF IInv, Next
<1>2. v = Len(value) /\ p \in 0..Len(pattern) /\ Len(value) \in Nat /\ Len(pattern) \in Nat
  BY <1>1 DEF TypeOK
<1>3. UsedUp
  <2> SUFFICES ASSUME NEW c \in Cuts(pattern, value), Alignment(pattern, value, c)
               PROVE  c[p] = v
    BY <1>2 DEF UsedUp
  <2>1. c[p] \in 0..Len(value) /\ Pending(c)
    BY <1>1, <1>2 DEF Cuts, LossFree
  <2>2. CASE star = -1
    BY <2>1, <2>2 DEF Pending
  <2>3. CASE star >= 0
    <3>1. c[star + 1] \in Int
      BY <2>3, <1>1, <1>2 DEF TypeOK, StarInv, Cuts
    <3>2. QED
      BY <3>1, <2>1, <2>3, <1>1, <1>2 DEF Pending, TypeOK
  <2>4. QED
    BY <2>2, <2>3, <1>1, <1>2 DEF TypeOK
<1>4. UsedUp'
  BY <1>3 DEF UsedUp
<1>5. QED
  BY <1>1, <1>4 DEF IInv, ResultIsGlob, Reached

LEMMA TrailingStarStep == IInv /\ TrailingStar => IInv'
<1> SUFFICES ASSUME IInv, TrailingStar PROVE IInv'
  OBVIOUS
<1> USE DEF TrailingStar, StarNext, args
<1>1. TypeOK /\ TypeOK' /\ Reached(p, v) /\ UsedUp
  BY TypeStep DEF IInv, Next
<1>2. /\ p \in 0..(Len(pattern) - 1) /\ v = Len(value)
      /\ Len(pattern) \in Nat /\ Len(value) \in Nat
  BY <1>1 DEF TypeOK, UsedUp
<1>3. Reached(p + 1, v)
  <2>1. PICK c \in Cuts(pattern, value) : CutsUpTo(pattern, value, c, p) /\ c[p] = v
    BY <1>1 DEF Reached
  <2>2. Fits(pattern, value, p + 1, c[p], v)
    BY <2>1, <1>2 DEF Fits
  <2>3. \E d \in Cuts(pattern, value) : CutsUpTo(pattern, value, d, p + 1) /\ d[p + 1] = v
    BY <2>1, <2>2, <1>1, <1>2, Extend DEF TypeOK
  <2>4. QED
    BY <2>3 DEF Reached
<1>4. UsedUp'
  <2> SUFFICES ASSUME NEW c \in Cuts(pattern, value), Alignment(pattern, value, c)
               PROVE  c[p + 1] = v
    BY <1>2 DEF UsedUp
  <2>1. c[p + 1] \in 0..Len(value) /\ c[p] = v
    BY <1>1, <1>2 DEF Cuts, UsedUp
  <2>2. c[p] <= c[p + 1]
    BY <1>1, <1>2, AtByte DEF TypeOK
  <2>3. QED
    BY <2>1, <2>2, <1>2
<1>5. QED
  BY <1>1, <1>3, <1>4 DEF IInv, ResultIsGlob, Reached

LEMMA ReturnStep == IInv /\ Return => IInv'
<1> SUFFICES ASSUME IInv, Return PROVE IInv'
  OBVIOUS
<1> USE DEF Return, StarNext, args
<1>1. TypeOK /\ TypeOK' /\ Reached(p, v) /\ UsedUp
  BY TypeStep DEF IInv, Next
<1>2. /\ p \in 0..Len(pattern) /\ v = Len(value)
      /\ Len(pattern) \in Nat /\ Len(value) \in Nat
  BY <1>1 DEF TypeOK, UsedUp
<1>3. CASE p = Len(pattern)
  <2>1. Glob(pattern, value)
    BY <1>1, <1>2, <1>3 DEF Reached, Glob, Alignment
  <2>2. QED
    BY <1>1, <1>3, <2>1 DEF IInv, ResultIsGlob
<1>4. CASE p < Len(pattern)
  <2>1. ~Glob(pattern, value)
    <3> SUFFICES ASSUME NEW c \in Cuts(pattern, value), Alignment(pattern, value, c)
                 PROVE  FALSE
      BY DEF Glob
    <3>1. c[p + 1] \in 0..Len(value) /\ c[p] = v
      BY <1>1, <1>2, <1>4 DEF Cuts, UsedUp
    <3>2. c[p + 1] = c[p] + 1
      BY <1>1, <1>2, <1>4, AtByte DEF TypeOK
    <3>3. QED
      BY <3>1, <3>2, <1>2
  <2>2. p # Len(pattern)
    BY <1>2, <1>4
  <2>3. ~matched'
    BY <2>2, Zenon
  <2>4. ~Glob(pattern, value)'
    BY <2>1
  <2>5. QED
    BY <1>1, <2>3, <2>4 DEF IInv, ResultIsGlob
<1>5. QED
  BY <1>2, <1>3, <1>4

\* The invariant is inductive.
LEMMA StepIInv == IInv /\ [Next]_vars => IInv'
<1> SUFFICES ASSUME IInv, [Next]_vars PROVE IInv'
  OBVIOUS
<1>1. CASE UNCHANGED vars
  BY <1>1 DEF vars, IInv, TypeOK, Reached, StarInv, LossFree, Pending, UsedUp, ResultIsGlob
<1>2. QED
  BY <1>1, SeeStarStep, PassByteStep, BacktrackStep, MismatchStep, EndOfValueStep,
     TrailingStarStep, ReturnStep DEF Next

\* The scan only ever moves on: between two iterations of the first loop either a
\* later '*' takes over, or the current one swallows more, or p grows.
LEMMA StepAdvances == IInv /\ [Next]_vars => (pc = "match" /\ pc' = "match" => Advances) \/ UNCHANGED vars
<1> SUFFICES ASSUME IInv, Next, pc = "match", pc' = "match" PROVE Advances
  OBVIOUS
<1>1. TypeOK /\ StarInv
  BY DEF IInv
<1> USE DEF Advances, TypeOK, InMatch, args
<1>2. CASE SeeStar
  BY <1>1, <1>2 DEF SeeStar, StarInv
<1>3. CASE PassByte
  BY <1>1, <1>3 DEF PassByte
<1>4. CASE Backtrack
  BY <1>1, <1>4 DEF Backtrack
<1>5. CASE Mismatch \/ EndOfValue \/ TrailingStar \/ Return
  BY <1>5 DEF Mismatch, EndOfValue, TrailingStar, Return
<1>6. QED
  BY <1>2, <1>3, <1>4, <1>5 DEF Next

-----------------------------------------------------------------------------

LEMMA Inductive == Spec => []IInv
BY InitIInv, StepIInv, PTL DEF Spec

\* The locals stay within the strings: no index of the code is out of range.
THEOREM TypeCorrect == Spec => []TypeOK
<1>1. IInv => TypeOK
  BY DEF IInv
<1>2. QED
  BY <1>1, Inductive, PTL

\* wildcardMatch answers TRUE for the matching pairs of pattern and value and for
\* no others, although it keeps a single backtrack point.
THEOREM WildcardCorrect == Spec => []ResultIsGlob
<1>1. IInv => ResultIsGlob
  BY DEF IInv
<1>2. QED
  BY <1>1, Inductive, PTL

\* Every iteration of its first loop makes progress in a lexicographic order with
\* the bounds of TypeOK, so that no pattern makes it exponential.
THEOREM WildcardProgress == Spec => Progress
<1>1. IInv /\ [Next]_vars => [pc = "match" /\ pc' = "match" => Advances]_vars
  BY StepAdvances
<1>2. QED
  BY <1>1, Inductive, PTL DEF Spec, Progress

-----------------------------------------------------------------------------

\* The call in progress is the one for the pattern at hand.
CallInv ==
    lpc = "call" =>
        /\ tried < Len(patterns)
        /\ negated = Negated(patterns[tried + 1])
        /\ pattern = Bare(patterns[tried + 1])

\* What the patterns dealt with so far said.
SoFar ==
    lpc # "done" =>
        /\ listed <=> \E k \in 1..tried : ~Negated(patterns[k]) /\ Glob(patterns[k], value)
        /\ \A k \in 1..tried : Negated(patterns[k]) => ~Glob(Bare(patterns[k]), value)

ListIInv == ListTypeOK /\ IInv /\ CallInv /\ SoFar /\ NegationWins

LEMMA BareType == ASSUME NEW pat \in Seq(Byte) PROVE Bare(pat) \in Seq(Byte)
BY DEF Bare, Negated

LEMMA ListInitIInv == ListInit => ListIInv
<1> SUFFICES ASSUME ListInit PROVE ListIInv
  OBVIOUS
<1> USE DEF ListInit
<1>1. patterns \in Seq(Seq(Byte)) /\ value \in Seq(Byte)
  BY CallsAssumption
<1>2. TypeOK
  <2>1. Len(pattern) = 0 /\ Len(value) \in Nat /\ pattern \in Seq(Byte)
    BY <1>1
  <2>2. matched \in BOOLEAN
    OBVIOUS
  <2>3. QED
    BY <1>1, <2>1, <2>2 DEF TypeOK
<1>3. ListTypeOK
  <2>1. negated \in BOOLEAN /\ listed \in BOOLEAN /\ verdict \in BOOLEAN
    OBVIOUS
  <2>2. Len(patterns) \in Nat
    BY <1>1
  <2>3. QED
    BY <1>1, <1>2, <2>1, <2>2 DEF ListTypeOK
<1>4. IInv
  BY <1>2 DEF IInv, ResultIsGlob
<1>5. QED
  BY <1>3, <1>4 DEF ListIInv, CallInv, SoFar, NegationWins

LEMMA CallWildcardStep == ListIInv /\ CallWildcard => ListIInv'
<1> SUFFICES ASSUME ListIInv, CallWildcard PROVE ListIInv'
  OBVIOUS
<1> USE DEF CallWildcard
<1>1. ListTypeOK /\ TypeOK
  BY DEF ListIInv, ListTypeOK
<1>2. patterns[tried + 1] \in Seq(Byte) /\ Bare(patterns[tried + 1]) \in Seq(Byte)
  BY <1>1, BareType DEF ListTypeOK
<1>3. Init'
  BY <1>1, <1>2 DEF Init, TypeOK
<1>4. IInv' /\ TypeOK'
  <2>1. Init' => IInv'
    BY InitIInv, PTL
  <2>2. QED
    BY <1>3, <2>1 DEF IInv
<1>5. ListTypeOK'
  <2>1. negated' \in BOOLEAN
    BY DEF Negated
  <2>2. QED
    BY <1>1, <1>4, <2>1 DEF ListTypeOK
<1>6. CallInv' /\ SoFar' /\ NegationWins'
  BY DEF ListIInv, CallInv, SoFar, NegationWins
<1>7. QED
  BY <1>4, <1>5, <1>6 DEF ListIInv

LEMMA WildcardCallStep == ListIInv /\ Wildcard => ListIInv'
<1> SUFFICES ASSUME ListIInv, Wildcard PROVE ListIInv'
  OBVIOUS
<1>1. IInv' /\ TypeOK'
  BY StepIInv DEF ListIInv, Wildcard, IInv
<1>2. UNCHANGED <<listVars, args>>
  BY DEF Wildcard, Next, SeeStar, PassByte, Backtrack, Mismatch, EndOfValue, TrailingStar,
         Return, args
<1>3. QED
  BY <1>1, <1>2 DEF ListIInv, ListTypeOK, CallInv, SoFar, NegationWins, listVars, args

\* The verdict of wildcardMatch extends what is known by one pattern.
LEMMA CallDone ==
    ASSUME ListIInv, lpc = "call", pc = "done"
    PROVE  /\ tried + 1 \in 1..Len(patterns) /\ tried \in Nat
           /\ matched <=> Glob(Bare(patterns[tried + 1]), value)
           /\ negated <=> Negated(patterns[tried + 1])
           /\ ~negated => Bare(patterns[tried + 1]) = patterns[tried + 1]
<1>1. tried + 1 \in 1..Len(patterns) /\ tried \in Nat
  BY DEF ListIInv, ListTypeOK, CallInv
<1>2. matched <=> Glob(Bare(patterns[tried + 1]), value)
  BY DEF ListIInv, IInv, ResultIsGlob, CallInv
<1>3. negated <=> Negated(patterns[tried + 1])
  BY DEF ListIInv, CallInv
<1>4. QED
  BY <1>1, <1>2, <1>3 DEF Bare

LEMMA NoMatchStep == ListIInv /\ NoMatch => ListIInv'
<1> SUFFICES ASSUME ListIInv, NoMatch PROVE ListIInv'
  OBVIOUS
<1> USE DEF NoMatch
<1>1. /\ tried + 1 \in 1..Len(patterns) /\ tried \in Nat
      /\ ~Glob(Bare(patterns[tried + 1]), value)
      /\ ~Negated(patterns[tried + 1]) => ~Glob(patterns[tried + 1], value)
  BY CallDone
<1>2. \A k \in 1..(tried + 1) : k \in 1..tried \/ k = tried + 1
  BY <1>1
<1>3. SoFar'
  BY <1>1, <1>2 DEF ListIInv, SoFar, vars
<1>4. ListTypeOK' /\ IInv'
  BY <1>1, StepIInv DEF ListIInv, ListTypeOK, IInv
<1>5. QED
  BY <1>3, <1>4 DEF ListIInv, CallInv, NegationWins

LEMMA IncludeStep == ListIInv /\ Include => ListIInv'
<1> SUFFICES ASSUME ListIInv, Include PROVE ListIInv'
  OBVIOUS
<1> USE DEF Include
<1>1. /\ tried + 1 \in 1..Len(patterns) /\ tried \in Nat
      /\ ~Negated(patterns[tried + 1]) /\ Glob(patterns[tried + 1], value)
  BY CallDone
<1>2. \A k \in 1..(tried + 1) : k \in 1..tried \/ k = tried + 1
  BY <1>1
<1>3. SoFar'
  BY <1>1, <1>2 DEF ListIInv, SoFar, vars
<1>4. ListTypeOK' /\ IInv'
  BY <1>1, StepIInv DEF ListIInv, ListTypeOK, IInv
<1>5. QED
  BY <1>3, <1>4 DEF ListIInv, CallInv, NegationWins

LEMMA ExcludeStep == ListIInv /\ Exclude => ListIInv'
<1> SUFFICES ASSUME ListIInv, Exclude PROVE ListIInv'
  OBVIOUS
<1> USE DEF Exclude
<1>1. /\ tried + 1 \in DOMAIN patterns
      /\ Negated(patterns[tried + 1]) /\ Glob(Bare(patterns[tried + 1]), value)
  <2>1. patterns \in Seq(Seq(Byte))
    BY DEF ListIInv, ListTypeOK
  <2>2. QED
    BY <2>1, CallDone
<1>2. ~ListAccepts(patterns, value)
  BY <1>1 DEF ListAccepts
<1>3. NegationWins'
  BY <1>2 DEF NegationWins, vars
<1>4. ListTypeOK' /\ IInv'
  BY StepIInv DEF ListIInv, ListTypeOK, IInv
<1>5. QED
  BY <1>3, <1>4 DEF ListIInv, CallInv, SoFar

LEMMA EndOfListStep == ListIInv /\ EndOfList => ListIInv'
<1> SUFFICES ASSUME ListIInv, EndOfList PROVE ListIInv'
  OBVIOUS
<1> USE DEF EndOfList
<1>1. DOMAIN patterns = 1..tried
  BY DEF ListIInv, ListTypeOK
<1>2. listed <=> ListAccepts(patterns, value)
  BY <1>1 DEF ListIInv, SoFar, ListAccepts
<1>3. NegationWins'
  BY <1>2 DEF NegationWins, vars
<1>4. ListTypeOK' /\ IInv'
  BY StepIInv DEF ListIInv, ListTypeOK, IInv
<1>5. QED
  BY <1>3, <1>4 DEF ListIInv, CallInv, SoFar

LEMMA ListStepIInv == ListIInv /\ [ListNext]_allVars => ListIInv'
<1> SUFFICES ASSUME ListIInv, [ListNext]_allVars PROVE ListIInv'
  OBVIOUS
<1>1. CASE UNCHANGED allVars
  <2>1. IInv' /\ TypeOK'
    BY <1>1, StepIInv DEF allVars, ListIInv, IInv
  <2>2. QED
    BY <1>1, <2>1 DEF allVars, vars, listVars, ListIInv, ListTypeOK, CallInv, SoFar, NegationWins
<1>2. QED
  BY <1>1, CallWildcardStep, WildcardCallStep, NoMatchStep, IncludeStep, ExcludeStep,
     EndOfListStep DEF ListNext

\* patternsMatch returns TRUE exactly for the values its list includes and does not
\* exclude, whatever the order of the patterns: "A negated match takes precedence".
THEOREM PatternListCorrect == ListSpec => []NegationWins
<1>1. ListIInv => NegationWins
  BY DEF ListIInv
<1>2. QED
  BY <1>1, ListInitIInv, ListStepIInv, PTL DEF ListSpec

-----------------------------------------------------------------------------
(***************************************************************************)
(* A line is read as the grammar has it, whatever the lines are.           *)
(*                                                                         *)
(* The grammar allows any way to divide a text; the parser divides it from *)
(* left to right, where no quote is open.  The two meet in four steps.     *)
(* First, whether a quote is open before a symbol (Open), which tells how  *)
(* a run of plain or of quoted text leaves it, and that a piece that       *)
(* begins where none is has the same quotes open.  Then, that a principals *)
(* text, a list of options and a type and key that the grammar has are     *)
(* what the parser finds in a field (NamedSound, OptionsSplit,             *)
(* TypeKeySound), and the other way round.  With that KeptIs, which is     *)
(* what the parser keeps of a text as one condition, has at most one       *)
(* entry, and it is the one that the grammar reads (KeptReads, NoneKept).  *)
(* Last, LineInv: the steps of the parser decide KeptIs.                   *)
(***************************************************************************)

\* The numbers are well-founded, which stands in for induction throughout.
LEMMA LeastOf ==
    ASSUME NEW S \in SUBSET Nat, S # {}
    PROVE  \E k \in S : \A m \in S : k <= m
<1>1. PICK k \in S : \A m \in S : ~ (<<m, k>> \in OpToRel(<, Nat))
  BY WFMin, NatLessThanWellFounded, Zenon
<1>2. \A m \in S : ~(m < k)
  BY <1>1 DEF OpToRel
<1>3. QED
  BY <1>2

LEMMA GreatestOf ==
    ASSUME NEW n \in Nat, NEW S \in SUBSET (0..n), S # {}
    PROVE  \E k \in S : \A m \in S : m <= k
<1> DEFINE From == {n - m : m \in S}
<1>1. From \in SUBSET Nat /\ From # {}
  <2>1. \A m \in S : n - m \in Nat
    OBVIOUS
  <2>2. PICK m \in S : TRUE
    OBVIOUS
  <2>3. n - m \in From
    BY <2>2, Zenon
  <2>4. QED
    BY <2>1, <2>3, Zenon
<1>2. PICK l \in From : \A m \in From : l <= m
  BY <1>1, LeastOf, Zenon
<1>3. PICK k \in S : l = n - k
  BY <1>2
<1>4. \A m \in S : l <= n - m
  BY <1>2
<1>5. \A m \in S : m \in 0..n
  OBVIOUS
<1> HIDE DEF From
<1>6. \A m \in S : m <= k
  BY <1>3, <1>4, <1>5
<1>7. QED
  BY <1>6

-----------------------------------------------------------------------------

\* What the recursive function says of the quotes before a place.
Opens(s, f, i) == i > 1 /\ f[i - 1] # (/\ s[i - 1] = Quote
                                       /\ ~(f[i - 1] /\ s[i - 2] = Back))
Solves(s, f, m) == f = [i \in 1..m |-> Opens(s, f, i)]

LEMMA OpensAlike ==
    ASSUME NEW s, NEW f, NEW g, NEW i \in Int, i > 1 => f[i - 1] = g[i - 1]
    PROVE  Opens(s, f, i) = Opens(s, g, i)
<1>1. CASE i > 1
  <2>1. f[i - 1] = g[i - 1]
    BY <1>1
  <2>2. QED
    BY <2>1, Zenon DEF Opens
<1>2. CASE ~(i > 1)
  BY <1>2, Zenon DEF Opens
<1>3. QED
  BY <1>1, <1>2

LEMMA SolvesOn ==
    ASSUME NEW s, NEW m \in Nat, NEW f, Solves(s, f, m)
    PROVE  \E g : Solves(s, g, m + 1)
<1> DEFINE g == [i \in 1..m + 1 |-> IF i <= m THEN f[i] ELSE Opens(s, f, i)]
           h == [i \in 1..m + 1 |-> Opens(s, g, i)]
<1>1. \A i \in 1..m : f[i] = Opens(s, f, i)
  BY Zenon DEF Solves
<1>2. ASSUME NEW i \in 1..m + 1 PROVE Opens(s, f, i) = Opens(s, g, i)
  <2>1. i > 1 => i - 1 <= m /\ i - 1 \in 1..m + 1
    OBVIOUS
  <2>2. i > 1 => f[i - 1] = g[i - 1]
    BY <2>1
  <2>3. i \in Int
    OBVIOUS
  <2> HIDE DEF g
  <2>4. QED
    BY <2>2, <2>3, OpensAlike, Zenon
<1>3. ASSUME NEW i \in 1..m + 1 PROVE g[i] = Opens(s, f, i)
  <2>1. CASE i <= m
    <3>1. i \in 1..m
      BY <2>1
    <3>2. g[i] = f[i]
      BY <2>1
    <3>3. QED
      BY <1>1, <3>1, <3>2, Zenon
  <2>2. CASE ~(i <= m)
    BY <2>2
  <2>3. QED
    BY <2>1, <2>2
<1>4. \A i \in 1..m + 1 : g[i] = h[i]
  <2>1. \A i \in 1..m + 1 : h[i] = Opens(s, g, i)
    BY Zenon
  <2> HIDE DEF g, h
  <2>2. QED
    BY <1>2, <1>3, <2>1
<1>5. g = h
  BY <1>4, Zenon
<1>6. QED
  BY <1>5, Zenon DEF Solves

\* Every text has such a function: else there is a least place up to which it has none.
LEMMA SolvesExists == \A s : \A m \in Nat : \E f : Solves(s, f, m)
<1> SUFFICES ASSUME NEW s, \E m \in Nat : ~\E f : Solves(s, f, m) PROVE FALSE
  BY Zenon
<1> DEFINE Unsolved == {m \in Nat : ~\E f : Solves(s, f, m)}
<1>1. PICK m \in Unsolved : \A k \in Unsolved : m <= k
  <2>1. Unsolved \in SUBSET Nat /\ Unsolved # {}
    BY Zenon
  <2> HIDE DEF Unsolved
  <2>2. QED
    BY <2>1, LeastOf, Zenon
<1>2. CASE m = 0
  <2>1. 1..0 = {}
    OBVIOUS
  <2> DEFINE f == [i \in 1..0 |-> TRUE]
             g == [i \in 1..0 |-> Opens(s, f, i)]
  <2>2. f = g
    BY <2>1, Zenon
  <2>3. Solves(s, f, 0)
    BY <2>2, Zenon DEF Solves
  <2>4. QED
    BY <1>1, <1>2, <2>3, Zenon
<1>3. CASE m # 0
  <2>1. m - 1 \in Nat /\ ~(m <= m - 1) /\ (m - 1) + 1 = m
    BY <1>1, <1>3
  <2>2. m - 1 \notin Unsolved
    BY <1>1, <2>1, Zenon
  <2>3. PICK f : Solves(s, f, m - 1)
    BY <2>1, <2>2, Zenon
  <2>4. \E g : Solves(s, g, (m - 1) + 1)
    BY <2>1, <2>3, SolvesOn, Zenon
  <2>5. QED
    BY <1>1, <2>1, <2>4, Zenon
<1>4. QED
  BY <1>2, <1>3, Zenon

\* Whether a quote is open before s[i].
Open(s, i) == InQuote(s)[i]

\* So InQuote is what its definition says.
LEMMA OpenIs ==
    ASSUME NEW s, Len(s) \in Nat, NEW i \in 1..Len(s) + 1
    PROVE  Open(s, i) = Opens(s, InQuote(s), i)
<1> DEFINE f == InQuote(s)
<1>1. f = CHOOSE g : Solves(s, g, Len(s) + 1)
  BY DEF InQuote, Solves, Opens
<1>2. Len(s) + 1 \in Nat
  OBVIOUS
<1>3. Solves(s, f, Len(s) + 1)
  BY <1>1, <1>2, SolvesExists, Zenon
<1> HIDE DEF f
<1>4. f = [j \in 1..Len(s) + 1 |-> Opens(s, f, j)]
  BY <1>3, Zenon DEF Solves
<1>5. f[i] = Opens(s, f, i)
  BY <1>4, Zenon
<1>6. QED
  BY <1>5, Zenon DEF Open, f

\* How a symbol opens and closes a quote.
OpenStep(s, i) ==
    /\ s[i] # Quote => (Open(s, i + 1) <=> Open(s, i))
    /\ s[i] = Quote /\ ~Open(s, i) => Open(s, i + 1)
    /\ s[i] = Quote /\ Open(s, i) => (Open(s, i + 1) <=> s[i - 1] = Back)

\* A quote opens and closes as the scanner has it, symbol by symbol.
LEMMA OpenFacts ==
    ASSUME NEW s \in Seq(Symbol)
    PROVE  ~Open(s, 1) /\ \A i \in 1..Len(s) : OpenStep(s, i)
<1>1. Len(s) \in Nat
  OBVIOUS
<1>2. ~Open(s, 1)
  <2>1. 1 \in 1..Len(s) + 1 /\ ~(1 > 1)
    BY <1>1
  <2>2. Open(s, 1) = Opens(s, InQuote(s), 1)
    BY <1>1, <2>1, OpenIs, Zenon
  <2>3. ~Opens(s, InQuote(s), 1)
    BY <2>1, Zenon DEF Opens
  <2>4. QED
    BY <2>2, <2>3, Zenon
<1>3. ASSUME NEW i \in 1..Len(s) PROVE OpenStep(s, i)
  <2>0. i \in Nat /\ i + 1 \in 1..Len(s) + 1 /\ i + 1 > 1 /\ (i + 1) - 1 = i /\ (i + 1) - 2 = i - 1
    BY <1>1
  <2>1. Open(s, i + 1) = Opens(s, InQuote(s), i + 1)
    BY <1>1, <2>0, OpenIs, Zenon
  <2>2. Opens(s, InQuote(s), i + 1) = (InQuote(s)[i] # (s[i] = Quote /\ ~(InQuote(s)[i] /\ s[i - 1] = Back)))
    BY <2>0, Zenon DEF Opens
  <2>3. InQuote(s)[i] \in BOOLEAN
    <3>1. i \in 1..Len(s) + 1
      BY <1>1
    <3>2. Open(s, i) = Opens(s, InQuote(s), i)
      BY <1>1, <3>1, OpenIs, Zenon
    <3>3. Opens(s, InQuote(s), i) \in BOOLEAN
      BY Zenon DEF Opens
    <3>4. QED
      BY <3>2, <3>3, Zenon DEF Open
  <2>4. Open(s, i + 1) = (InQuote(s)[i] # (s[i] = Quote /\ ~(InQuote(s)[i] /\ s[i - 1] = Back)))
    BY <2>1, <2>2, Zenon
  <2>5. CASE InQuote(s)[i] = TRUE
    BY <2>4, <2>5, Zenon DEF OpenStep, Open
  <2>6. CASE InQuote(s)[i] = FALSE
    BY <2>4, <2>6, Zenon DEF OpenStep, Open
  <2>7. QED
    BY <2>3, <2>5, <2>6, Zenon
<1>4. QED
  BY <1>2, <1>3, Zenon

-----------------------------------------------------------------------------
\* Pieces of a text, and the first of some places.

\* Where no quote is open, none is while there are no quotes.
LEMMA PlainRun ==
    ASSUME NEW s \in Seq(Symbol), NEW a \in 1..Len(s) + 1, NEW b \in a - 1..Len(s), ~Open(s, a),
           \A i \in a..b : s[i] # Quote
    PROVE  \A i \in a..b + 1 : ~Open(s, i)
<1> DEFINE S == {i \in a..b + 1 : Open(s, i)}
<1>0. Len(s) \in Nat /\ a \in Int /\ b \in Int
  OBVIOUS
<1>1. \A i \in 1..Len(s) : OpenStep(s, i)
  BY OpenFacts
<1> SUFFICES ASSUME S # {} PROVE FALSE
  OBVIOUS
<1>2. PICK k \in S : \A m \in S : k <= m
  <2>1. S \in SUBSET Nat
    BY <1>0
  <2>2. QED
    BY <2>1, LeastOf, Zenon
<1>3. k # a /\ k - 1 \in a..b /\ k - 1 \notin S
  BY <1>0, <1>2
<1>4. OpenStep(s, k - 1) /\ s[k - 1] # Quote /\ ~Open(s, k - 1) /\ (k - 1) + 1 = k
  BY <1>0, <1>1, <1>3
<1>5. ~Open(s, k)
  BY <1>4 DEF OpenStep
<1>6. QED
  BY <1>2, <1>5

\* A quote is open throughout a quoted text, and closed after it unless that ends with a backslash.
LEMMA QuotedRun ==
    ASSUME NEW s \in Seq(Symbol), NEW o \in 1..Len(s), NEW c \in 1..Len(s), o < c,
           ~Open(s, o), s[o] = Quote, s[c] = Quote,
           \A i \in o + 1..c - 1 : s[i] = Quote => s[i - 1] = Back
    PROVE  /\ \A i \in o + 1..c : Open(s, i)
           /\ Open(s, c + 1) <=> s[c - 1] = Back
<1> DEFINE S == {i \in o + 1..c : ~Open(s, i)}
<1>0. Len(s) \in Nat /\ o \in Nat /\ c \in Nat
  OBVIOUS
<1>1. \A i \in 1..Len(s) : OpenStep(s, i)
  BY OpenFacts
<1>2. S = {}
  <2> SUFFICES ASSUME S # {} PROVE FALSE
    OBVIOUS
  <2>1. PICK k \in S : \A m \in S : k <= m
    <3>1. S \in SUBSET Nat
      BY <1>0
    <3>2. QED
      BY <3>1, LeastOf, Zenon
  <2>2. CASE k = o + 1
    <3>1. OpenStep(s, o)
      BY <1>1
    <3>2. Open(s, k)
      BY <2>2, <3>1 DEF OpenStep
    <3>3. QED
      BY <2>1, <3>2
  <2>3. CASE k # o + 1
    <3>1. k - 1 \in o + 1..c - 1 /\ k - 1 \notin S /\ k - 1 \in 1..Len(s)
      BY <1>0, <2>1, <2>3
    <3>2. OpenStep(s, k - 1) /\ Open(s, k - 1) /\ (k - 1) + 1 = k
      BY <1>0, <1>1, <3>1
    <3>3. s[k - 1] = Quote => s[(k - 1) - 1] = Back
      BY <3>1
    <3>4. Open(s, k)
      BY <3>2, <3>3 DEF OpenStep
    <3>5. QED
      BY <2>1, <3>4
  <2>4. QED
    BY <2>2, <2>3
<1>3. c \in o + 1..c /\ OpenStep(s, c)
  BY <1>0, <1>1
<1>4. Open(s, c)
  BY <1>2, <1>3
<1>5. QED
  BY <1>2, <1>3, <1>4 DEF OpenStep

LEMMA PieceOf ==
    ASSUME NEW s \in Seq(Symbol), NEW a \in 1..Len(s) + 1, NEW b \in a - 1..Len(s)
    PROVE  /\ SubSeq(s, a, b) \in Seq(Symbol)
           /\ Len(SubSeq(s, a, b)) = b - a + 1
           /\ \A i \in 1..b - a + 1 : SubSeq(s, a, b)[i] = s[a + i - 1]
OBVIOUS

\* In a piece that begins where no quote is open, the same quotes are open.
LEMMA OpenInPiece ==
    ASSUME NEW s \in Seq(Symbol), NEW a \in 1..Len(s) + 1, NEW b \in a - 1..Len(s), ~Open(s, a)
    PROVE  \A i \in 1..b - a + 2 : Open(SubSeq(s, a, b), i) <=> Open(s, a + i - 1)
<1> DEFINE x == SubSeq(s, a, b)
           S == {i \in 1..b - a + 2 : ~(Open(x, i) <=> Open(s, a + i - 1))}
<1>0. Len(s) \in Nat /\ a \in Nat /\ b \in Int /\ a <= b + 1 /\ a >= 1 /\ b <= Len(s)
  OBVIOUS
<1>1. x \in Seq(Symbol) /\ Len(x) = b - a + 1 /\ \A i \in 1..b - a + 1 : x[i] = s[a + i - 1]
  BY PieceOf
<1> HIDE DEF x
<1>2. \A i \in 1..Len(s) : OpenStep(s, i)
  BY OpenFacts
<1>3. ~Open(x, 1) /\ \A i \in 1..Len(x) : OpenStep(x, i)
  BY <1>1, OpenFacts, Zenon
<1> SUFFICES ASSUME S # {} PROVE FALSE
  BY DEF x
<1>4. PICK k \in S : \A m \in S : k <= m
  <2>1. S \in SUBSET Nat
    BY <1>0
  <2> HIDE DEF S
  <2>2. QED
    BY <2>1, LeastOf, Zenon
<1>5. k \in 1..b - a + 2 /\ ~(Open(x, k) <=> Open(s, a + k - 1))
  BY <1>4
<1>6. CASE k = 1
  <2>1. a + 1 - 1 = a
    BY <1>0
  <2>2. QED
    BY <1>3, <1>5, <1>6, <2>1
<1>7. CASE k # 1
  <2> DEFINE j == k - 1
             h == a + j - 1
  <2>1. /\ j \in 1..b - a + 1 /\ j \in 1..b - a + 2 /\ j \in 1..Len(x) /\ h \in 1..Len(s)
        /\ j + 1 = k /\ h + 1 = a + k - 1
        /\ a + (j - 1) - 1 = h - 1
    BY <1>0, <1>1, <1>5, <1>7
  <2>2. Open(x, j) <=> Open(s, h)
    <3>1. ~(k <= j)
      BY <1>0, <1>5
    <3>2. j \notin S
      BY <1>4, <3>1
    <3>3. QED
      BY <2>1, <3>2
  <2>3. OpenStep(x, j) /\ OpenStep(s, h) /\ x[j] = s[h]
    BY <1>1, <1>2, <1>3, <2>1
  <2>4. j # 1 => x[j - 1] = s[h - 1]
    <3>1. j # 1 => j - 1 \in 1..b - a + 1
      BY <1>0, <2>1
    <3>2. QED
      BY <1>1, <2>1, <3>1
  <2> HIDE DEF j, h
  <2>5. Open(x, j) => x[j - 1] = s[h - 1]
    BY <1>3, <2>4
  <2>6. Open(x, j + 1) <=> Open(s, h + 1)
    BY <2>2, <2>3, <2>5 DEF OpenStep
  <2>7. QED
    BY <1>5, <2>1, <2>6
<1>8. QED
  BY <1>6, <1>7

-----------------------------------------------------------------------------

IsUpto(s, places, i, u) ==
    /\ u \in places \cup {Len(s) + 1}
    /\ u \in i..Len(s) + 1
    /\ \A k \in places : k >= i => u <= k

\* The first of the places not before i is that, and the only one that is.
LEMMA UptoFacts ==
    ASSUME NEW s, Len(s) \in Nat, NEW places \in SUBSET (1..Len(s)), NEW i \in 1..Len(s) + 1
    PROVE  IsUpto(s, places, i, Upto(s, places, i))
<1> DEFINE S == {k \in places \cup {Len(s) + 1} : k >= i}
           u == Upto(s, places, i)
<1>1. S \in SUBSET Nat /\ S # {}
  <2>1. \A k \in places \cup {Len(s) + 1} : k \in Nat
    OBVIOUS
  <2>2. Len(s) + 1 \in S
    OBVIOUS
  <2>3. QED
    BY <2>1, <2>2, Zenon
<1>2. PICK k \in S : \A m \in S : k <= m
  BY <1>1, LeastOf, Zenon
<1>3. k \in places \cup {Len(s) + 1} /\ k >= i /\ \A m \in places : m >= i => k <= m
  BY <1>2
<1>4. u \in places \cup {Len(s) + 1} /\ u >= i /\ \A m \in places : m >= i => u <= m
  BY <1>3, Zenon DEF Upto
<1> HIDE DEF u
<1>5. u \in i..Len(s) + 1
  BY <1>4
<1>6. IsUpto(s, places, i, u)
  BY <1>4, <1>5, Zenon DEF IsUpto
<1>7. QED
  BY <1>6 DEF u

LEMMA UptoIs ==
    ASSUME NEW s, Len(s) \in Nat, NEW places \in SUBSET (1..Len(s)), NEW i \in 1..Len(s) + 1,
           NEW u, IsUpto(s, places, i, u)
    PROVE  Upto(s, places, i) = u
<1> DEFINE val == Upto(s, places, i)
<1>1. IsUpto(s, places, i, val)
  BY UptoFacts, Zenon
<1> HIDE DEF val
<1>2. u = val
  BY <1>1 DEF IsUpto
<1>3. QED
  BY <1>2 DEF val

IsWord(s, i, w) ==
    /\ w \in i..Len(s) + 1
    /\ \A x \in i..w - 1 : s[x] = "sp"
    /\ w <= Len(s) => s[w] # "sp"

LEMMA WordsOf ==
    ASSUME NEW s \in Seq(Symbol)
    PROVE  /\ Words(s) \in SUBSET (1..Len(s))
           /\ \A i \in 1..Len(s) : i \in Words(s) <=> s[i] # "sp"
BY DEF Words, Are

\* The next symbol that is no blank, likewise.
LEMMA WordFacts ==
    ASSUME NEW s \in Seq(Symbol), NEW i \in 1..Len(s) + 1
    PROVE  IsWord(s, i, Word(s, i))
<1> DEFINE w == Word(s, i)
<1>0. Len(s) \in Nat
  OBVIOUS
<1>1. Words(s) \in SUBSET (1..Len(s)) /\ \A j \in 1..Len(s) : j \in Words(s) <=> s[j] # "sp"
  BY WordsOf, Zenon
<1>2. IsUpto(s, Words(s), i, w)
  BY <1>0, <1>1, UptoFacts, Zenon DEF Word
<1> HIDE DEF w
<1>3. IsWord(s, i, w)
  BY <1>0, <1>1, <1>2 DEF IsUpto, IsWord
<1>4. QED
  BY <1>3 DEF w

LEMMA WordIs ==
    ASSUME NEW s \in Seq(Symbol), NEW i \in 1..Len(s) + 1, NEW w, IsWord(s, i, w)
    PROVE  Word(s, i) = w
<1>0. Len(s) \in Nat
  OBVIOUS
<1>1. Words(s) \in SUBSET (1..Len(s)) /\ \A j \in 1..Len(s) : j \in Words(s) <=> s[j] # "sp"
  BY WordsOf, Zenon
<1>2. IsUpto(s, Words(s), i, w)
  BY <1>0, <1>1 DEF IsUpto, IsWord
<1>3. QED
  BY <1>0, <1>1, <1>2, UptoIs, Zenon DEF Word

-----------------------------------------------------------------------------
\* Fields: where one ends, and where the next begins.

LEMMA SeqEqual ==
    ASSUME NEW x \in Seq(Symbol), NEW y \in Seq(Symbol), Len(x) = Len(y),
           \A i \in 1..Len(x) : x[i] = y[i]
    PROVE  x = y
<1>1. x = [i \in 1..Len(x) |-> x[i]] /\ y = [i \in 1..Len(y) |-> y[i]]
  OBVIOUS
<1>2. QED
  BY <1>1, Zenon

LastWord(s) == CHOOSE j \in Words(s) \cup {0} : \A k \in Words(s) : k <= j

LEMMA LastWordFacts ==
    ASSUME NEW s \in Seq(Symbol)
    PROVE  /\ LastWord(s) \in Words(s) \cup {0}
           /\ \A k \in Words(s) : k <= LastWord(s)
<1> DEFINE S == Words(s) \cup {0}
<1>1. Len(s) \in Nat /\ S \in SUBSET (0..Len(s)) /\ S # {}
  <2>1. Words(s) \in SUBSET (1..Len(s)) /\ Len(s) \in Nat
    BY WordsOf
  <2>2. \A k \in S : k \in 0..Len(s)
    BY <2>1
  <2>3. 0 \in S
    OBVIOUS
  <2>4. QED
    BY <2>1, <2>2, <2>3, Zenon
<1>2. PICK k \in S : \A m \in S : m <= k
  BY <1>1, GreatestOf, Zenon
<1>3. QED
  BY <1>2, Zenon DEF LastWord

\* The text of a line neither begins nor ends with a blank.
LEMMA TrimFacts ==
    ASSUME NEW s \in Seq(Symbol)
    PROVE  /\ Trim(s) \in Seq(Symbol)
           /\ Trim(s) # <<>> => Trim(s)[1] # "sp" /\ Trim(s)[Len(Trim(s))] # "sp"
<1> DEFINE w == Word(s, 1)
           l == LastWord(s)
           t == Trim(s)
<1>0. Len(s) \in Nat /\ 1 \in 1..Len(s) + 1
  OBVIOUS
<1>1. IsWord(s, 1, w)
  BY <1>0, WordFacts, Zenon
<1>2. l \in Words(s) \cup {0} /\ \A k \in Words(s) : k <= l
  BY LastWordFacts, Zenon
<1>3. Words(s) \in SUBSET (1..Len(s)) /\ \A j \in 1..Len(s) : j \in Words(s) <=> s[j] # "sp"
  BY WordsOf, Zenon
<1>4. t = SubSeq(s, w, l)
  BY Zenon DEF Trim, LastWord
<1> HIDE DEF w, l, t
<1>5. CASE l = 0
  <2>1. w \in Nat /\ w >= 1
    BY <1>0, <1>1 DEF IsWord
  <2>2. t = <<>>
    BY <1>4, <1>5, <2>1
  <2>3. QED
    BY <2>2 DEF t
<1>6. CASE l # 0
  <2>1. l \in 1..Len(s) /\ s[l] # "sp"
    BY <1>2, <1>3, <1>6
  <2>2. w \in 1..l /\ s[w] # "sp"
    BY <1>0, <1>1, <2>1 DEF IsWord
  <2>3. w \in 1..Len(s) + 1 /\ l \in w - 1..Len(s)
    BY <1>0, <2>1, <2>2
  <2>4. t \in Seq(Symbol) /\ Len(t) = l - w + 1 /\ \A i \in 1..l - w + 1 : t[i] = s[w + i - 1]
    BY <1>4, <2>3, PieceOf, Zenon
  <2>5. 1 \in 1..l - w + 1 /\ l - w + 1 \in 1..l - w + 1 /\ w + 1 - 1 = w /\ w + (l - w + 1) - 1 = l
    BY <2>1, <2>2
  <2>6. t[1] = s[w] /\ t[Len(t)] = s[l]
    BY <2>4, <2>5, Zenon
  <2>7. QED
    BY <2>1, <2>2, <2>4, <2>6 DEF t
<1>7. QED
  BY <1>5, <1>6

\* What is left after a key, trimmed, is what is left after the blanks.
LEMMA TrimRest ==
    ASSUME NEW s \in Seq(Symbol), NEW k \in 1..Len(s), s[Len(s)] # "sp"
    PROVE  Trim(SubSeq(s, k + 1, Len(s))) = SubSeq(s, Word(s, k + 1), Len(s))
<1> DEFINE n == Len(s)
           x == SubSeq(s, k + 1, n)
           w == Word(s, k + 1)
<1>0. n \in Nat /\ k + 1 \in 1..n + 1 /\ n \in (k + 1) - 1..n /\ n - (k + 1) + 1 = n - k /\ k \in Nat
  OBVIOUS
<1>1. x \in Seq(Symbol) /\ Len(x) = n - k /\ \A i \in 1..n - k : x[i] = s[(k + 1) + i - 1]
  BY <1>0, PieceOf, Zenon
<1>2. IsWord(s, k + 1, w)
  BY <1>0, WordFacts, Zenon
<1>3. Trim(x) = SubSeq(x, Word(x, 1), LastWord(x))
  BY DEF Trim, LastWord
<1> HIDE DEF n, x, w
<1>4. \A i \in 1..n - k : x[i] = s[k + i]
  BY <1>0, <1>1
<1>5. w \in k + 1..n + 1 /\ (\A i \in k + 1..w - 1 : s[i] = "sp") /\ (w <= n => s[w] # "sp")
  BY <1>2 DEF IsWord, n
<1>6. Word(x, 1) = w - k
  <2>1. 1 \in 1..Len(x) + 1
    BY <1>0, <1>1
  <2>2. w - k \in 1..(n - k) + 1
    BY <1>0, <1>5
  <2>3. \A i \in 1..(w - k) - 1 : x[i] = "sp"
    BY <1>0, <1>4, <1>5
  <2>4. w - k <= n - k => x[w - k] # "sp"
    <3>1. w - k <= n - k => w - k \in 1..n - k /\ k + (w - k) = w /\ w <= n
      BY <1>0, <1>5
    <3>2. QED
      BY <1>4, <1>5, <3>1
  <2>5. IsWord(x, 1, w - k)
    BY <1>1, <2>2, <2>3, <2>4 DEF IsWord
  <2>6. QED
    BY <1>1, <2>1, <2>5, WordIs, Zenon
<1>7. LastWord(x) = n - k
  <2>1. LastWord(x) \in Words(x) \cup {0} /\ \A m \in Words(x) : m <= LastWord(x)
    BY <1>1, LastWordFacts, Zenon
  <2>2. Words(x) \in SUBSET (1..Len(x)) /\ \A j \in 1..Len(x) : j \in Words(x) <=> x[j] # "sp"
    BY <1>1, WordsOf, Zenon
  <2>3. n - k # 0 => x[n - k] # "sp"
    <3>1. n - k # 0 => n - k \in 1..n - k /\ k + (n - k) = n
      BY <1>0
    <3>2. s[n] # "sp"
      BY DEF n
    <3>3. QED
      BY <1>4, <3>1, <3>2
  <2>4. QED
    BY <1>0, <1>1, <2>1, <2>2, <2>3
<1>8. SubSeq(x, w - k, n - k) = SubSeq(s, w, n)
  <2>1. w - k \in 1..Len(x) + 1 /\ n - k \in (w - k) - 1..Len(x) /\ w \in 1..n + 1 /\ n \in w - 1..n
        /\ (n - k) - (w - k) + 1 = n - w + 1
    BY <1>0, <1>1, <1>5
  <2> DEFINE y == SubSeq(x, w - k, n - k)
             z == SubSeq(s, w, n)
  <2>2. y \in Seq(Symbol) /\ Len(y) = n - w + 1 /\ \A i \in 1..n - w + 1 : y[i] = x[(w - k) + i - 1]
    <3>1. y \in Seq(Symbol) /\ Len(y) = (n - k) - (w - k) + 1
          /\ \A i \in 1..(n - k) - (w - k) + 1 : y[i] = x[(w - k) + i - 1]
      BY <1>1, <2>1, PieceOf, Zenon
    <3>2. QED
      BY <2>1, <3>1, Zenon
  <2>3. z \in Seq(Symbol) /\ Len(z) = n - w + 1 /\ \A i \in 1..n - w + 1 : z[i] = s[w + i - 1]
    BY <2>1, PieceOf, Zenon DEF n
  <2> HIDE DEF y, z
  <2>4. \A i \in 1..n - w + 1 : y[i] = z[i]
    <3> SUFFICES ASSUME NEW i \in 1..n - w + 1 PROVE y[i] = z[i]
      OBVIOUS
    <3>1. (w - k) + i - 1 \in 1..n - k /\ k + ((w - k) + i - 1) = w + i - 1
      BY <1>0, <1>5
    <3>2. QED
      BY <1>4, <2>2, <2>3, <3>1
  <2>5. y = z
    BY <2>2, <2>3, <2>4, SeqEqual, Zenon
  <2>6. QED
    BY <2>5 DEF y, z
<1>9. QED
  BY <1>3, <1>6, <1>7, <1>8, Zenon DEF n, x, w

-----------------------------------------------------------------------------

LEMMA UnquotedFacts ==
    ASSUME NEW s \in Seq(Symbol), NEW symbol
    PROVE  /\ Unquoted(s, symbol) \in SUBSET (1..Len(s))
           /\ \A i \in 1..Len(s) : i \in Unquoted(s, symbol) <=> s[i] = symbol /\ ~Open(s, i)
BY DEF Unquoted, Are, Open

\* Nothing splits a closed text at blanks, and it closes its quotes.
Closed(s) == (\A i \in 1..Len(s) : s[i] = "sp" => Open(s, i)) /\ ~Open(s, Len(s) + 1)

\* A field begins at i, and ends before u.
FieldTo(s, i, u) ==
    /\ u \in i + 1..Len(s) + 1
    /\ \A x \in i..u - 1 : s[x] = "sp" => Open(s, x)
    /\ u <= Len(s) => s[u] = "sp"
    /\ ~Open(s, u)

Ends(s, i) == Upto(s, Unquoted(s, "sp"), i)
Whole(s, i) == i <= Len(s) /\ (Ends(s, i) > Len(s) => ~Unterminated(s))
After(s, i) == Word(s, Ends(s, i))
FieldAt(s, i) == SubSeq(s, i, Ends(s, i) - 1)

\* A field that the scanner finds is one, and where one is the scanner finds it.
LEMMA FieldFacts ==
    ASSUME NEW s \in Seq(Symbol), NEW i \in 1..Len(s) + 1, Whole(s, i), s[i] # "sp"
    PROVE  FieldTo(s, i, Ends(s, i))
<1> DEFINE S == Unquoted(s, "sp")
           u == Ends(s, i)
<1>0. Len(s) \in Nat /\ i \in Nat
  OBVIOUS
<1>1. S \in SUBSET (1..Len(s)) /\ \A j \in 1..Len(s) : j \in S <=> s[j] = "sp" /\ ~Open(s, j)
  BY UnquotedFacts, Zenon
<1> HIDE DEF S
<1>2. IsUpto(s, S, i, u)
  BY <1>0, <1>1, UptoFacts, Zenon DEF S, Ends
<1>3. i <= Len(s) /\ (u > Len(s) => ~Open(s, Len(s) + 1))
  BY Zenon DEF Whole, Unterminated, Open
<1> HIDE DEF u
<1>4. u \in i..Len(s) + 1 /\ u \in S \cup {Len(s) + 1} /\ \A k \in S : k >= i => u <= k
  BY <1>2, Zenon DEF IsUpto
<1>5. u # i
  BY <1>0, <1>1, <1>3, <1>4
<1>6. \A x \in i..u - 1 : s[x] = "sp" => Open(s, x)
  BY <1>0, <1>1, <1>4
<1>7. (u <= Len(s) => s[u] = "sp") /\ ~Open(s, u)
  BY <1>0, <1>1, <1>3, <1>4
<1>8. u \in i + 1..Len(s) + 1
  BY <1>0, <1>4, <1>5
<1>9. FieldTo(s, i, u)
  BY <1>6, <1>7, <1>8, Zenon DEF FieldTo
<1>10. QED
  BY <1>9 DEF u

LEMMA FieldIs ==
    ASSUME NEW s \in Seq(Symbol), NEW i \in 1..Len(s), NEW u, FieldTo(s, i, u)
    PROVE  Whole(s, i) /\ Ends(s, i) = u
<1> DEFINE S == Unquoted(s, "sp")
<1>0. Len(s) \in Nat /\ i \in 1..Len(s) + 1 /\ i \in Nat
  OBVIOUS
<1>1. S \in SUBSET (1..Len(s)) /\ \A j \in 1..Len(s) : j \in S <=> s[j] = "sp" /\ ~Open(s, j)
  BY UnquotedFacts, Zenon
<1> HIDE DEF S
<1>2. /\ u \in i + 1..Len(s) + 1 /\ (\A x \in i..u - 1 : s[x] = "sp" => Open(s, x))
      /\ (u <= Len(s) => s[u] = "sp") /\ ~Open(s, u)
  BY Zenon DEF FieldTo
<1>3. u \in i..Len(s) + 1 /\ u \in S \cup {Len(s) + 1} /\ \A k \in S : k >= i => u <= k
  BY <1>0, <1>1, <1>2
<1>4. IsUpto(s, S, i, u)
  BY <1>3, Zenon DEF IsUpto
<1>5. Ends(s, i) = u
  BY <1>0, <1>1, <1>4, UptoIs, Zenon DEF S, Ends
<1>6. u > Len(s) => ~Open(s, Len(s) + 1)
  <2>1. u > Len(s) => u = Len(s) + 1
    BY <1>0, <1>2
  <2>2. QED
    BY <1>2, <2>1
<1>7. i <= Len(s)
  OBVIOUS
<1>8. QED
  BY <1>5, <1>6, <1>7, Zenon DEF Whole, Unterminated, Open

\* A field and the rest of the text split at the same blanks.
LEMMA FieldClosed ==
    ASSUME NEW s \in Seq(Symbol), NEW i \in 1..Len(s), NEW u \in i + 1..Len(s) + 1, ~Open(s, i),
           u <= Len(s) => s[u] = "sp"
    PROVE  FieldTo(s, i, u) <=> Closed(SubSeq(s, i, u - 1))
<1> DEFINE x == SubSeq(s, i, u - 1)
<1>0. Len(s) \in Nat /\ i \in Nat /\ u \in Nat /\ i \in 1..Len(s) + 1 /\ u - 1 \in i - 1..Len(s)
      /\ (u - 1) - i + 1 = u - i /\ (u - 1) - i + 2 = u - i + 1
  OBVIOUS
<1>1. x \in Seq(Symbol) /\ Len(x) = u - i /\ \A j \in 1..u - i : x[j] = s[i + j - 1]
  <2>1. x \in Seq(Symbol) /\ Len(x) = (u - 1) - i + 1 /\ \A j \in 1..(u - 1) - i + 1 : x[j] = s[i + j - 1]
    BY <1>0, PieceOf, Zenon
  <2>2. QED
    BY <1>0, <2>1, Zenon
<1>2. \A j \in 1..u - i + 1 : Open(x, j) <=> Open(s, i + j - 1)
  <2>1. \A j \in 1..(u - 1) - i + 2 : Open(x, j) <=> Open(s, i + j - 1)
    BY <1>0, OpenInPiece, Zenon
  <2>2. QED
    BY <1>0, <2>1, Zenon
<1> HIDE DEF x
<1>3. Open(x, Len(x) + 1) <=> Open(s, u)
  <2>1. u - i + 1 \in 1..u - i + 1 /\ i + (u - i + 1) - 1 = u
    BY <1>0
  <2>2. QED
    BY <1>1, <1>2, <2>1
<1>4. (\A j \in 1..Len(x) : x[j] = "sp" => Open(x, j)) <=> \A y \in i..u - 1 : s[y] = "sp" => Open(s, y)
  <2>1. ASSUME \A j \in 1..Len(x) : x[j] = "sp" => Open(x, j), NEW y \in i..u - 1, s[y] = "sp"
        PROVE  Open(s, y)
    <3>1. y - i + 1 \in 1..u - i /\ y - i + 1 \in 1..u - i + 1 /\ i + (y - i + 1) - 1 = y
      BY <1>0
    <3>2. QED
      BY <1>1, <1>2, <2>1, <3>1
  <2>2. ASSUME \A y \in i..u - 1 : s[y] = "sp" => Open(s, y), NEW j \in 1..Len(x), x[j] = "sp"
        PROVE  Open(x, j)
    <3>1. j \in 1..u - i /\ j \in 1..u - i + 1 /\ i + j - 1 \in i..u - 1
      BY <1>0, <1>1
    <3>2. QED
      BY <1>1, <1>2, <2>2, <3>1
  <2>3. QED
    BY <2>1, <2>2, Zenon
<1>5. QED
  BY <1>3, <1>4, Zenon DEF FieldTo, Closed, x

-----------------------------------------------------------------------------
\* The principals.

\* Plain up to o, and from there on in quotes that hold no other: for the grammar,
NextQuote(f, o) ==
    /\ \A i \in 1..o - 1 : f[i] \notin {Quote, "sp"}
    /\ o <= Len(f) => /\ o < Len(f) /\ f[o] = Quote /\ f[Len(f)] = Quote
                     /\ \A i \in o + 1..Len(f) - 1 : f[i] # Quote

\* and for the parser, to which a backslash before the last quote escapes it.
QuotedAt(f, o) ==
    /\ \A i \in 1..o - 1 : f[i] \notin {Quote, "sp"}
    /\ o <= Len(f) => QuotedFrom(f, o) /\ \A i \in o + 1..Len(f) - 1 : f[i] # Quote

WithoutQuotes(f, o) == SubSeq(f, 1, o - 1) \o SubSeq(f, o + 1, Len(f) - 1)

NamedBy(f, who) == \E o \in 1..Len(f) + 1 : QuotedAt(f, o) /\ who = WithoutQuotes(f, o) /\ who # <<>>

LEMMA NamedIs ==
    ASSUME NEW f
    PROVE  \A who : who \in Named(f) <=> \E o \in 1..Len(f) + 1 :
                                        NextQuote(f, o) /\ who = WithoutQuotes(f, o) /\ who # <<>>
BY Zenon DEF Named, NextQuote, WithoutQuotes

LEMMA QuotesOf ==
    ASSUME NEW f \in Seq(Symbol)
    PROVE  /\ Len(f) \in Nat
           /\ Are(f, Quote) \in SUBSET (1..Len(f))
           /\ \A i \in 1..Len(f) : i \in Are(f, Quote) <=> f[i] = Quote
BY DEF Are

LEMMA QuotedAtOpens ==
    ASSUME NEW f \in Seq(Symbol), NEW o \in 1..Len(f) + 1, QuotedAt(f, o)
    PROVE  Closed(f) /\ PrincipalsOpen(f) = o /\ PrincipalsQuoted(f)
<1> DEFINE n == Len(f)
           A == Are(f, Quote)
<1>0. n \in Nat /\ A \in SUBSET (1..n) /\ \A i \in 1..n : i \in A <=> f[i] = Quote
  BY QuotesOf, Zenon
<1> HIDE DEF A
<1>1. \A i \in 1..o - 1 : f[i] # Quote /\ f[i] # "sp"
  BY Zenon DEF QuotedAt
<1>2. o <= n => /\ o < n /\ f[o] = Quote /\ f[n] = Quote /\ f[n - 1] # Back
                /\ \A i \in o + 1..n - 1 : f[i] = Quote => f[i - 1] = Back
                /\ \A i \in o + 1..n - 1 : f[i] # Quote
  BY Zenon DEF QuotedAt, QuotedFrom
<1>3. ~Open(f, 1)
  BY OpenFacts, Zenon
<1>4. \A i \in 1..o : ~Open(f, i)
  <2>1. 1 \in 1..n + 1 /\ o - 1 \in 1 - 1..n /\ (o - 1) + 1 = o
    BY <1>0
  <2>2. \A i \in 1..(o - 1) + 1 : ~Open(f, i)
    BY <1>1, <1>3, <2>1, PlainRun, Zenon
  <2>3. QED
    BY <2>1, <2>2, Zenon
<1>5. o <= n => (\A i \in o + 1..n : Open(f, i)) /\ (Open(f, n + 1) <=> f[n - 1] = Back)
  <2> SUFFICES ASSUME o <= n PROVE (\A i \in o + 1..n : Open(f, i)) /\ (Open(f, n + 1) <=> f[n - 1] = Back)
    OBVIOUS
  <2>1. o \in 1..n /\ n \in 1..n /\ o < n /\ o \in 1..o
    BY <1>0, <1>2
  <2>2. ~Open(f, o)
    BY <1>4, <2>1, Zenon
  <2>3. QED
    BY <1>2, <2>1, <2>2, QuotedRun, Zenon
<1>6. Closed(f)
  <2>1. f[o] = Quote => f[o] # "sp"
    BY DEF Quote
  <2>2. \A i \in 1..n : f[i] = "sp" => Open(f, i)
    BY <1>0, <1>1, <1>2, <1>5, <2>1
  <2>3. ~Open(f, n + 1)
    BY <1>0, <1>2, <1>4, <1>5
  <2>4. QED
    BY <2>2, <2>3, Zenon DEF Closed
<1>7. PrincipalsOpen(f) = o
  <2>1. o \in A \cup {n + 1} /\ o \in 1..n + 1 /\ 1 \in 1..n + 1 /\ \A k \in A : k >= 1 => o <= k
    BY <1>0, <1>1, <1>2
  <2>2. IsUpto(f, A, 1, o)
    BY <2>1, Zenon DEF IsUpto
  <2>3. QED
    BY <1>0, <2>1, <2>2, UptoIs, Zenon DEF PrincipalsOpen, A
<1>8. o <= n => Upto(f, A, o + 1) = n
  <2> SUFFICES ASSUME o <= n PROVE Upto(f, A, o + 1) = n
    OBVIOUS
  <2>1. n \in A \cup {n + 1} /\ o + 1 \in 1..n + 1 /\ n \in o + 1..n + 1 /\ \A k \in A : k >= o + 1 => n <= k
    BY <1>0, <1>2
  <2>2. IsUpto(f, A, o + 1, n)
    BY <2>1, Zenon DEF IsUpto
  <2>3. QED
    BY <1>0, <2>1, <2>2, UptoIs, Zenon
<1>9. QED
  BY <1>6, <1>7, <1>8, Zenon DEF PrincipalsQuoted, A

\* unquotePrincipals accepts what the grammar has for principals.
LEMMA QuotedPrincipals ==
    ASSUME NEW f \in Seq(Symbol), Closed(f), PrincipalsQuoted(f)
    PROVE  PrincipalsOpen(f) \in 1..Len(f) + 1 /\ QuotedAt(f, PrincipalsOpen(f))
<1> DEFINE n == Len(f)
           A == Are(f, Quote)
           o == PrincipalsOpen(f)
<1>0. n \in Nat /\ A \in SUBSET (1..n) /\ \A i \in 1..n : i \in A <=> f[i] = Quote
  BY QuotesOf, Zenon
<1>1. (\A i \in 1..n : f[i] = "sp" => Open(f, i)) /\ ~Open(f, n + 1)
  BY Zenon DEF Closed
<1>2. o <= n => Upto(f, A, o + 1) = n
  BY Zenon DEF PrincipalsQuoted
<1> HIDE DEF A
<1>3. IsUpto(f, A, 1, o)
  <2>1. 1 \in 1..n + 1
    BY <1>0
  <2>2. QED
    BY <1>0, <2>1, UptoFacts, Zenon DEF PrincipalsOpen, A
<1> HIDE DEF o
<1>4. o \in A \cup {n + 1} /\ o \in 1..n + 1 /\ \A k \in A : k >= 1 => o <= k
  BY <1>3, Zenon DEF IsUpto
<1>5. \A i \in 1..o - 1 : f[i] # Quote
  BY <1>0, <1>4
<1>6. \A i \in 1..o : ~Open(f, i)
  <2>1. 1 \in 1..n + 1 /\ o - 1 \in 1 - 1..n /\ (o - 1) + 1 = o
    BY <1>0, <1>4
  <2>2. ~Open(f, 1)
    BY OpenFacts, Zenon
  <2>3. \A i \in 1..(o - 1) + 1 : ~Open(f, i)
    BY <1>5, <2>1, <2>2, PlainRun, Zenon
  <2>4. QED
    BY <2>1, <2>3, Zenon
<1>7. \A i \in 1..o - 1 : f[i] \notin {Quote, "sp"}
  BY <1>0, <1>1, <1>4, <1>5, <1>6
<1>8. ASSUME o <= n
      PROVE  QuotedFrom(f, o) /\ \A i \in o + 1..n - 1 : f[i] # Quote
  <2>1. o + 1 \in 1..n + 1 /\ Upto(f, A, o + 1) = n
    BY <1>0, <1>2, <1>4, <1>8
  <2>2. IsUpto(f, A, o + 1, n)
    BY <1>0, <2>1, UptoFacts, Zenon
  <2>3. n \in A \cup {n + 1} /\ n \in o + 1..n + 1 /\ \A k \in A : k >= o + 1 => n <= k
    BY <2>2, Zenon DEF IsUpto
  <2>4. o < n /\ f[o] = Quote /\ f[n] = Quote /\ o \in 1..n /\ n \in 1..n /\ o \in 1..o
    BY <1>0, <1>4, <1>8, <2>3
  <2>5. \A i \in o + 1..n - 1 : f[i] # Quote
    BY <1>0, <1>4, <2>3
  <2>6. \A i \in o + 1..n - 1 : f[i] = Quote => f[i - 1] = Back
    BY <2>5
  <2>7. Open(f, n + 1) <=> f[n - 1] = Back
    BY <1>6, <2>4, <2>6, QuotedRun, Zenon
  <2>8. QED
    BY <1>1, <2>4, <2>5, <2>6, <2>7, Zenon DEF QuotedFrom
<1>9. QuotedAt(f, o)
  BY <1>7, <1>8, Zenon DEF QuotedAt, n
<1>10. QED
  BY <1>4, <1>9 DEF o, n

\* A field reads as principals when unquotePrincipals takes it, and then as those it returns.
PrincipalsAre(f, who) == PrincipalsQuoted(f) /\ who = PrincipalsText(f) /\ who # <<>>

\* The principals of the grammar are one field, and what the parser makes of it.
LEMMA NamedSound ==
    ASSUME NEW f \in Seq(Symbol), NEW who, NamedBy(f, who)
    PROVE  Closed(f) /\ PrincipalsAre(f, who)
<1>1. PICK o \in 1..Len(f) + 1 : QuotedAt(f, o) /\ who = WithoutQuotes(f, o) /\ who # <<>>
  BY Zenon DEF NamedBy
<1>2. Closed(f) /\ PrincipalsOpen(f) = o /\ PrincipalsQuoted(f)
  BY <1>1, QuotedAtOpens, Zenon
<1>3. PrincipalsText(f) = WithoutQuotes(f, o)
  BY <1>2, Zenon DEF PrincipalsText, WithoutQuotes
<1>4. QED
  BY <1>1, <1>2, <1>3, Zenon DEF PrincipalsAre

\* The principals of the parser are principals of the grammar.
LEMMA NamedComplete ==
    ASSUME NEW f \in Seq(Symbol), NEW who, Closed(f), PrincipalsAre(f, who)
    PROVE  NamedBy(f, who)
<1>1. PrincipalsQuoted(f) /\ who = PrincipalsText(f) /\ who # <<>>
  BY Zenon DEF PrincipalsAre
<1>2. PrincipalsOpen(f) \in 1..Len(f) + 1 /\ QuotedAt(f, PrincipalsOpen(f))
  BY <1>1, QuotedPrincipals, Zenon
<1>3. PrincipalsText(f) = WithoutQuotes(f, PrincipalsOpen(f))
  BY Zenon DEF PrincipalsText, WithoutQuotes
<1>4. QED
  BY <1>1, <1>2, <1>3, Zenon DEF NamedBy

\* The two differ on principals whose last quote is escaped, and there only.
LEMMA NamedUnescaped ==
    ASSUME NEW s \in Seq(Symbol), NEW e \in DOMAIN s, NEW who
    PROVE  NamedBy(SubSeq(s, 1, e), who) <=> e \notin Escaped(s) /\ who \in Named(SubSeq(s, 1, e))
<1> DEFINE f == SubSeq(s, 1, e)
<1>0. Len(s) \in Nat /\ e \in 1..Len(s) /\ 1 \in 1..Len(s) + 1 /\ e \in 1 - 1..Len(s) /\ e - 1 + 1 = e
  OBVIOUS
<1>1. f \in Seq(Symbol) /\ Len(f) = e /\ \A i \in 1..e : f[i] = s[i]
  <2>1. f \in Seq(Symbol) /\ Len(f) = e - 1 + 1 /\ \A i \in 1..e - 1 + 1 : f[i] = s[1 + i - 1]
    BY <1>0, PieceOf, Zenon
  <2>2. \A i \in 1..e : 1 + i - 1 = i
    BY <1>0
  <2>3. QED
    BY <1>0, <2>1, <2>2
<1> HIDE DEF f
<1>2. e \in Escaped(s) <=> s[e] = Quote /\ e > 1 /\ s[e - 1] = Back
  BY <1>0 DEF Escaped, Are
<1>3. ASSUME NEW o \in 1..Len(f) + 1
      PROVE  QuotedAt(f, o) <=> e \notin Escaped(s) /\ NextQuote(f, o)
  <2>1. e > 1 => f[e - 1] = s[e - 1]
    BY <1>0, <1>1
  <2>2. f[e] = s[e]
    BY <1>0, <1>1
  <2>3. CASE o <= Len(f)
    <3>1. QuotedAt(f, o) <=> NextQuote(f, o) /\ f[e - 1] # Back
      BY <1>1, <2>3, Zenon DEF QuotedAt, QuotedFrom, NextQuote
    <3>2. NextQuote(f, o) => e > 1 /\ s[e] = Quote
      <4>1. NextQuote(f, o) => o < e /\ f[e] = Quote
        BY <1>1, <2>3, Zenon DEF NextQuote
      <4>2. o < e => e > 1
        BY <1>0, <1>1
      <4>3. QED
        BY <2>2, <4>1, <4>2, Zenon
    <3>3. QED
      BY <1>2, <2>1, <3>1, <3>2, Zenon
  <2>4. CASE ~(o <= Len(f))
    <3>1. QuotedAt(f, o) <=> NextQuote(f, o)
      BY <2>4, Zenon DEF QuotedAt, NextQuote
    <3>2. e \in 1..o - 1
      BY <1>0, <1>1, <2>4
    <3>3. NextQuote(f, o) => s[e] # Quote
      BY <2>2, <3>2, Zenon DEF NextQuote
    <3>4. QED
      BY <1>2, <3>1, <3>3, Zenon
  <2>5. QED
    BY <2>3, <2>4, Zenon
<1>4. NamedBy(f, who) <=> e \notin Escaped(s) /\ who \in Named(f)
  BY <1>3, NamedIs, Zenon DEF NamedBy
<1>5. QED
  BY <1>4 DEF f

-----------------------------------------------------------------------------

\* Nothing splits a text at blanks or commas, and it closes its quotes.
Sealed(y) ==
    /\ \A i \in 1..Len(y) : y[i] \in {"sp", Comma} => Open(y, i)
    /\ ~Open(y, Len(y) + 1)

LEMMA Marks ==
    /\ Quote # "sp" /\ Quote # Comma /\ Quote # "=" /\ Quote # Back
    /\ Comma # "sp" /\ Comma # "="
BY Zenon DEF Quote, Comma, Back

LEMMA NamesPlain == \A x \in Name : x # Quote /\ x # Back /\ x # "sp" /\ x # Comma
BY Zenon DEF Name, Quote, Back, Comma

\* A value in quotes, where no quote was open before.
LEMMA ValueRun ==
    ASSUME NEW y \in Seq(Symbol), Len(y) >= 4, y[1] \in Name, y[2] = "=", y[3] = Quote, y[Len(y)] = Quote,
           \A i \in 4..Len(y) - 1 : y[i] = Quote => y[i - 1] = Back
    PROVE  /\ ~Open(y, 1) /\ ~Open(y, 2) /\ ~Open(y, 3)
           /\ \A i \in 4..Len(y) : Open(y, i)
           /\ Open(y, Len(y) + 1) <=> y[Len(y) - 1] = Back
<1> DEFINE n == Len(y)
<1>0. n \in Nat /\ n >= 4 /\ 1 \in 1..n + 1 /\ 2 \in 1 - 1..n /\ 3 \in 1..n /\ n \in 1..n /\ 3 < n
  OBVIOUS
<1>1. ~Open(y, 1)
  BY OpenFacts, Zenon
<1>2. \A i \in 1..2 : y[i] # Quote
  <2>1. y[1] # Quote
    BY NamesPlain, Zenon
  <2>2. y[2] # Quote
    BY DEF Quote
  <2>3. QED
    BY <2>1, <2>2
<1>3. \A i \in 1..2 + 1 : ~Open(y, i)
  BY <1>0, <1>1, <1>2, PlainRun, Zenon
<1>4. ~Open(y, 2) /\ ~Open(y, 3)
  BY <1>3
<1>5. \A i \in 3 + 1..n - 1 : y[i] = Quote => y[i - 1] = Back
  OBVIOUS
<1>6. (\A i \in 3 + 1..n : Open(y, i)) /\ (Open(y, n + 1) <=> y[n - 1] = Back)
  BY <1>0, <1>4, <1>5, QuotedRun, Zenon
<1>7. \A i \in 4..n : Open(y, i)
  BY <1>6
<1>8. QED
  BY <1>1, <1>4, <1>6, <1>7, Zenon

\* An option of the grammar leaves no quote open and has no separator outside quotes.
LEMMA OptionSealed ==
    ASSUME NEW y \in Seq(Symbol), IsOption(y)
    PROVE  Sealed(y) /\ Len(y) >= 4 /\ y[1] \in Name /\ y[2] = "="
<1>1. Len(y) >= 4 /\ y[1] \in Name /\ y[2] = "=" /\ QuotedFrom(y, 3)
  BY Zenon DEF IsOption
<1>2. /\ y[3] = Quote /\ y[Len(y)] = Quote /\ y[Len(y) - 1] # Back
      /\ \A i \in 3 + 1..Len(y) - 1 : y[i] = Quote => y[i - 1] = Back
  BY <1>1, Zenon DEF QuotedFrom
<1>3. \A i \in 4..Len(y) - 1 : y[i] = Quote => y[i - 1] = Back
  BY <1>2
<1>4. (\A i \in 4..Len(y) : Open(y, i)) /\ (Open(y, Len(y) + 1) <=> y[Len(y) - 1] = Back)
  BY <1>1, <1>2, <1>3, ValueRun, Zenon
<1>5. ASSUME NEW i \in 1..Len(y), y[i] \in {"sp", Comma} PROVE Open(y, i)
  <2>1. y[1] # "sp" /\ y[1] # Comma
    BY <1>1, NamesPlain, Zenon
  <2>2. y[3] # "sp" /\ y[3] # Comma
    BY <1>2, Marks, Zenon
  <2>3. i # 1 /\ i # 2 /\ i # 3
    BY <1>1, <1>5, <2>1, <2>2, Marks
  <2>4. i \in 4..Len(y)
    BY <2>3
  <2>5. QED
    BY <1>4, <2>4, Zenon
<1>6. QED
  BY <1>1, <1>2, <1>4, <1>5, Zenon DEF Sealed

\* A value that unquote takes, in a text that closes its quotes.
LEMMA QuotedValue ==
    ASSUME NEW y \in Seq(Symbol), Len(y) >= 2, y[1] \in Name, y[2] = "=", ~Open(y, Len(y) + 1)
    PROVE  IsQuoted(SubSeq(y, 3, Len(y))) <=> Len(y) >= 4 /\ QuotedFrom(y, 3)
<1> DEFINE n == Len(y)
           z == SubSeq(y, 3, n)
           inner == SubSeq(z, 2, Len(z) - 1)
<1>0. n \in Nat /\ n >= 2 /\ 3 \in 1..n + 1 /\ n \in 3 - 1..n /\ n - 3 + 1 = n - 2
  OBVIOUS
<1>1. z \in Seq(Symbol) /\ Len(z) = n - 2 /\ \A i \in 1..n - 2 : z[i] = y[3 + i - 1]
  <2>1. z \in Seq(Symbol) /\ Len(z) = n - 3 + 1 /\ \A i \in 1..n - 3 + 1 : z[i] = y[3 + i - 1]
    BY <1>0, PieceOf, Zenon
  <2>2. QED
    BY <1>0, <2>1, Zenon
<1>2. IsQuoted(z) <=> /\ n - 2 >= 2 /\ z[1] = Quote /\ z[n - 2] = Quote
                      /\ \A i \in Are(inner, Quote) : i - 1 \in Escapes(inner)
  BY <1>1, Zenon DEF IsQuoted
<1> HIDE DEF z
<1>3. \A i \in 1..n - 2 : z[i] = y[i + 2]
  BY <1>0, <1>1
<1>4. CASE n < 4
  <2>1. ~(n - 2 >= 2) /\ ~(n >= 4)
    BY <1>0, <1>4
  <2>2. QED
    BY <1>2, <2>1, Zenon DEF z
<1>5. CASE n >= 4
  <2>1. z[1] = y[3] /\ z[n - 2] = y[n]
    <3>1. 1 \in 1..n - 2 /\ n - 2 \in 1..n - 2 /\ (n - 2) + 2 = n /\ 1 + 2 = 3
      BY <1>0, <1>5
    <3>2. QED
      BY <1>3, <3>1, Zenon
  <2>2. inner \in Seq(Symbol) /\ Len(inner) = n - 4 /\ \A i \in 1..n - 4 : inner[i] = y[i + 3]
    <3>1. 2 \in 1..Len(z) + 1 /\ Len(z) - 1 \in 2 - 1..Len(z) /\ (Len(z) - 1) - 2 + 1 = n - 4
      BY <1>0, <1>1, <1>5
    <3>2. inner \in Seq(Symbol) /\ Len(inner) = (Len(z) - 1) - 2 + 1
          /\ \A i \in 1..(Len(z) - 1) - 2 + 1 : inner[i] = z[2 + i - 1]
      BY <1>1, <3>1, PieceOf, Zenon
    <3>3. inner \in Seq(Symbol) /\ Len(inner) = n - 4 /\ \A i \in 1..n - 4 : inner[i] = z[2 + i - 1]
      BY <3>1, <3>2, Zenon
    <3> HIDE DEF inner
    <3>4. ASSUME NEW i \in 1..n - 4 PROVE inner[i] = y[i + 3]
      <4>1. i + 1 \in 1..n - 2 /\ 2 + i - 1 = i + 1 /\ (i + 1) + 2 = i + 3
        BY <1>0
      <4>2. inner[i] = z[i + 1]
        BY <3>3, <4>1, Zenon
      <4>3. QED
        BY <1>3, <4>1, <4>2, Zenon
    <3>5. QED
      BY <3>3, <3>4, Zenon
  <2> HIDE DEF inner
  <2>3. (\A i \in Are(inner, Quote) : i - 1 \in Escapes(inner))
          <=> \A i \in 1..n - 4 : inner[i] = Quote => i - 1 \in 1..n - 4 /\ inner[i - 1] = Back
    <3>1. \A i : i \in Are(inner, Quote) <=> i \in 1..n - 4 /\ inner[i] = Quote
      BY <2>2 DEF Are
    <3>2. \A i : i \in Are(inner, Back) <=> i \in 1..n - 4 /\ inner[i] = Back
      BY <2>2 DEF Are
    <3>3. \A i : i \in Escapes(inner) <=> i \in Are(inner, Back) /\ i < n - 4 /\ inner[i + 1] = Quote
      BY <2>2, Zenon DEF Escapes
    <3>4. \A i \in 1..n - 4 : inner[i] = Quote =>
             (i - 1 \in Escapes(inner) <=> i - 1 \in 1..n - 4 /\ inner[i - 1] = Back)
      <4> SUFFICES ASSUME NEW i \in 1..n - 4, inner[i] = Quote
                   PROVE  i - 1 \in Escapes(inner) <=> i - 1 \in 1..n - 4 /\ inner[i - 1] = Back
        OBVIOUS
      <4>1. i - 1 < n - 4 /\ (i - 1) + 1 = i
        BY <1>0
      <4>2. QED
        BY <3>2, <3>3, <4>1
    <3>5. QED
      BY <3>1, <3>4, Zenon
  <2>4. (\A i \in 1..n - 4 : inner[i] = Quote => i - 1 \in 1..n - 4 /\ inner[i - 1] = Back)
          <=> \A j \in 4..n - 1 : y[j] = Quote => j - 1 # 3 /\ y[j - 1] = Back
    <3>1. ASSUME \A i \in 1..n - 4 : inner[i] = Quote => i - 1 \in 1..n - 4 /\ inner[i - 1] = Back,
                 NEW j \in 4..n - 1, y[j] = Quote
          PROVE  j - 1 # 3 /\ y[j - 1] = Back
      <4>1. j - 3 \in 1..n - 4 /\ (j - 3) + 3 = j /\ ((j - 3) - 1) + 3 = j - 1
        BY <1>0
      <4>2. (j - 3) - 1 \in 1..n - 4 /\ inner[(j - 3) - 1] = Back
        BY <2>2, <3>1, <4>1
      <4>3. QED
        BY <2>2, <4>1, <4>2
    <3>2. ASSUME \A j \in 4..n - 1 : y[j] = Quote => j - 1 # 3 /\ y[j - 1] = Back,
                 NEW i \in 1..n - 4, inner[i] = Quote
          PROVE  i - 1 \in 1..n - 4 /\ inner[i - 1] = Back
      <4>1. i + 3 \in 4..n - 1 /\ (i + 3) - 1 = i + 2 /\ (i - 1) + 3 = i + 2
        BY <1>0
      <4>2. y[i + 3] = Quote
        BY <2>2, <3>2
      <4>3. i + 2 # 3 /\ y[i + 2] = Back
        BY <3>2, <4>1, <4>2
      <4>4. i - 1 \in 1..n - 4
        BY <1>0, <4>3
      <4>5. QED
        BY <2>2, <4>1, <4>3, <4>4
    <3>3. QED
      BY <3>1, <3>2, Zenon
  <2>5. y[3] = Quote => y[3] # Back
    BY DEF Quote, Back
  <2>6. y[3] = Quote => ((\A j \in 4..n - 1 : y[j] = Quote => j - 1 # 3 /\ y[j - 1] = Back)
          <=> \A j \in 4..n - 1 : y[j] = Quote => y[j - 1] = Back)
    BY <2>5
  <2>7. IsQuoted(z) <=> /\ y[3] = Quote /\ y[n] = Quote
                        /\ \A j \in 4..n - 1 : y[j] = Quote => y[j - 1] = Back
    <3>1. n - 2 >= 2
      BY <1>0, <1>5
    <3>2. QED
      BY <1>2, <2>1, <2>3, <2>4, <2>6, <3>1, Zenon
  <2>8. y[3] = Quote /\ y[n] = Quote /\ (\A j \in 4..n - 1 : y[j] = Quote => y[j - 1] = Back)
          => y[n - 1] # Back
    BY <1>5, ValueRun, Zenon
  <2>9. QuotedFrom(y, 3) <=> /\ y[3] = Quote /\ y[n] = Quote /\ y[n - 1] # Back
                             /\ \A j \in 4..n - 1 : y[j] = Quote => y[j - 1] = Back
    <3>1. 3 < n /\ 3 + 1 = 4
      BY <1>0, <1>5
    <3>2. QED
      BY <3>1, Zenon DEF QuotedFrom
  <2>10. QED
    BY <1>5, <2>7, <2>8, <2>9, Zenon DEF z
<1>6. QED
  BY <1>0, <1>4, <1>5

-----------------------------------------------------------------------------
\* The options: where they are cut.

\* Every place is in the piece that follows a cut before it, or ends that piece.
LEMMA PieceAround ==
    ASSUME NEW s, Len(s) \in Nat, NEW cuts \in SUBSET (1..Len(s)), NEW i \in 1..Len(s) + 1
    PROVE  \E c \in {0} \cup cuts :
             /\ c \in 0..Len(s) /\ c < i /\ i <= Upto(s, cuts, c + 1)
             /\ IsUpto(s, cuts, c + 1, Upto(s, cuts, c + 1))
<1> DEFINE n == Len(s)
           S == {c \in {0} \cup cuts : c < i}
<1>1. S \in SUBSET (0..n) /\ S # {}
  <2>1. 0 \in S
    OBVIOUS
  <2>2. \A c \in S : c \in 0..n
    OBVIOUS
  <2>3. QED
    BY <2>1, <2>2, Zenon
<1>2. PICK c \in S : \A m \in S : m <= c
  BY <1>1, GreatestOf, Zenon
<1>3. c \in {0} \cup cuts /\ c < i /\ c \in 0..n /\ c + 1 \in 1..n + 1
  BY <1>1, <1>2
<1> DEFINE u == Upto(s, cuts, c + 1)
<1>4. IsUpto(s, cuts, c + 1, u)
  BY <1>3, UptoFacts, Zenon
<1> HIDE DEF u
<1>5. u \in cuts \cup {n + 1} /\ u \in c + 1..n + 1
  BY <1>4, Zenon DEF IsUpto
<1>6. i <= u
  <2> SUFFICES ASSUME u < i PROVE FALSE
    BY <1>5
  <2>1. u \in cuts
    BY <1>5
  <2>2. u \in S
    BY <2>1
  <2>3. u <= c
    BY <1>2, <2>2, Zenon
  <2>4. QED
    BY <1>3, <1>5, <2>3
<1>7. QED
  BY <1>3, <1>4, <1>6, Zenon DEF u

LEMMA OptionReadingsIs ==
    ASSUME NEW x, NEW cuts
    PROVE  cuts \in OptionReadings(x) <=>
             /\ cuts \in SUBSET Are(x, Comma)
             /\ \A c \in {0} \cup cuts : IsOption(Cut(x, cuts, c + 1))
             /\ \A c, d \in {0} \cup cuts : Cut(x, cuts, c + 1)[1] = Cut(x, cuts, d + 1)[1] => c = d
<1> DEFINE opts == Pieces(x, cuts)
<1>1. DOMAIN opts = {0} \cup cuts /\ \A c \in {0} \cup cuts : opts[c] = Cut(x, cuts, c + 1)
  BY Zenon DEF Pieces
<1>2. cuts \in OptionReadings(x) <=>
             /\ cuts \in SUBSET Are(x, Comma)
             /\ \A c \in DOMAIN opts : IsOption(opts[c])
             /\ \A c, d \in DOMAIN opts : opts[c][1] = opts[d][1] => c = d
  BY Zenon DEF OptionReadings
<1> HIDE DEF opts
<1>3. (\A c \in DOMAIN opts : IsOption(opts[c])) <=> \A c \in {0} \cup cuts : IsOption(Cut(x, cuts, c + 1))
  BY <1>1, Zenon
<1>4. (\A c, d \in DOMAIN opts : opts[c][1] = opts[d][1] => c = d)
        <=> \A c, d \in {0} \cup cuts : Cut(x, cuts, c + 1)[1] = Cut(x, cuts, d + 1)[1] => c = d
  BY <1>1, Zenon
<1>5. QED
  BY <1>2, <1>3, <1>4, Zenon

\* An option in a text where no quote is open before it.
LEMMA OptionWithin ==
    ASSUME NEW x \in Seq(Symbol), NEW a \in 1..Len(x) + 1, NEW u \in a..Len(x) + 1, ~Open(x, a),
           IsOption(SubSeq(x, a, u - 1))
    PROVE  /\ \A i \in a..u - 1 : x[i] \in {"sp", Comma} => Open(x, i)
           /\ ~Open(x, u)
           /\ u - a >= 4 /\ x[a] \in Name /\ x[a + 1] = "="
<1> DEFINE y == SubSeq(x, a, u - 1)
<1>0. Len(x) \in Nat /\ a \in Nat /\ u \in Nat /\ u - 1 \in a - 1..Len(x) /\ (u - 1) - a + 1 = u - a
      /\ (u - 1) - a + 2 = u - a + 1 /\ u - a \in Nat
  OBVIOUS
<1>1. y \in Seq(Symbol) /\ Len(y) = u - a /\ \A j \in 1..u - a : y[j] = x[a + j - 1]
  <2>1. y \in Seq(Symbol) /\ Len(y) = (u - 1) - a + 1 /\ \A j \in 1..(u - 1) - a + 1 : y[j] = x[a + j - 1]
    BY <1>0, PieceOf, Zenon
  <2>2. QED
    BY <1>0, <2>1, Zenon
<1>2. \A j \in 1..u - a + 1 : Open(y, j) <=> Open(x, a + j - 1)
  <2>1. \A j \in 1..(u - 1) - a + 2 : Open(y, j) <=> Open(x, a + j - 1)
    BY <1>0, OpenInPiece, Zenon
  <2>2. QED
    BY <1>0, <2>1, Zenon
<1>3. Sealed(y) /\ Len(y) >= 4 /\ y[1] \in Name /\ y[2] = "="
  BY <1>1, OptionSealed, Zenon
<1> HIDE DEF y
<1>4. u - a >= 4
  BY <1>1, <1>3
<1>5. ~Open(x, u)
  <2>1. u - a + 1 \in 1..u - a + 1 /\ a + (u - a + 1) - 1 = u
    BY <1>0
  <2>2. ~Open(y, u - a + 1)
    BY <1>1, <1>3, Zenon DEF Sealed
  <2>3. QED
    BY <1>2, <2>1, <2>2, Zenon
<1>6. ASSUME NEW i \in a..u - 1, x[i] \in {"sp", Comma} PROVE Open(x, i)
  <2>1. i - a + 1 \in 1..u - a /\ i - a + 1 \in 1..u - a + 1 /\ a + (i - a + 1) - 1 = i
    BY <1>0
  <2>2. y[i - a + 1] = x[i]
    BY <1>1, <2>1, Zenon
  <2>3. Open(y, i - a + 1)
    BY <1>1, <1>3, <1>6, <2>1, <2>2, Zenon DEF Sealed
  <2>4. QED
    BY <1>2, <2>1, <2>3, Zenon
<1>7. x[a] \in Name /\ x[a + 1] = "="
  <2>1. 1 \in 1..u - a /\ 2 \in 1..u - a /\ a + 1 - 1 = a /\ a + 2 - 1 = a + 1
    BY <1>0, <1>4
  <2>2. y[1] = x[a] /\ y[2] = x[a + 1]
    BY <1>1, <2>1, Zenon
  <2>3. QED
    BY <1>3, <2>2, Zenon
<1>8. QED
  BY <1>4, <1>5, <1>6, <1>7, Zenon

CutEnd(s, cuts, c) == Upto(s, cuts, c + 1)

\* Options can be read in one way only: cut where splitOptions cuts them.
LEMMA OptionsSplit ==
    ASSUME NEW x \in Seq(Symbol), NEW cuts, cuts \in OptionReadings(x)
    PROVE  /\ cuts = Unquoted(x, Comma)
           /\ Closed(x)
           /\ Len(x) >= 4 /\ x[1] \in Name /\ x[2] = "="
<1> DEFINE n == Len(x)
           P == {0} \cup cuts
<1>1. /\ cuts \in SUBSET Are(x, Comma)
      /\ \A c \in {0} \cup cuts : IsOption(Cut(x, cuts, c + 1))
  BY OptionReadingsIs, Zenon
<1>2. n \in Nat /\ cuts \in SUBSET (1..n) /\ \A i \in cuts : x[i] = Comma
  BY <1>1 DEF Are
<1>3. ASSUME NEW c \in P
      PROVE  /\ c \in 0..n /\ c + 1 \in 1..n + 1
             /\ IsUpto(x, cuts, c + 1, CutEnd(x, cuts, c))
             /\ CutEnd(x, cuts, c) \in cuts \cup {n + 1} /\ CutEnd(x, cuts, c) \in c + 1..n + 1
             /\ \A k \in cuts : k >= c + 1 => CutEnd(x, cuts, c) <= k
  <2>1. c \in 0..n /\ c + 1 \in 1..n + 1
    BY <1>2
  <2>2. IsUpto(x, cuts, c + 1, CutEnd(x, cuts, c))
    BY <1>2, <2>1, UptoFacts, Zenon DEF CutEnd
  <2>3. QED
    BY <2>1, <2>2, Zenon DEF IsUpto
<1>4. ASSUME NEW c \in P, ~Open(x, c + 1)
      PROVE  /\ \A i \in c + 1..CutEnd(x, cuts, c) - 1 : x[i] \in {"sp", Comma} => Open(x, i)
             /\ ~Open(x, CutEnd(x, cuts, c))
             /\ CutEnd(x, cuts, c) - (c + 1) >= 4 /\ x[c + 1] \in Name /\ x[c + 1 + 1] = "="
  <2>1. IsOption(SubSeq(x, c + 1, CutEnd(x, cuts, c) - 1))
    BY <1>1, Zenon DEF Cut, CutEnd
  <2>2. c + 1 \in 1..n + 1 /\ CutEnd(x, cuts, c) \in c + 1..n + 1
    BY <1>3, Zenon
  <2>3. QED
    BY <1>4, <2>1, <2>2, OptionWithin, Zenon
<1> HIDE DEF P
<1>5. ASSUME NEW i \in 1..n + 1
      PROVE  \E c \in P : c < i /\ i <= CutEnd(x, cuts, c)
  BY <1>2, PieceAround, Zenon DEF P, CutEnd
<1>6. \A c \in P : ~Open(x, c + 1)
  <2> DEFINE S == {c \in P : Open(x, c + 1)}
  <2> SUFFICES ASSUME S # {} PROVE FALSE
    BY Zenon
  <2>1. PICK k \in S : \A m \in S : k <= m
    <3>1. \A c \in S : c \in Nat
      BY <1>3
    <3>2. S \in SUBSET Nat
      BY <3>1, Zenon
    <3> HIDE DEF S
    <3>3. QED
      BY <3>2, LeastOf, Zenon
  <2>2. k \in P /\ Open(x, k + 1)
    BY <2>1, Zenon
  <2>3. k \in cuts /\ k \in 1..n /\ k \in 1..n + 1 /\ x[k] = Comma
    <3>1. ~Open(x, 0 + 1)
      <4>1. ~Open(x, 1) /\ 0 + 1 = 1
        BY OpenFacts
      <4>2. QED
        BY <4>1, Zenon
    <3>2. k # 0
      BY <2>2, <3>1, Zenon
    <3>3. k \in cuts
      BY <2>2, <3>2 DEF P
    <3>4. QED
      BY <1>2, <3>3
  <2>4. PICK c \in P : c < k /\ k <= CutEnd(x, cuts, c)
    BY <1>5, <2>3, Zenon
  <2>5. CutEnd(x, cuts, c) = k
    <3>1. /\ c \in 0..n /\ CutEnd(x, cuts, c) \in c + 1..n + 1
          /\ \A m \in cuts : m >= c + 1 => CutEnd(x, cuts, c) <= m
      BY <1>3, Zenon
    <3>2. QED
      BY <2>3, <2>4, <3>1
  <2>6. ~Open(x, c + 1)
    <3>1. ~(k <= c)
      BY <1>3, <2>3, <2>4
    <3>2. QED
      BY <2>1, <2>4, <3>1, Zenon
  <2>7. ~Open(x, k)
    BY <1>4, <2>4, <2>5, <2>6, Zenon
  <2>8. OpenStep(x, k)
    BY <2>3, OpenFacts, Zenon
  <2>9. x[k] # Quote
    BY <2>3, Marks
  <2>10. QED
    BY <2>2, <2>7, <2>8, <2>9, Zenon DEF OpenStep
<1>7. ASSUME NEW i \in 1..n
      PROVE  /\ x[i] = "sp" => Open(x, i)
             /\ i \in cuts <=> x[i] = Comma /\ ~Open(x, i)
  <2>1. i \in 1..n + 1
    BY <1>2
  <2>2. PICK c \in P : c < i /\ i <= CutEnd(x, cuts, c)
    BY <1>5, <2>1, Zenon
  <2>3. ~Open(x, c + 1)
    BY <1>6, Zenon
  <2>4. /\ c \in 0..n /\ CutEnd(x, cuts, c) \in cuts \cup {n + 1} /\ CutEnd(x, cuts, c) \in c + 1..n + 1
        /\ \A m \in cuts : m >= c + 1 => CutEnd(x, cuts, c) <= m
    BY <1>3, Zenon
  <2>5. /\ (\A j \in c + 1..CutEnd(x, cuts, c) - 1 : x[j] \in {"sp", Comma} => Open(x, j))
        /\ ~Open(x, CutEnd(x, cuts, c))
    BY <1>4, <2>3, Zenon
  <2>6. CASE i = CutEnd(x, cuts, c)
    <3>1. i \in cuts /\ x[i] = Comma
      BY <1>2, <2>4, <2>6
    <3>2. x[i] # "sp"
      BY <3>1, Marks
    <3>3. QED
      BY <2>5, <2>6, <3>1, <3>2
  <2>7. CASE i # CutEnd(x, cuts, c)
    <3>1. i \in c + 1..CutEnd(x, cuts, c) - 1
      BY <2>2, <2>4, <2>7
    <3>2. i \notin cuts
      BY <2>2, <2>4, <2>7
    <3>3. QED
      BY <2>5, <3>1, <3>2
  <2>8. QED
    BY <2>6, <2>7
<1>8. cuts = Unquoted(x, Comma)
  <2>1. /\ Unquoted(x, Comma) \in SUBSET (1..n)
        /\ \A i \in 1..n : i \in Unquoted(x, Comma) <=> x[i] = Comma /\ ~Open(x, i)
    BY UnquotedFacts, Zenon
  <2>2. \A i : i \in cuts <=> i \in Unquoted(x, Comma)
    BY <1>2, <1>7, <2>1, Zenon
  <2>3. QED
    BY <2>2, Zenon
<1>9. ~Open(x, n + 1)
  <2>1. n + 1 \in 1..n + 1
    BY <1>2
  <2>2. PICK c \in P : c < n + 1 /\ n + 1 <= CutEnd(x, cuts, c)
    BY <1>5, <2>1, Zenon
  <2>3. CutEnd(x, cuts, c) = n + 1
    <3>1. CutEnd(x, cuts, c) \in c + 1..n + 1 /\ c \in 0..n
      BY <1>3, Zenon
    <3>2. QED
      BY <1>2, <2>2, <3>1
  <2>4. QED
    BY <1>4, <1>6, <2>3, Zenon
<1>10. Len(x) >= 4 /\ x[1] \in Name /\ x[2] = "="
  <2>1. 0 \in P
    BY DEF P
  <2>2. CutEnd(x, cuts, 0) - (0 + 1) >= 4 /\ x[0 + 1] \in Name /\ x[0 + 1 + 1] = "="
    BY <1>4, <1>6, <2>1, Zenon
  <2>3. CutEnd(x, cuts, 0) \in 0 + 1..n + 1
    BY <1>3, <2>1, Zenon
  <2>4. QED
    BY <1>2, <2>2, <2>3
<1>11. QED
  BY <1>7, <1>8, <1>9, <1>10, Zenon DEF Closed

-----------------------------------------------------------------------------
\* From one field to the next, and the type and key.

\* A place where a field begins, or the end of the text.
Begins(s, i) ==
    /\ i \in 1..Len(s) + 1
    /\ ~Open(s, i)
    /\ i <= Len(s) => s[i] # "sp"

\* After a field and some blanks another field begins, or the text ends.
LEMMA GapFacts ==
    ASSUME NEW s \in Seq(Symbol), NEW i \in 1..Len(s) + 1, ~Open(s, i), NEW j \in 1..Len(s) + 1,
           Blanks(s, i, j), j <= Len(s) => s[j] # "sp"
    PROVE  Word(s, i) = j /\ Begins(s, j)
<1>0. Len(s) \in Nat /\ i \in Nat /\ j \in Nat
  OBVIOUS
<1>1. i < j /\ \A x \in i..j - 1 : s[x] = "sp"
  BY Zenon DEF Blanks
<1>2. IsWord(s, i, j)
  <2>1. j \in i..Len(s) + 1
    BY <1>0, <1>1
  <2>2. QED
    BY <1>1, <2>1, Zenon DEF IsWord
<1>3. Word(s, i) = j
  BY <1>2, WordIs, Zenon
<1>4. ~Open(s, j)
  <2>1. j - 1 \in i - 1..Len(s) /\ (j - 1) + 1 = j /\ j \in i..j
    BY <1>0, <1>1
  <2>2. \A x \in i..j - 1 : s[x] # Quote
    BY <1>1, Marks, Zenon
  <2>3. \A x \in i..(j - 1) + 1 : ~Open(s, x)
    BY <2>1, <2>2, PlainRun, Zenon
  <2>4. QED
    BY <2>1, <2>3, Zenon
<1>5. QED
  BY <1>3, <1>4, Zenon DEF Begins

\* The same of a field that the scanner found.
LEMMA AfterFacts ==
    ASSUME NEW s \in Seq(Symbol), NEW i, Begins(s, i), Whole(s, i)
    PROVE  /\ i \in 1..Len(s) /\ i < Ends(s, i)
           /\ FieldTo(s, i, Ends(s, i))
           /\ Begins(s, After(s, i))
           /\ Ends(s, i) <= Len(s) => Blanks(s, Ends(s, i), After(s, i))
           /\ Ends(s, i) > Len(s) => After(s, i) = Len(s) + 1
<1> DEFINE u == Ends(s, i)
           w == After(s, i)
<1>1. i \in 1..Len(s) + 1 /\ ~Open(s, i) /\ (i <= Len(s) => s[i] # "sp") /\ i <= Len(s)
  BY Zenon DEF Begins, Whole
<1>2. FieldTo(s, i, u)
  BY <1>1, FieldFacts, Zenon
<1>3. w = Word(s, u)
  BY Zenon DEF After
<1> HIDE DEF u, w
<1>4. u \in i + 1..Len(s) + 1 /\ (u <= Len(s) => s[u] = "sp") /\ ~Open(s, u)
  BY <1>2, Zenon DEF FieldTo
<1>5. Len(s) \in Nat /\ i \in 1..Len(s) /\ u \in 1..Len(s) + 1 /\ i < u
  BY <1>1, <1>4
<1>6. IsWord(s, u, w)
  BY <1>3, <1>5, WordFacts, Zenon
<1>7. w \in u..Len(s) + 1 /\ (\A x \in u..w - 1 : s[x] = "sp") /\ (w <= Len(s) => s[w] # "sp")
  BY <1>6, Zenon DEF IsWord
<1>8. CASE u <= Len(s)
  <2>1. w # u
    BY <1>4, <1>7, <1>8
  <2>2. u < w /\ w \in 1..Len(s) + 1
    BY <1>5, <1>7, <2>1
  <2>3. Blanks(s, u, w)
    BY <1>7, <2>2, Zenon DEF Blanks
  <2>4. Begins(s, w)
    BY <1>4, <1>5, <1>7, <2>2, <2>3, GapFacts, Zenon
  <2>5. ~(u > Len(s))
    BY <1>5, <1>8
  <2>6. QED
    BY <1>2, <1>5, <2>3, <2>4, <2>5, Zenon DEF u, w
<1>9. CASE ~(u <= Len(s))
  <2>1. u = Len(s) + 1 /\ w = Len(s) + 1 /\ w \in 1..Len(s) + 1 /\ ~(w <= Len(s))
    BY <1>5, <1>7, <1>9
  <2>2. Begins(s, w)
    BY <1>4, <2>1, Zenon DEF Begins
  <2>3. QED
    BY <1>2, <1>5, <1>9, <2>1, <2>2, Zenon DEF u, w
<1>10. QED
  BY <1>8, <1>9

\* A field as a text of its own.
LEMMA FieldText ==
    ASSUME NEW s \in Seq(Symbol), NEW i, Begins(s, i), Whole(s, i)
    PROVE  FieldAt(s, i) \in Seq(Symbol) /\ Closed(FieldAt(s, i)) /\ FieldAt(s, i) # <<>>
<1> DEFINE u == Ends(s, i)
<1>1. i \in 1..Len(s) /\ FieldTo(s, i, u) /\ ~Open(s, i)
  BY AfterFacts, Zenon DEF Begins
<1>2. FieldAt(s, i) = SubSeq(s, i, u - 1)
  BY Zenon DEF FieldAt
<1> HIDE DEF u
<1>3. u \in i + 1..Len(s) + 1 /\ (u <= Len(s) => s[u] = "sp")
  BY <1>1, Zenon DEF FieldTo
<1>4. Closed(SubSeq(s, i, u - 1))
  BY <1>1, <1>3, FieldClosed, Zenon
<1>5. i \in 1..Len(s) + 1 /\ u - 1 \in i - 1..Len(s) /\ (u - 1) - i + 1 # 0
  BY <1>1, <1>3
<1>6. SubSeq(s, i, u - 1) \in Seq(Symbol) /\ Len(SubSeq(s, i, u - 1)) = (u - 1) - i + 1
  BY <1>5, PieceOf, Zenon
<1>7. SubSeq(s, i, u - 1) # <<>>
  BY <1>5, <1>6
<1>8. QED
  BY <1>2, <1>4, <1>6, <1>7, Zenon

\* A piece that is closed, and that a blank follows, is a field.
LEMMA ClosedField ==
    ASSUME NEW s \in Seq(Symbol), NEW i \in 1..Len(s), ~Open(s, i), NEW u \in i + 1..Len(s) + 1,
           u <= Len(s) => s[u] = "sp", Closed(SubSeq(s, i, u - 1))
    PROVE  Whole(s, i) /\ Ends(s, i) = u /\ FieldAt(s, i) = SubSeq(s, i, u - 1) /\ ~Open(s, u)
<1>1. FieldTo(s, i, u)
  BY FieldClosed, Zenon
<1>2. Whole(s, i) /\ Ends(s, i) = u
  BY <1>1, FieldIs, Zenon
<1>3. QED
  BY <1>1, <1>2, Zenon DEF FieldAt, FieldTo

-----------------------------------------------------------------------------

\* A field of one word.
LEMMA OneWord ==
    ASSUME NEW s \in Seq(Symbol), NEW i \in 1..Len(s)
    PROVE  /\ SubSeq(s, i, (i + 1) - 1) = <<s[i]>>
           /\ i + 1 \in i + 1..Len(s) + 1
<1> DEFINE x == SubSeq(s, i, (i + 1) - 1)
           y == <<s[i]>>
<1>1. /\ i \in 1..Len(s) + 1 /\ (i + 1) - 1 \in i - 1..Len(s) /\ ((i + 1) - 1) - i + 1 = 1
      /\ i + 1 - 1 = i /\ i + 1 \in i + 1..Len(s) + 1 /\ 1 \in 1..1
  OBVIOUS
<1>2. x \in Seq(Symbol) /\ Len(x) = 1 /\ \A k \in 1..1 : x[k] = s[i + k - 1]
  BY <1>1, PieceOf, Zenon
<1>3. y \in Seq(Symbol) /\ Len(y) = 1 /\ y[1] = s[i]
  OBVIOUS
<1>4. x[1] = s[i]
  BY <1>1, <1>2, Zenon
<1> HIDE DEF x, y
<1>5. \A k \in 1..Len(x) : x[k] = y[k]
  BY <1>2, <1>3, <1>4
<1>6. x = y
  BY <1>2, <1>3, <1>5, SeqEqual, Zenon
<1>7. QED
  BY <1>1, <1>6, Zenon DEF x, y

LEMMA WordClosed ==
    ASSUME NEW w, w # "sp", w # Quote, <<w>> \in Seq(Symbol)
    PROVE  Closed(<<w>>)
<1> DEFINE x == <<w>>
<1>1. Len(x) = 1 /\ x[1] = w /\ 1 \in 1..Len(x) /\ 1 + 1 = Len(x) + 1 /\ \A i \in 1..Len(x) : i = 1
  OBVIOUS
<1> HIDE DEF x
<1>2. ~Open(x, 1) /\ OpenStep(x, 1)
  BY <1>1, OpenFacts, Zenon DEF x
<1>3. ~Open(x, Len(x) + 1)
  BY <1>1, <1>2, Zenon DEF OpenStep
<1>4. \A i \in 1..Len(x) : x[i] = "sp" => Open(x, i)
  BY <1>1, Zenon
<1>5. QED
  BY <1>3, <1>4, Zenon DEF Closed, x

\* The type at j, the key after it, and the comment.
TypeKeyAt(s, j, comm) ==
    /\ Whole(s, j) /\ FieldAt(s, j) = <<"type">>
    /\ Whole(s, After(s, j)) /\ FieldAt(s, After(s, j)) = <<"key">>
    /\ comm = SubSeq(s, After(s, After(s, j)), Len(s))

LEMMA CommentsIs ==
    ASSUME NEW s, NEW j
    PROVE  \A m : m \in Comments(s, j) <=>
                \E k \in Are(s, "key") : /\ Blanks(s, j + 1, k)
                                         /\ k < Len(s) => s[k + 1] = "sp"
                                         /\ m = Trim(SubSeq(s, k + 1, Len(s)))
BY Zenon DEF Comments

LEMMA AreIs ==
    ASSUME NEW s \in Seq(Symbol), NEW symbol
    PROVE  \A i : i \in Are(s, symbol) <=> i \in 1..Len(s) /\ s[i] = symbol
BY DEF Are

LEMMA OneWordField ==
    ASSUME NEW s \in Seq(Symbol), NEW i \in 1..Len(s), Begins(s, i), s[i] # Quote,
           i < Len(s) => s[i + 1] = "sp"
    PROVE  Whole(s, i) /\ Ends(s, i) = i + 1 /\ FieldAt(s, i) = <<s[i]>> /\ ~Open(s, i + 1)
<1>1. SubSeq(s, i, (i + 1) - 1) = <<s[i]>> /\ i + 1 \in i + 1..Len(s) + 1
  BY OneWord
<1>2. <<s[i]>> \in Seq(Symbol) /\ (i + 1 <= Len(s) => i < Len(s)) /\ i <= Len(s)
  OBVIOUS
<1>3. s[i] # "sp" /\ ~Open(s, i)
  BY <1>2, Zenon DEF Begins
<1>4. Closed(SubSeq(s, i, (i + 1) - 1))
  BY <1>1, <1>2, <1>3, WordClosed, Zenon
<1>5. i + 1 <= Len(s) => s[i + 1] = "sp"
  BY <1>2
<1>6. Whole(s, i) /\ Ends(s, i) = i + 1 /\ FieldAt(s, i) = SubSeq(s, i, (i + 1) - 1) /\ ~Open(s, i + 1)
  BY <1>1, <1>3, <1>4, <1>5, ClosedField, Zenon
<1>7. QED
  BY <1>1, <1>6, Zenon

\* A type, a key and a comment of the grammar are two fields and the rest of the text,
LEMMA TypeKeySound ==
    ASSUME NEW s \in Seq(Symbol), s[Len(s)] # "sp", NEW j \in Are(s, "type"), Begins(s, j),
           NEW m, m \in Comments(s, j)
    PROVE  TypeKeyAt(s, j, m)
<1>0. Len(s) \in Nat
  OBVIOUS
<1>1. PICK k \in Are(s, "key") : /\ Blanks(s, j + 1, k)
                                 /\ k < Len(s) => s[k + 1] = "sp"
                                 /\ m = Trim(SubSeq(s, k + 1, Len(s)))
  BY CommentsIs, Zenon
<1>2. j \in 1..Len(s) /\ s[j] = "type" /\ k \in 1..Len(s) /\ s[k] = "key"
  BY AreIs, Zenon
<1>3. j + 1 < k /\ \A x \in j + 1..k - 1 : s[x] = "sp"
  BY <1>1, Zenon DEF Blanks
<1>4. s[j + 1] = "sp"
  <2>1. j + 1 \in j + 1..k - 1
    BY <1>2, <1>3
  <2>2. QED
    BY <1>3, <2>1, Zenon
<1>5. s[j] # Quote /\ s[k] # Quote /\ s[k] # "sp"
  BY <1>2, Zenon DEF Quote
<1>6. Whole(s, j) /\ Ends(s, j) = j + 1 /\ FieldAt(s, j) = <<s[j]>> /\ ~Open(s, j + 1)
  BY <1>2, <1>4, <1>5, OneWordField, Zenon
<1>7. j + 1 \in 1..Len(s) + 1 /\ k \in 1..Len(s) + 1 /\ k + 1 \in 1..Len(s) + 1
  BY <1>0, <1>2
<1>8. Word(s, j + 1) = k /\ Begins(s, k)
  BY <1>1, <1>5, <1>6, <1>7, GapFacts, Zenon
<1>9. Whole(s, k) /\ Ends(s, k) = k + 1 /\ FieldAt(s, k) = <<s[k]>>
  BY <1>1, <1>2, <1>5, <1>8, OneWordField, Zenon
<1>10. After(s, j) = k /\ After(s, k) = Word(s, k + 1)
  BY <1>6, <1>8, <1>9, Zenon DEF After
<1>11. m = SubSeq(s, Word(s, k + 1), Len(s))
  BY <1>1, <1>2, TrimRest, Zenon
<1>12. QED
  BY <1>2, <1>6, <1>9, <1>10, <1>11, Zenon DEF TypeKeyAt

LEMMA FieldOfOne ==
    ASSUME NEW s \in Seq(Symbol), NEW i, Begins(s, i), Whole(s, i), NEW w, FieldAt(s, i) = <<w>>
    PROVE  i \in 1..Len(s) /\ s[i] = w /\ Ends(s, i) = i + 1
<1> DEFINE u == Ends(s, i)
<1>1. i \in 1..Len(s) /\ FieldTo(s, i, u)
  BY AfterFacts, Zenon
<1>2. FieldAt(s, i) = SubSeq(s, i, u - 1)
  BY Zenon DEF FieldAt
<1> HIDE DEF u
<1>3. u \in i + 1..Len(s) + 1
  BY <1>1, Zenon DEF FieldTo
<1>4. i \in 1..Len(s) + 1 /\ u - 1 \in i - 1..Len(s) /\ i + 1 - 1 = i /\ 1 \in 1..(u - 1) - i + 1
  BY <1>1, <1>3
<1>5. Len(SubSeq(s, i, u - 1)) = (u - 1) - i + 1 /\ SubSeq(s, i, u - 1)[1] = s[i + 1 - 1]
  BY <1>4, PieceOf, Zenon
<1>6. Len(<<w>>) = 1 /\ <<w>>[1] = w
  OBVIOUS
<1>7. (u - 1) - i + 1 = 1 /\ s[i] = w
  BY <1>2, <1>4, <1>5, <1>6, Zenon
<1>8. u = i + 1
  BY <1>1, <1>3, <1>7
<1>9. QED
  BY <1>1, <1>7, <1>8, Zenon DEF u

\* and the other way round.
LEMMA TypeKeyComplete ==
    ASSUME NEW s \in Seq(Symbol), s[Len(s)] # "sp", NEW j, Begins(s, j), NEW m, TypeKeyAt(s, j, m)
    PROVE  j \in Are(s, "type") /\ m \in Comments(s, j)
<1> DEFINE k == After(s, j)
<1>0. Len(s) \in Nat
  OBVIOUS
<1>1. /\ Whole(s, j) /\ FieldAt(s, j) = <<"type">> /\ Whole(s, k) /\ FieldAt(s, k) = <<"key">>
      /\ m = SubSeq(s, After(s, k), Len(s))
  BY Zenon DEF TypeKeyAt
<1>2. /\ Begins(s, k)
      /\ Ends(s, j) <= Len(s) => Blanks(s, Ends(s, j), k)
      /\ Ends(s, j) > Len(s) => k = Len(s) + 1
  BY <1>1, AfterFacts, Zenon
<1> HIDE DEF k
<1>3. j \in 1..Len(s) /\ s[j] = "type" /\ Ends(s, j) = j + 1
  BY <1>1, FieldOfOne, Zenon
<1>4. k \in 1..Len(s) /\ s[k] = "key" /\ Ends(s, k) = k + 1
  BY <1>1, <1>2, FieldOfOne, Zenon
<1>5. Blanks(s, j + 1, k)
  <2>1. ~(j + 1 > Len(s))
    BY <1>0, <1>2, <1>3, <1>4
  <2>2. j + 1 <= Len(s)
    BY <1>0, <1>3, <2>1
  <2>3. QED
    BY <1>2, <1>3, <2>2, Zenon
<1>6. k < Len(s) => s[k + 1] = "sp"
  <2>1. FieldTo(s, k, k + 1)
    BY <1>1, <1>2, <1>4, AfterFacts, Zenon
  <2>2. k < Len(s) => k + 1 <= Len(s)
    BY <1>0, <1>4
  <2>3. QED
    BY <2>1, <2>2, Zenon DEF FieldTo
<1>7. After(s, k) = Word(s, k + 1)
  BY <1>4, Zenon DEF After
<1>8. m = Trim(SubSeq(s, k + 1, Len(s)))
  BY <1>1, <1>4, <1>7, TrimRest, Zenon
<1>9. QED
  BY <1>3, <1>4, <1>5, <1>6, <1>8, AreIs, CommentsIs, Zenon

-----------------------------------------------------------------------------
\* What the parser keeps, and what the grammar reads.

\* The options that a field is split into, when all are well-formed and none is repeated.
OptionsAre(x, o) ==
    Unquoted(x, Comma) \in OptionReadings(x) /\ o = OptionsRead(Pieces(x, Unquoted(x, Comma)))

\* What the parser keeps of a text, from left to right.
RestIs(s, b, o, m) ==
    IF TokenIsOption(FieldAt(s, b))
    THEN OptionsAre(FieldAt(s, b), o) /\ TypeKeyAt(s, After(s, b), m)
    ELSE o = None /\ TypeKeyAt(s, b, m)
KeptIs(s, who, o, m) ==
    /\ s[1] # "#"
    /\ Whole(s, 1) /\ PrincipalsAre(FieldAt(s, 1), who)
    /\ Whole(s, After(s, 1)) /\ RestIs(s, After(s, 1), o, m)
    /\ Ordered(o)

Entry(who, o, m) == [principal |-> who, options |-> o, comment |-> m]

\* Where the grammar has the parts of an entry: the principals end at e, the type is at j.
PartsAt(s, e, j, who, o, m) ==
    /\ s[1] # "#" /\ j \in Are(s, "type")
    /\ who \in Named(SubSeq(s, 1, e))
    /\ o \in Between(s, e + 1, j) /\ Ordered(o)
    /\ m \in Comments(s, j)

\* The readings of which no backslash is before the end of the principals.
Unmarked(s) == DOMAIN s \ Escaped(s)
Parts(s, e, j, who, o, m) == e \in Unmarked(s) /\ PartsAt(s, e, j, who, o, m)

EntrySet(P, O, M) == [principal : P, options : O, comment : M]
HasEntry(P, O, M, r) == \E who \in P, o \in O, m \in M : r = Entry(who, o, m)

LEMMA EntriesAre ==
    ASSUME NEW P, NEW O, NEW M, NEW r
    PROVE  r \in EntrySet(P, O, M) <=> HasEntry(P, O, M, r)
<1>1. ASSUME r \in [principal : P, options : O, comment : M]
      PROVE  r.principal \in P /\ r.options \in O /\ r.comment \in M
             /\ r = [principal |-> r.principal, options |-> r.options, comment |-> r.comment]
  BY <1>1
<1>2. ASSUME NEW who \in P, NEW o \in O, NEW m \in M
      PROVE  [principal |-> who, options |-> o, comment |-> m] \in [principal : P, options : O, comment : M]
  OBVIOUS
<1>3. QED
  BY <1>1, <1>2, Zenon DEF Entry, EntrySet, HasEntry

\* The entries of the grammar, by their parts.
LEMMA EntriesToAre ==
    ASSUME NEW s, NEW ends, NEW r
    PROVE  r \in EntriesTo(s, ends) <=> \E e, j, who, o, m : /\ r = Entry(who, o, m)
                                                        /\ e \in ends /\ PartsAt(s, e, j, who, o, m)
<1> DEFINE E == {x \in ends : s[1] # "#"}
           J == Are(s, "type")
<1>1. r \in EntriesTo(s, ends) <=> \E e \in E, j \in J : r \in Entries(s, e, j)
  <2>1. EntriesTo(s, ends) = UNION {Entries(s, e, j) : e \in E, j \in J}
    BY DEF EntriesTo
  <2> HIDE DEF E, J
  <2>2. QED
    BY <2>1, SMT
<1>2. ASSUME NEW e, NEW j
      PROVE  r \in Entries(s, e, j)
               <=> \E who \in Named(SubSeq(s, 1, e)), o \in {x \in Between(s, e + 1, j) : Ordered(x)},
                      m \in Comments(s, j) : r = Entry(who, o, m)
  <2> DEFINE O == {x \in Between(s, e + 1, j) : Ordered(x)}
  <2>1. Entries(s, e, j) = [principal : Named(SubSeq(s, 1, e)), options : O, comment : Comments(s, j)]
    BY DEF Entries
  <2> HIDE DEF O
  <2>2. r \in Entries(s, e, j) <=> \E who \in Named(SubSeq(s, 1, e)), o \in O, m \in Comments(s, j) :
            r = Entry(who, o, m)
    <3> DEFINE R == EntrySet(Named(SubSeq(s, 1, e)), O, Comments(s, j))
    <3>1. r \in R <=> HasEntry(Named(SubSeq(s, 1, e)), O, Comments(s, j), r)
      BY EntriesAre, Zenon
    <3>2. Entries(s, e, j) = R
      BY <2>1, Zenon DEF EntrySet
    <3> HIDE DEF R
    <3>3. QED
      BY <3>1, <3>2, Zenon DEF HasEntry
  <2>3. QED
    BY <2>2, Zenon DEF O
<1>3. ASSUME r \in EntriesTo(s, ends)
      PROVE  \E e, j, who, o, m : r = Entry(who, o, m) /\ e \in ends /\ PartsAt(s, e, j, who, o, m)
  <2>1. PICK e \in E, j \in J : r \in Entries(s, e, j)
    BY <1>1, <1>3, Zenon
  <2>2. PICK who \in Named(SubSeq(s, 1, e)), o \in {x \in Between(s, e + 1, j) : Ordered(x)},
             m \in Comments(s, j) : r = Entry(who, o, m)
    BY <1>2, <2>1, Zenon
  <2>3. QED
    BY <2>1, <2>2, Zenon DEF PartsAt
<1>4. ASSUME NEW e, NEW j, NEW who, NEW o, NEW m,
             r = Entry(who, o, m), e \in ends, PartsAt(s, e, j, who, o, m)
      PROVE  r \in EntriesTo(s, ends)
  <2>1. r \in Entries(s, e, j)
    BY <1>2, <1>4, Zenon DEF PartsAt
  <2>2. e \in E /\ j \in J
    BY <1>4, Zenon DEF PartsAt
  <2>3. QED
    BY <1>1, <2>1, <2>2, Zenon
<1>5. QED
  BY <1>3, <1>4, Zenon

LEMMA ReadingsAre ==
    ASSUME NEW s, NEW r
    PROVE  r \in EntriesTo(s, Unmarked(s))
             <=> \E e, j, who, o, m : r = Entry(who, o, m) /\ Parts(s, e, j, who, o, m)
BY EntriesToAre, Zenon DEF Parts

\* The options of the grammar between the principals and the type.
LEMMA BetweenAre ==
    ASSUME NEW s, NEW i, NEW j, NEW o
    PROVE  o \in Between(s, i, j) <=>
             \/ Blanks(s, i, j) /\ o = None
             \/ /\ ~Blanks(s, i, j)
                /\ \E b, c \in i..j - 1 :
                     /\ Blanks(s, i, b) /\ Blanks(s, c + 1, j)
                     /\ \E cuts \in OptionReadings(SubSeq(s, b, c)) :
                          o = OptionsRead(Pieces(SubSeq(s, b, c), cuts))
<1> DEFINE B == {x \in i..j - 1 : Blanks(s, i, x)}
           C == {x \in i..j - 1 : Blanks(s, x + 1, j)}
           All == UNION {OptionsOf(SubSeq(s, b, c)) : b \in B, c \in C}
<1>1. Between(s, i, j) = IF Blanks(s, i, j) THEN {None} ELSE All
  BY DEF Between
<1>2. \A b, c : o \in OptionsOf(SubSeq(s, b, c)) <=> \E cuts \in OptionReadings(SubSeq(s, b, c)) :
                                     o = OptionsRead(Pieces(SubSeq(s, b, c), cuts))
  BY Zenon DEF OptionsOf
<1>3. \A b : b \in B <=> b \in i..j - 1 /\ Blanks(s, i, b)
  BY Zenon
<1>4. \A c : c \in C <=> c \in i..j - 1 /\ Blanks(s, c + 1, j)
  BY Zenon
<1> HIDE DEF B, C
<1>5. o \in All <=> \E b \in B, c \in C : o \in OptionsOf(SubSeq(s, b, c))
  BY SMT
<1> HIDE DEF All
<1>6. CASE Blanks(s, i, j)
  <2>1. Between(s, i, j) = {None}
    BY <1>1, <1>6, Zenon
  <2>2. QED
    BY <1>6, <2>1, Zenon
<1>7. CASE ~Blanks(s, i, j)
  <2>1. Between(s, i, j) = All
    BY <1>1, <1>7, Zenon
  <2>2. QED
    BY <1>2, <1>3, <1>4, <1>5, <1>7, <2>1, Zenon
<1>8. QED
  BY <1>6, <1>7, Zenon

LEMMA AtBegin ==
    ASSUME NEW s \in Seq(Symbol), s # <<>>, s[1] # "sp"
    PROVE  Begins(s, 1) /\ 1 \in 1..Len(s)
<1>1. 1 \in 1..Len(s) + 1 /\ 1 \in 1..Len(s)
  OBVIOUS
<1>2. ~Open(s, 1)
  BY OpenFacts, Zenon
<1>3. QED
  BY <1>1, <1>2, Zenon DEF Begins

\* Where the principals of the grammar end, so does the first field.
LEMMA PrincipalsSound ==
    ASSUME NEW s \in Seq(Symbol), s[1] # "sp", NEW e \in DOMAIN s, NEW j \in Int, Blanks(s, e + 1, j),
           NEW who \in Named(SubSeq(s, 1, e)), e \notin Escaped(s), e + 1 <= Len(s)
    PROVE  /\ Whole(s, 1) /\ PrincipalsAre(FieldAt(s, 1), who)
           /\ Ends(s, 1) = e + 1 /\ ~Open(s, e + 1)
<1> DEFINE f == SubSeq(s, 1, (e + 1) - 1)
<1>0. Len(s) \in Nat /\ e \in 1..Len(s) /\ e + 1 \in 1 + 1..Len(s) + 1 /\ 1 \in 1..Len(s) /\ (e + 1) - 1 = e
      /\ 1 \in 1..Len(s) + 1 /\ e \in 1 - 1..Len(s)
  OBVIOUS
<1>1. f = SubSeq(s, 1, e)
  BY <1>0, Zenon
<1>2. f \in Seq(Symbol)
  BY <1>0, <1>1, PieceOf, Zenon
<1> HIDE DEF f
<1>3. Closed(f) /\ PrincipalsAre(f, who)
  <2>1. NamedBy(f, who)
    BY <1>1, NamedUnescaped, Zenon
  <2>2. QED
    BY <1>2, <2>1, NamedSound, Zenon
<1>4. s[e + 1] = "sp"
  <2>1. e + 1 < j /\ \A x \in e + 1..j - 1 : s[x] = "sp"
    BY Zenon DEF Blanks
  <2>2. QED
    <3>1. e + 1 \in e + 1..j - 1
      BY <1>0, <2>1
    <3>2. QED
      BY <2>1, <3>1, Zenon
<1>5. ~Open(s, 1)
  BY OpenFacts, Zenon
<1>6. Whole(s, 1) /\ Ends(s, 1) = e + 1 /\ FieldAt(s, 1) = f /\ ~Open(s, e + 1)
  BY <1>0, <1>3, <1>4, <1>5, ClosedField, Zenon DEF f
<1>7. QED
  BY <1>3, <1>6, Zenon

\* What the grammar reads is what the parser keeps.
LEMMA ReadingKept ==
    ASSUME NEW s \in Seq(Symbol), s[1] # "sp", s[Len(s)] # "sp",
           NEW e, NEW j, NEW who, NEW o, NEW m, Parts(s, e, j, who, o, m)
    PROVE  KeptIs(s, who, o, m)
<1>0. Len(s) \in Nat /\ DOMAIN s = 1..Len(s)
  OBVIOUS
<1>1. e \in 1..Len(s) /\ s[1] # "#" /\ j \in Are(s, "type") /\ who \in Named(SubSeq(s, 1, e))
      /\ o \in Between(s, e + 1, j) /\ Ordered(o) /\ m \in Comments(s, j) /\ e \notin Escaped(s)
  BY <1>0, Zenon DEF Parts, PartsAt, Unmarked
<1>2. j \in 1..Len(s) /\ s[j] = "type" /\ j \in 1..Len(s) + 1 /\ s[j] # "sp" /\ j \in Int
  <2>1. j \in 1..Len(s) /\ s[j] = "type"
    BY <1>1, AreIs, Zenon
  <2>2. QED
    BY <2>1
<1>3. CASE Blanks(s, e + 1, j) /\ o = None
  <2>1. e + 1 < j
    BY <1>3, Zenon DEF Blanks
  <2>2. e \in DOMAIN s /\ e + 1 <= Len(s) /\ e + 1 \in 1..Len(s) + 1
    BY <1>0, <1>1, <1>2, <2>1
  <2>3. /\ Whole(s, 1) /\ PrincipalsAre(FieldAt(s, 1), who)
        /\ Ends(s, 1) = e + 1 /\ ~Open(s, e + 1)
    BY <1>1, <1>2, <1>3, <2>2, PrincipalsSound, Zenon
  <2>4. Word(s, e + 1) = j /\ Begins(s, j)
    BY <1>2, <1>3, <2>2, <2>3, GapFacts, Zenon
  <2>5. After(s, 1) = j
    BY <2>3, <2>4, Zenon DEF After
  <2>6. TypeKeyAt(s, j, m)
    BY <1>1, <2>4, TypeKeySound, Zenon
  <2>7. Whole(s, j) /\ FieldAt(s, j) = <<"type">>
    BY <2>6, Zenon DEF TypeKeyAt
  <2>8. ~TokenIsOption(<<"type">>)
    <3>1. ~(<<"type">> = <<"cert-authority">>)
      OBVIOUS
    <3>2. \A i \in DOMAIN <<"type">> : <<"type">>[i] = "type"
      OBVIOUS
    <3>3. "type" # Quote /\ "type" # Comma /\ "type" # "="
      BY Zenon DEF Quote, Comma
    <3>4. QED
      BY <3>1, <3>2, <3>3, Zenon DEF TokenIsOption
  <2>9. RestIs(s, j, o, m)
    BY <1>3, <2>6, <2>7, <2>8, Zenon DEF RestIs
  <2>10. QED
    BY <1>1, <2>3, <2>5, <2>7, <2>9, Zenon DEF KeptIs
<1>4. ASSUME NEW b \in e + 1..j - 1, NEW c \in e + 1..j - 1, Blanks(s, e + 1, b), Blanks(s, c + 1, j),
             NEW cuts \in OptionReadings(SubSeq(s, b, c)), o = OptionsRead(Pieces(SubSeq(s, b, c), cuts))
      PROVE  KeptIs(s, who, o, m)
  <2> DEFINE x == SubSeq(s, b, (c + 1) - 1)
  <2>1. e + 1 < b /\ c + 1 < j
    BY <1>4, Zenon DEF Blanks
  <2>2. /\ e \in DOMAIN s /\ e + 1 <= Len(s) /\ e + 1 \in 1..Len(s) + 1
        /\ b \in 1..Len(s) /\ b \in 1..Len(s) + 1
        /\ c + 1 \in 1..Len(s) + 1 /\ c \in 1..Len(s) /\ (c + 1) - 1 = c /\ b \in Int /\ b \in Nat /\ c \in Nat
    BY <1>0, <1>1, <1>2, <2>1
  <2>3. x = SubSeq(s, b, c)
    BY <2>2, Zenon
  <2>4. b <= c
    <3>1. SUFFICES ASSUME c < b PROVE FALSE
      BY <2>2
    <3>2. SubSeq(s, b, c) = <<>>
      BY <2>2, <3>1
    <3>3. <<>> \in Seq(Symbol) /\ ~(Len(<<>>) >= 4)
      OBVIOUS
    <3>4. QED
      BY <1>4, <3>2, <3>3, OptionsSplit, Zenon
  <2>5. x \in Seq(Symbol) /\ Len(x) = c - b + 1 /\ \A i \in 1..c - b + 1 : x[i] = s[b + i - 1]
    <3>1. c \in b - 1..Len(s)
      BY <2>2, <2>4
    <3>2. QED
      BY <2>2, <2>3, <3>1, PieceOf, Zenon
  <2> HIDE DEF x
  <2>6. cuts = Unquoted(x, Comma) /\ Closed(x) /\ Len(x) >= 4 /\ x[1] \in Name /\ x[2] = "="
    BY <1>4, <2>3, <2>5, OptionsSplit, Zenon
  <2>7. s[b] # "sp"
    <3>1. 1 \in 1..c - b + 1 /\ b + 1 - 1 = b
      BY <2>2, <2>4
    <3>2. x[1] = s[b]
      BY <2>5, <3>1, Zenon
    <3>3. QED
      BY <2>6, <3>2, NamesPlain, Zenon
  <2>8. /\ Whole(s, 1) /\ PrincipalsAre(FieldAt(s, 1), who)
        /\ Ends(s, 1) = e + 1 /\ ~Open(s, e + 1)
    BY <1>1, <1>4, <2>2, PrincipalsSound, Zenon
  <2>9. Word(s, e + 1) = b /\ Begins(s, b)
    BY <1>4, <2>2, <2>7, <2>8, GapFacts, Zenon
  <2>10. After(s, 1) = b
    BY <2>8, <2>9, Zenon DEF After
  <2>11. s[c + 1] = "sp"
    <3>1. \A i \in c + 1..j - 1 : s[i] = "sp"
      BY <1>4, Zenon DEF Blanks
    <3>2. c + 1 \in c + 1..j - 1
      BY <1>2, <2>1, <2>2
    <3>3. QED
      BY <3>1, <3>2, Zenon
  <2>12. Whole(s, b) /\ Ends(s, b) = c + 1 /\ FieldAt(s, b) = x /\ ~Open(s, c + 1)
    <3>1. ~Open(s, b) /\ c + 1 \in b + 1..Len(s) + 1
      <4>1. ~Open(s, b)
        BY <2>9, Zenon DEF Begins
      <4>2. c + 1 \in b + 1..Len(s) + 1
        BY <2>2, <2>4
      <4>3. QED
        BY <4>1, <4>2
    <3>2. QED
      BY <2>2, <2>6, <2>11, <3>1, ClosedField, Zenon DEF x
  <2>13. Word(s, c + 1) = j /\ Begins(s, j)
    BY <1>2, <1>4, <2>2, <2>12, GapFacts, Zenon
  <2>14. After(s, b) = j
    BY <2>12, <2>13, Zenon DEF After
  <2>15. TypeKeyAt(s, j, m)
    BY <1>1, <2>13, TypeKeySound, Zenon
  <2>16. TokenIsOption(x)
    <3>1. 2 \in DOMAIN x
      BY <2>5, <2>6
    <3>2. QED
      BY <2>6, <3>1, Zenon DEF TokenIsOption
  <2>17. OptionsAre(x, o)
    BY <1>4, <2>3, <2>6, Zenon DEF OptionsAre
  <2>18. RestIs(s, b, o, m)
    BY <2>12, <2>14, <2>15, <2>16, <2>17, Zenon DEF RestIs
  <2>19. QED
    BY <1>1, <2>8, <2>10, <2>12, <2>18, Zenon DEF KeptIs
<1>5. QED
  BY <1>1, <1>3, <1>4, BetweenAre, Zenon

-----------------------------------------------------------------------------
\* The two are the same.

LEMMA BetweenOptions ==
    ASSUME NEW s, NEW i, NEW j, NEW o, ~Blanks(s, i, j), NEW b \in i..j - 1, NEW c \in i..j - 1,
           Blanks(s, i, b), Blanks(s, c + 1, j),
           NEW cuts \in OptionReadings(SubSeq(s, b, c)), o = OptionsRead(Pieces(SubSeq(s, b, c), cuts))
    PROVE  o \in Between(s, i, j)
BY BetweenAre, Zenon

\* What the parser keeps is what the grammar reads.
LEMMA KeptReading ==
    ASSUME NEW s \in Seq(Symbol), s # <<>>, s[1] # "sp", s[Len(s)] # "sp",
           NEW who, NEW o, NEW m, KeptIs(s, who, o, m)
    PROVE  \E e, j : Parts(s, e, j, who, o, m)
<1> DEFINE u == Ends(s, 1)
           b == After(s, 1)
<1>0. Len(s) \in Nat /\ DOMAIN s = 1..Len(s)
  OBVIOUS
<1>1. /\ s[1] # "#" /\ Whole(s, 1) /\ PrincipalsAre(FieldAt(s, 1), who)
      /\ Whole(s, b) /\ RestIs(s, b, o, m) /\ Ordered(o)
  BY Zenon DEF KeptIs
<1>2. Begins(s, 1)
  BY AtBegin, Zenon
<1>3. FieldAt(s, 1) \in Seq(Symbol) /\ Closed(FieldAt(s, 1))
  BY <1>1, <1>2, FieldText, Zenon
<1>4. NamedBy(FieldAt(s, 1), who)
  BY <1>1, <1>3, NamedComplete, Zenon
<1>5. FieldAt(s, 1) = SubSeq(s, 1, u - 1)
  BY Zenon DEF FieldAt
<1>6. /\ FieldTo(s, 1, u) /\ Begins(s, b)
      /\ u <= Len(s) => Blanks(s, u, b)
      /\ u > Len(s) => b = Len(s) + 1
  BY <1>1, <1>2, AfterFacts, Zenon
<1>7. b <= Len(s)
  BY <1>1, Zenon DEF Whole
<1> HIDE DEF u, b
<1>8. u \in 1 + 1..Len(s) + 1
  BY <1>6, Zenon DEF FieldTo
<1>9. u <= Len(s) /\ (u - 1) + 1 = u /\ u - 1 \in DOMAIN s
  BY <1>0, <1>6, <1>7, <1>8
<1>10. who \in Named(SubSeq(s, 1, u - 1)) /\ u - 1 \in Unmarked(s)
  BY <1>4, <1>5, <1>9, NamedUnescaped, Zenon DEF Unmarked
<1>11. Blanks(s, u, b) /\ b \in 1..Len(s) + 1 /\ s[b] # "sp"
  BY <1>6, <1>7, <1>9, Zenon DEF Begins
<1>12. u < b /\ b \in 1..Len(s)
  <2>1. u < b
    BY <1>11, Zenon DEF Blanks
  <2>2. QED
    BY <1>7, <1>11, <2>1
<1>13. CASE ~TokenIsOption(FieldAt(s, b))
  <2>1. o = None /\ TypeKeyAt(s, b, m)
    BY <1>1, <1>13, Zenon DEF RestIs
  <2>2. b \in Are(s, "type") /\ m \in Comments(s, b)
    BY <1>6, <2>1, TypeKeyComplete, Zenon
  <2>3. o \in Between(s, (u - 1) + 1, b)
    BY <1>9, <1>11, <2>1, BetweenAre, Zenon
  <2>4. Parts(s, u - 1, b, who, o, m)
    BY <1>1, <1>10, <2>2, <2>3, Zenon DEF Parts, PartsAt
  <2>5. QED
    BY <2>4, Zenon
<1>14. CASE TokenIsOption(FieldAt(s, b))
  <2> DEFINE val == Ends(s, b)
             j == After(s, b)
  <2>1. OptionsAre(FieldAt(s, b), o) /\ TypeKeyAt(s, j, m)
    BY <1>1, <1>14, Zenon DEF RestIs
  <2>2. FieldAt(s, b) = SubSeq(s, b, val - 1)
    BY Zenon DEF FieldAt
  <2>3. /\ FieldTo(s, b, val) /\ Begins(s, j)
        /\ val <= Len(s) => Blanks(s, val, j)
        /\ val > Len(s) => j = Len(s) + 1
    BY <1>1, <1>6, AfterFacts, Zenon
  <2> HIDE DEF val, j
  <2>4. j \in Are(s, "type") /\ m \in Comments(s, j)
    BY <2>1, <2>3, TypeKeyComplete, Zenon
  <2>5. j \in 1..Len(s)
    BY <2>4, AreIs, Zenon
  <2>6. val \in b + 1..Len(s) + 1
    BY <2>3, Zenon DEF FieldTo
  <2>7. val <= Len(s) /\ (val - 1) + 1 = val
    BY <1>0, <2>3, <2>5, <2>6
  <2>8. Blanks(s, val, j) /\ val < j
    <3>1. Blanks(s, val, j)
      BY <2>3, <2>7, Zenon
    <3>2. QED
      BY <3>1, Zenon DEF Blanks
  <2>9. b \in (u - 1) + 1..j - 1 /\ val - 1 \in (u - 1) + 1..j - 1 /\ b \in u..j - 1
    BY <1>9, <1>12, <2>5, <2>6, <2>8
  <2>10. ~Blanks(s, (u - 1) + 1, j)
    <3>1. ~Blanks(s, u, j)
      BY <1>11, <2>9, Zenon DEF Blanks
    <3>2. QED
      BY <1>9, <3>1, Zenon
  <2>11. \E cuts \in OptionReadings(SubSeq(s, b, val - 1)) :
             o = OptionsRead(Pieces(SubSeq(s, b, val - 1), cuts))
    BY <2>1, <2>2, Zenon DEF OptionsAre
  <2>12. Blanks(s, (u - 1) + 1, b) /\ Blanks(s, (val - 1) + 1, j)
    BY <1>9, <1>11, <2>7, <2>8, Zenon
  <2>13. o \in Between(s, (u - 1) + 1, j)
    <3>1. PICK cuts \in OptionReadings(SubSeq(s, b, val - 1)) :
              o = OptionsRead(Pieces(SubSeq(s, b, val - 1), cuts))
      BY <2>11, Zenon
    <3>2. QED
      BY <2>9, <2>10, <2>12, <3>1, BetweenOptions, Zenon
  <2>14. Parts(s, u - 1, j, who, o, m)
    BY <1>1, <1>10, <2>4, <2>13, Zenon DEF Parts, PartsAt
  <2>15. QED
    BY <2>14, Zenon
<1>15. QED
  BY <1>13, <1>14

\* The grammar reads a text as what the parser keeps of it, and as nothing else.
LEMMA ReadingsKept ==
    ASSUME NEW s \in Seq(Symbol), s # <<>>, s[1] # "sp", s[Len(s)] # "sp", NEW r
    PROVE  r \in EntriesTo(s, Unmarked(s)) <=> \E who, o, m : r = Entry(who, o, m) /\ KeptIs(s, who, o, m)
<1>1. ASSUME r \in EntriesTo(s, Unmarked(s)) PROVE \E who, o, m : r = Entry(who, o, m) /\ KeptIs(s, who, o, m)
  <2>1. PICK e, j, who, o, m : r = Entry(who, o, m) /\ Parts(s, e, j, who, o, m)
    BY <1>1, ReadingsAre, Zenon
  <2>2. KeptIs(s, who, o, m)
    BY <2>1, ReadingKept, Zenon
  <2>3. QED
    BY <2>1, <2>2, Zenon
<1>2. ASSUME NEW who, NEW o, NEW m, r = Entry(who, o, m), KeptIs(s, who, o, m) PROVE r \in EntriesTo(s, Unmarked(s))
  <2>1. \E e, j : Parts(s, e, j, who, o, m)
    BY <1>2, KeptReading, Zenon
  <2>2. QED
    BY <1>2, <2>1, ReadingsAre, Zenon
<1>3. QED
  BY <1>1, <1>2, Zenon

\* The parser keeps one entry of a text at most.
LEMMA KeptOnce ==
    ASSUME NEW s, NEW who, NEW o, NEW m, KeptIs(s, who, o, m),
           NEW who2, NEW o2, NEW m2, KeptIs(s, who2, o2, m2)
    PROVE  who = who2 /\ o = o2 /\ m = m2
<1>1. who = who2
  BY Zenon DEF KeptIs, PrincipalsAre
<1>2. o = o2 /\ m = m2
  BY Zenon DEF KeptIs, RestIs, OptionsAre, TypeKeyAt
<1>3. QED
  BY <1>1, <1>2

\* An escaped quote that ended the principals would be in the field that the parser takes
\* for them, and no part of it is: its quotes do not close there.
LEMMA NoEscapedEnd ==
    ASSUME NEW s \in Seq(Symbol), s # <<>>, s[1] # "sp",
           NEW who, NEW o, NEW m, KeptIs(s, who, o, m),
           NEW e \in Escaped(s), NEW j, NEW who2, NEW o2, NEW m2, PartsAt(s, e, j, who2, o2, m2)
    PROVE  FALSE
<1> DEFINE f == SubSeq(s, 1, e)
           u == Ends(s, 1)
           g == FieldAt(s, 1)
<1>0. Len(s) \in Nat /\ e \in 1..Len(s) /\ s[e] = Quote /\ e > 1 /\ s[e - 1] = Back /\ e \in DOMAIN s
  BY DEF Escaped, Are
<1>1. f \in Seq(Symbol) /\ Len(f) = e /\ \A i \in 1..e : f[i] = s[i]
  <2>1. 1 \in 1..Len(s) + 1 /\ e \in 1 - 1..Len(s) /\ e - 1 + 1 = e /\ \A i \in 1..e : 1 + i - 1 = i
    BY <1>0
  <2>2. f \in Seq(Symbol) /\ Len(f) = e - 1 + 1 /\ \A i \in 1..e - 1 + 1 : f[i] = s[1 + i - 1]
    BY <2>1, PieceOf, Zenon
  <2>3. QED
    BY <2>1, <2>2
<1> HIDE DEF f
<1>2. PICK q \in 1..Len(f) + 1 : NextQuote(f, q)
  BY NamedIs, Zenon DEF PartsAt, f
<1>3. q \in 1..e /\ q < e
  <2>1. q <= e
    <3>1. SUFFICES ASSUME ~(q <= e) PROVE FALSE
      BY Zenon
    <3>2. e \in 1..q - 1 /\ f[e] = Quote
      BY <1>0, <1>1, <1>2, <3>1
    <3>3. QED
      BY <1>2, <3>2, Zenon DEF NextQuote
  <2>2. q < e
    BY <1>1, <1>2, <2>1, Zenon DEF NextQuote
  <2>3. QED
    BY <1>0, <1>1, <1>2, <2>1, <2>2
<1>4. /\ s[q] = Quote
      /\ \A i \in 1..q - 1 : s[i] # Quote /\ s[i] # "sp"
      /\ \A i \in q + 1..e - 1 : s[i] # Quote
  <2>1. /\ f[q] = Quote
        /\ \A i \in 1..q - 1 : f[i] # Quote /\ f[i] # "sp"
        /\ \A i \in q + 1..e - 1 : f[i] # Quote
    <3>1. q <= Len(f)
      BY <1>0, <1>1, <1>3
    <3>2. QED
      BY <1>1, <1>2, <3>1, Zenon DEF NextQuote
  <2>2. QED
    BY <1>0, <1>1, <1>3, <2>1
<1>5. (\A i \in q + 1..e : Open(s, i)) /\ Open(s, e + 1)
  <2>1. ~Open(s, 1) /\ q - 1 \in 1 - 1..Len(s) /\ 1 \in 1..Len(s) + 1 /\ (q - 1) + 1 = q /\ q \in 1..q
    BY <1>0, <1>3, OpenFacts
  <2>2. \A i \in 1..(q - 1) + 1 : ~Open(s, i)
    BY <1>4, <2>1, PlainRun, Zenon
  <2>3. ~Open(s, q)
    BY <2>1, <2>2, Zenon
  <2>4. q \in 1..Len(s) /\ \A i \in q + 1..e - 1 : s[i] = Quote => s[i - 1] = Back
    BY <1>0, <1>3, <1>4
  <2>5. QED
    BY <1>0, <1>3, <1>4, <2>3, <2>4, QuotedRun, Zenon
<1>6. Begins(s, 1)
  BY AtBegin, Zenon
<1>7. Whole(s, 1) /\ PrincipalsAre(g, who)
  BY Zenon DEF KeptIs
<1>8. u \in 1 + 1..Len(s) + 1 /\ ~Open(s, u) /\ (u <= Len(s) => s[u] = "sp")
  BY <1>6, <1>7, AfterFacts, Zenon DEF FieldTo
<1>9. g \in Seq(Symbol) /\ Closed(g)
  BY <1>6, <1>7, FieldText, Zenon
<1>10. g = SubSeq(s, 1, u - 1)
  BY Zenon DEF FieldAt
<1> HIDE DEF u, g
<1>11. u > e + 1
  <2>1. SUFFICES ASSUME ~(u > e + 1) PROVE FALSE
    BY Zenon
  <2>2. CASE u <= q
    <3>1. u \in 1..q - 1 \/ u = q
      BY <1>3, <1>8, <2>2
    <3>2. s[u] = "sp"
      BY <1>0, <1>3, <1>8, <2>2
    <3>3. Quote # "sp"
      BY Marks, Zenon
    <3>4. QED
      BY <1>4, <3>1, <3>2, <3>3, Zenon
  <2>3. CASE ~(u <= q)
    <3>1. u \in q + 1..e \/ u = e + 1
      BY <1>0, <1>3, <1>8, <2>1, <2>3
    <3>2. QED
      BY <1>5, <1>8, <3>1, Zenon
  <2>4. QED
    BY <2>2, <2>3, Zenon
<1>12. Len(g) = u - 1 /\ \A i \in 1..u - 1 : g[i] = s[i]
  <2>1. 1 \in 1..Len(s) + 1 /\ u - 1 \in 1 - 1..Len(s) /\ (u - 1) - 1 + 1 = u - 1
        /\ \A i \in 1..u - 1 : 1 + i - 1 = i
    BY <1>0, <1>8
  <2>2. Len(g) = (u - 1) - 1 + 1 /\ \A i \in 1..(u - 1) - 1 + 1 : g[i] = s[1 + i - 1]
    BY <1>10, <2>1, PieceOf, Zenon
  <2>3. QED
    BY <2>1, <2>2
<1>13. PICK b \in 1..Len(g) + 1 : QuotedAt(g, b)
  <2>1. PrincipalsQuoted(g)
    BY <1>7, Zenon DEF PrincipalsAre
  <2>2. QED
    BY <1>9, <2>1, QuotedPrincipals, Zenon
<1>14. /\ \A i \in 1..b - 1 : g[i] # Quote
       /\ b <= Len(g) => g[b] = Quote /\ \A i \in b + 1..Len(g) - 1 : g[i] # Quote
  BY <1>13, Zenon DEF QuotedAt, QuotedFrom
<1>15. g[q] = Quote /\ g[e] = Quote /\ q \in 1..Len(g) /\ e \in q + 1..Len(g) - 1
       /\ \A i \in 1..q - 1 : g[i] # Quote
  BY <1>0, <1>3, <1>4, <1>8, <1>11, <1>12
<1>16. b = q
  BY <1>8, <1>12, <1>13, <1>14, <1>15
<1>17. QED
  BY <1>12, <1>14, <1>15, <1>16, <1>8

\* So the readings of a text that is kept are those of which no backslash is there.
LEMMA ReadingsUnmarked ==
    ASSUME NEW s \in Seq(Symbol), s # <<>>, s[1] # "sp",
           NEW who, NEW o, NEW m, KeptIs(s, who, o, m)
    PROVE  \A r : r \in Readings(s) <=> r \in EntriesTo(s, Unmarked(s))
<1>1. ASSUME NEW e \in DOMAIN s, NEW j, NEW who2, NEW o2, NEW m2, PartsAt(s, e, j, who2, o2, m2)
      PROVE  Parts(s, e, j, who2, o2, m2)
  <2>1. e \notin Escaped(s)
    BY <1>1, NoEscapedEnd, Zenon
  <2>2. QED
    BY <1>1, <2>1, Zenon DEF Parts, Unmarked
<1>2. ASSUME NEW r PROVE r \in Readings(s) <=> r \in EntriesTo(s, Unmarked(s))
  <2>1. r \in Readings(s) <=> \E e, j, who2, o2, m2 : /\ r = Entry(who2, o2, m2)
                                                    /\ e \in DOMAIN s /\ PartsAt(s, e, j, who2, o2, m2)
    BY EntriesToAre, Zenon DEF Readings
  <2>2. ASSUME r \in Readings(s) PROVE r \in EntriesTo(s, Unmarked(s))
    <3>1. PICK e, j, who2, o2, m2 : r = Entry(who2, o2, m2) /\ e \in DOMAIN s
                                   /\ PartsAt(s, e, j, who2, o2, m2)
      BY <2>1, <2>2, Zenon
    <3>2. Parts(s, e, j, who2, o2, m2)
      BY <1>1, <3>1, Zenon
    <3>3. QED
      BY <3>1, <3>2, ReadingsAre, Zenon
  <2>3. ASSUME r \in EntriesTo(s, Unmarked(s)) PROVE r \in Readings(s)
    <3>1. PICK e, j, who2, o2, m2 : r = Entry(who2, o2, m2) /\ Parts(s, e, j, who2, o2, m2)
      BY <2>3, ReadingsAre, Zenon
    <3>2. QED
      BY <2>1, <3>1, Zenon DEF Parts, Unmarked
  <2>4. QED
    BY <2>2, <2>3, Zenon
<1>3. QED
  BY <1>2, Zenon

\* A text that is kept has one reading, its entry,
LEMMA KeptReads ==
    ASSUME NEW s \in Seq(Symbol), s # <<>>, s[1] # "sp", s[Len(s)] # "sp",
           NEW who, NEW o, NEW m, KeptIs(s, who, o, m)
    PROVE  Readings(s) = {Entry(who, o, m)}
<1>1. ASSUME NEW who2, NEW o2, NEW m2, KeptIs(s, who2, o2, m2) PROVE who = who2 /\ o = o2 /\ m = m2
  BY <1>1, KeptOnce, Zenon
<1>0. \A r : r \in Readings(s) <=> r \in EntriesTo(s, Unmarked(s))
  BY ReadingsUnmarked, Zenon
<1>2. ASSUME NEW r PROVE r \in Readings(s) <=> r = Entry(who, o, m)
  <2>1. ASSUME r \in Readings(s) PROVE r = Entry(who, o, m)
    <3>1. PICK who2, o2, m2 : r = Entry(who2, o2, m2) /\ KeptIs(s, who2, o2, m2)
      BY <1>0, <2>1, ReadingsKept, Zenon
    <3>2. who = who2 /\ o = o2 /\ m = m2
      BY <1>1, <3>1, Zenon
    <3>3. QED
      BY <3>1, <3>2, Zenon
  <2>2. Entry(who, o, m) \in Readings(s)
    BY <1>0, ReadingsKept, Zenon
  <2>3. QED
    BY <2>1, <2>2, Zenon
<1>3. \A r : r \in Readings(s) <=> r \in {Entry(who, o, m)}
  BY <1>2, Zenon
<1>4. QED
  BY <1>3

\* and a text that is not has none.
LEMMA NoneKept ==
    ASSUME NEW s \in Seq(Symbol), s = <<>> \/ (s[1] # "sp" /\ s[Len(s)] # "sp"),
           \A who, o, m : ~KeptIs(s, who, o, m)
    PROVE  EntriesTo(s, Unmarked(s)) = {}
<1>1. CASE s = <<>>
  <2>1. DOMAIN s = {}
    BY <1>1
  <2>2. \A r : r \notin EntriesTo(s, Unmarked(s))
    BY <2>1, ReadingsAre, Zenon DEF Parts, Unmarked
  <2>3. QED
    BY <2>2, Zenon
<1>2. CASE s # <<>>
  <2>1. \A r : r \notin EntriesTo(s, Unmarked(s))
    BY <1>2, ReadingsKept, Zenon
  <2>2. QED
    BY <2>1, Zenon
<1>3. QED
  BY <1>1, <1>2

-----------------------------------------------------------------------------
\* The fields that were found.

\* Where the fields of a text begin.
Place(s, k) ==
    CASE k = 1 -> 1
      [] k = 2 -> After(s, 1)
      [] k = 3 -> After(s, After(s, 1))
      [] k = 4 -> After(s, After(s, After(s, 1)))
      [] k = 5 -> After(s, After(s, After(s, After(s, 1))))

LEMMA PlaceNext ==
    ASSUME NEW s, NEW k \in 1..4
    PROVE  Place(s, 1) = 1 /\ Place(s, k + 1) = After(s, Place(s, k))
<1>1. Place(s, 1) = 1
  BY DEF Place
<1>2. Place(s, 2) = After(s, 1)
  BY DEF Place
<1>3. Place(s, 3) = After(s, After(s, 1))
  BY DEF Place
<1>4. Place(s, 4) = After(s, After(s, After(s, 1)))
  BY DEF Place
<1>5. Place(s, 5) = After(s, After(s, After(s, After(s, 1))))
  BY DEF Place
<1>6. k = 1 \/ k = 2 \/ k = 3 \/ k = 4
  OBVIOUS
<1>7. QED
  BY <1>1, <1>2, <1>3, <1>4, <1>5, <1>6

\* A text is kept for what its fields say.
LEMMA KeptFields ==
    ASSUME NEW s, NEW who, NEW o, NEW m
    PROVE  KeptIs(s, who, o, m) <=>
             /\ s[1] # "#" /\ Ordered(o)
             /\ Whole(s, Place(s, 1)) /\ Whole(s, Place(s, 2)) /\ Whole(s, Place(s, 3))
             /\ PrincipalsAre(FieldAt(s, Place(s, 1)), who)
             /\ TokenIsOption(FieldAt(s, Place(s, 2))) =>
                  /\ Whole(s, Place(s, 4))
                  /\ OptionsAre(FieldAt(s, Place(s, 2)), o)
                  /\ FieldAt(s, Place(s, 3)) = <<"type">> /\ FieldAt(s, Place(s, 4)) = <<"key">>
                  /\ m = SubSeq(s, Place(s, 5), Len(s))
             /\ ~TokenIsOption(FieldAt(s, Place(s, 2))) =>
                  /\ o = None
                  /\ FieldAt(s, Place(s, 2)) = <<"type">> /\ FieldAt(s, Place(s, 3)) = <<"key">>
                  /\ m = SubSeq(s, Place(s, 4), Len(s))
<1>1. /\ Place(s, 1) = 1 /\ Place(s, 2) = After(s, 1) /\ Place(s, 3) = After(s, Place(s, 2))
      /\ Place(s, 4) = After(s, Place(s, 3)) /\ Place(s, 5) = After(s, Place(s, 4))
  BY DEF Place
<1>2. QED
  BY <1>1, Zenon DEF KeptIs, RestIs, TypeKeyAt

\* The fields found so far, and the place of the next.
FieldFound(s, f, i) == Begins(s, Place(s, i)) /\ Whole(s, Place(s, i)) /\ f[i] = FieldAt(s, Place(s, i))
Found(s, f, a) ==
    /\ f \in Seq(Seq(Symbol)) /\ Len(f) \in 0..4
    /\ \A i \in 1..Len(f) : FieldFound(s, f, i)
    /\ a = Place(s, Len(f) + 1) /\ Begins(s, a)
    /\ Len(f) = 4 => TokenIsOption(f[2])
EnoughOf(f) == Len(f) = IF Len(f) >= 2 /\ TokenIsOption(f[2]) THEN 4 ELSE 3

\* One more field that is whole.
LEMMA FieldStep ==
    ASSUME NEW s \in Seq(Symbol), NEW f, NEW a, Found(s, f, a), ~EnoughOf(f), Whole(s, a)
    PROVE  Found(s, Append(f, FieldAt(s, a)), After(s, a))
<1> DEFINE k == Len(f)
           g == Append(f, FieldAt(s, a))
<1>1. /\ f \in Seq(Seq(Symbol)) /\ k \in 0..4
      /\ \A i \in 1..k : FieldFound(s, f, i)
      /\ a = Place(s, k + 1) /\ Begins(s, a)
      /\ k = 4 => TokenIsOption(f[2])
  BY Zenon DEF Found
<1>2. FieldAt(s, a) \in Seq(Symbol) /\ Begins(s, After(s, a))
  BY <1>1, FieldText, AfterFacts, Zenon
<1>3. g \in Seq(Seq(Symbol)) /\ Len(g) = k + 1 /\ g[k + 1] = FieldAt(s, a) /\ \A i \in 1..k : g[i] = f[i]
  BY <1>1, <1>2
<1>4. k \in 0..3 /\ (k = 3 => TokenIsOption(f[2]))
  <2>1. k # 4
    <3>1. SUFFICES ASSUME k = 4 PROVE FALSE
      OBVIOUS
    <3>2. k >= 2 /\ TokenIsOption(f[2])
      BY <1>1, <3>1
    <3>3. QED
      BY <3>1, <3>2, Zenon DEF EnoughOf
  <2>2. ASSUME k = 3 PROVE TokenIsOption(f[2])
    <3>1. k >= 2
      BY <2>2
    <3>2. QED
      BY <2>2, <3>1, Zenon DEF EnoughOf
  <2>3. k \in 0..3
    BY <1>1, <2>1
  <2>4. QED
    BY <2>2, <2>3, Zenon
<1> HIDE DEF g, k
<1>5. Len(g) \in 0..4 /\ k + 1 \in 1..4 /\ k \in Nat
  BY <1>3, <1>4
<1>6. After(s, a) = Place(s, Len(g) + 1)
  BY <1>1, <1>3, <1>5, PlaceNext, Zenon
<1>7. ASSUME NEW i \in 1..Len(g) PROVE FieldFound(s, g, i)
  <2>1. CASE i \in 1..k
    BY <1>1, <1>3, <2>1, Zenon DEF FieldFound
  <2>2. CASE i = k + 1
    BY <1>1, <1>3, <2>2, Zenon DEF FieldFound
  <2>3. QED
    BY <1>3, <1>5, <2>1, <2>2
<1>8. ASSUME Len(g) = 4 PROVE TokenIsOption(g[2])
  <2>1. k = 3
    <3>1. k + 1 = 4
      BY <1>3, <1>8, Zenon
    <3>2. QED
      BY <1>4, <3>1
  <2>2. 2 \in 1..k
    BY <2>1
  <2>3. QED
    BY <1>3, <1>4, <2>1, <2>2, Zenon
<1>9. QED
  BY <1>2, <1>3, <1>5, <1>6, <1>7, <1>8, Zenon DEF Found, g, k

\* Without a field that is needed, nothing is kept.
LEMMA FieldMissing ==
    ASSUME NEW s \in Seq(Symbol), NEW f, NEW a, Found(s, f, a), ~EnoughOf(f), ~Whole(s, a),
           NEW who, NEW o, NEW m
    PROVE  ~KeptIs(s, who, o, m)
<1> DEFINE k == Len(f)
<1>1. /\ k \in 0..4
      /\ \A i \in 1..k : FieldFound(s, f, i)
      /\ a = Place(s, k + 1)
      /\ k = 4 => TokenIsOption(f[2])
  BY Zenon DEF Found
<1>e. ~(k = IF k >= 2 /\ TokenIsOption(f[2]) THEN 4 ELSE 3)
  BY Zenon DEF EnoughOf
<1> HIDE DEF k
<1>2. SUFFICES ASSUME KeptIs(s, who, o, m) PROVE FALSE
  OBVIOUS
<1>3. /\ Whole(s, Place(s, 1)) /\ Whole(s, Place(s, 2)) /\ Whole(s, Place(s, 3))
      /\ TokenIsOption(FieldAt(s, Place(s, 2))) => Whole(s, Place(s, 4))
  BY <1>2, KeptFields, Zenon
<1>4. k # 0 /\ k # 1 /\ k # 2
  <2>1. ASSUME k = 0 \/ k = 1 \/ k = 2 PROVE FALSE
    <3>1. k + 1 = 1 \/ k + 1 = 2 \/ k + 1 = 3
      BY <2>1
    <3>2. QED
      BY <1>1, <1>3, <3>1, Zenon
  <2>2. QED
    BY <2>1
<1>5. 2 \in 1..k /\ k >= 2 /\ (k = 3 \/ k = 4)
  BY <1>1, <1>4
<1>6. f[2] = FieldAt(s, Place(s, 2))
  BY <1>1, <1>5, Zenon DEF FieldFound
<1>7. k = 3 /\ TokenIsOption(f[2])
  BY <1>e, <1>1, <1>5, Zenon
<1>8. k + 1 = 4
  BY <1>7
<1>9. QED
  BY <1>1, <1>3, <1>6, <1>7, <1>8, Zenon

\* With all fields found, what they say decides.
LEMMA KeptFound ==
    ASSUME NEW s \in Seq(Symbol), NEW f, NEW a, Found(s, f, a), EnoughOf(f), s[1] # "#", NEW who, NEW o, NEW m
    PROVE  /\ Begins(s, Place(s, 1)) /\ Whole(s, Place(s, 1)) /\ f[1] = FieldAt(s, Place(s, 1))
           /\ Begins(s, Place(s, 2)) /\ Whole(s, Place(s, 2)) /\ f[2] = FieldAt(s, Place(s, 2))
           /\ KeptIs(s, who, o, m) <=>
                /\ Ordered(o) /\ PrincipalsAre(f[1], who) /\ m = SubSeq(s, a, Len(s))
                /\ TokenIsOption(f[2]) => OptionsAre(f[2], o) /\ f[3] = <<"type">> /\ f[4] = <<"key">>
                /\ ~TokenIsOption(f[2]) => o = None /\ f[2] = <<"type">> /\ f[3] = <<"key">>
<1> DEFINE k == Len(f)
<1>1. /\ k \in 0..4
      /\ \A i \in 1..k : FieldFound(s, f, i)
      /\ a = Place(s, k + 1)
      /\ k = 4 => TokenIsOption(f[2])
  BY Zenon DEF Found
<1>e. k = IF k >= 2 /\ TokenIsOption(f[2]) THEN 4 ELSE 3
  BY Zenon DEF EnoughOf
<1> HIDE DEF k
<1>2. (k = 4 /\ TokenIsOption(f[2])) \/ (k = 3 /\ ~TokenIsOption(f[2]))
  <2>1. CASE k >= 2 /\ TokenIsOption(f[2])
    BY <1>e, <2>1, Zenon
  <2>2. CASE ~(k >= 2 /\ TokenIsOption(f[2]))
    <3>1. k = 3
      BY <1>e, <2>2, Zenon
    <3>2. k >= 2
      BY <3>1
    <3>3. QED
      BY <2>2, <3>1, <3>2
  <2>3. QED
    BY <2>1, <2>2
<1>3. 1 \in 1..k /\ 2 \in 1..k /\ 3 \in 1..k /\ (k = 4 => 4 \in 1..k)
  BY <1>2
<1>4. /\ FieldFound(s, f, 1) /\ FieldFound(s, f, 2) /\ FieldFound(s, f, 3)
      /\ k = 4 => FieldFound(s, f, 4) /\ a = Place(s, 5)
      /\ k = 3 => a = Place(s, 4)
  <2>1. 4 + 1 = 5 /\ 3 + 1 = 4
    OBVIOUS
  <2>2. QED
    BY <1>1, <1>3, <2>1, Zenon
<1>5. CASE k = 4 /\ TokenIsOption(f[2])
  BY <1>4, <1>5, KeptFields, Zenon DEF FieldFound
<1>6. CASE k = 3 /\ ~TokenIsOption(f[2])
  BY <1>4, <1>6, KeptFields, Zenon DEF FieldFound
<1>7. QED
  BY <1>2, <1>5, <1>6, Zenon

-----------------------------------------------------------------------------
\* The options that were taken.

\* The options before the cut are well-formed, each another, and those of the entry.
Opt(x, c) == Cut(x, Unquoted(x, Comma), c + 1)
CommaCuts(x) == {0} \cup Unquoted(x, Comma)
Done(x, to) == {c \in CommaCuts(x) : c < to}
Fine(x, cs) ==
    /\ \A c \in cs : IsOption(Opt(x, c))
    /\ \A c, d \in cs : Opt(x, c)[1] = Opt(x, d)[1] => c = d
Saying(x, cs, name) == {Says(Opt(x, c)) : c \in {d \in cs : Opt(x, d)[1] = name}}
Given(x, cs) == [name \in Name |-> Saying(x, cs, name)]
Taken(x, to, o) ==
    /\ to \in CommaCuts(x) \cup {Len(x) + 1}
    /\ Fine(x, Done(x, to))
    /\ o = Given(x, Done(x, to))

LEMMA CutsOf ==
    ASSUME NEW x \in Seq(Symbol)
    PROVE  /\ CommaCuts(x) \in SUBSET (0..Len(x)) /\ 0 \in CommaCuts(x)
           /\ Unquoted(x, Comma) \in SUBSET (1..Len(x))
           /\ \A c \in Unquoted(x, Comma) : x[c] = Comma /\ ~Open(x, c)
<1>1. /\ Unquoted(x, Comma) \in SUBSET (1..Len(x))
      /\ \A i \in 1..Len(x) : i \in Unquoted(x, Comma) <=> x[i] = Comma /\ ~Open(x, i)
  BY UnquotedFacts, Zenon
<1>2. \A c \in CommaCuts(x) : c \in 0..Len(x)
  BY <1>1, SMT DEF CommaCuts
<1>3. QED
  BY <1>1, <1>2, Zenon DEF CommaCuts

\* Before the first option none is given.
LEMMA TakenNone ==
    ASSUME NEW x \in Seq(Symbol)
    PROVE  Taken(x, 0, None)
<1>1. Done(x, 0) = {}
  <2>1. \A c \in CommaCuts(x) : c \in 0..Len(x)
    BY CutsOf, Zenon
  <2>2. \A c \in CommaCuts(x) : ~(c < 0)
    BY <2>1, SMT
  <2>3. QED
    BY <2>2, Zenon DEF Done
<1>2. Fine(x, {})
  BY Zenon DEF Fine
<1>3. Given(x, {}) = None
  <2>1. \A name : Saying(x, {}, name) = {}
    BY Zenon DEF Saying
  <2>2. QED
    BY <2>1, Zenon DEF Given, None
<1>4. 0 \in CommaCuts(x)
  BY CutsOf, Zenon
<1>5. QED
  BY <1>1, <1>2, <1>3, <1>4, Zenon DEF Taken

\* Where the next option ends, and that no quote is open there.
LEMMA OptionPart ==
    ASSUME NEW x \in Seq(Symbol), Closed(x), NEW c \in CommaCuts(x) \cup {Len(x) + 1}, c <= Len(x)
    PROVE  /\ c \in CommaCuts(x)
           /\ CutEnd(x, Unquoted(x, Comma), c) \in CommaCuts(x) \cup {Len(x) + 1}
           /\ Done(x, CutEnd(x, Unquoted(x, Comma), c)) = Done(x, c) \cup {c}
           /\ Opt(x, c) \in Seq(Symbol)
           /\ ~Open(Opt(x, c), Len(Opt(x, c)) + 1)
<1> DEFINE C == Unquoted(x, Comma)
           n == Len(x)
           u == CutEnd(x, C, c)
<1>0. n \in Nat
  OBVIOUS
<1>1. CommaCuts(x) \in SUBSET (0..n) /\ 0 \in CommaCuts(x) /\ C \in SUBSET (1..n) /\ CommaCuts(x) = {0} \cup C
      /\ \A d \in C : x[d] = Comma /\ ~Open(x, d)
  BY CutsOf, Zenon DEF CommaCuts
<1> HIDE DEF C
<1>2. c \in CommaCuts(x)
  <2>1. c # n + 1
    BY <1>0
  <2>2. QED
    BY <2>1, Zenon
<1>3. c \in 0..n /\ c + 1 \in 1..n + 1
  <2>1. c \in 0..n
    BY <1>1, <1>2, Zenon
  <2>2. QED
    BY <1>0, <2>1
<1>4. IsUpto(x, C, c + 1, u)
  BY <1>0, <1>1, <1>3, UptoFacts, Zenon DEF CutEnd
<1> HIDE DEF u
<1>5. u \in C \cup {n + 1} /\ u \in c + 1..n + 1 /\ \A d \in C : d >= c + 1 => u <= d
  BY <1>4, Zenon DEF IsUpto
<1>6. ASSUME NEW d \in CommaCuts(x) PROVE d < u <=> d < c \/ d = c
  <2>1. d \in 0..n /\ (d = 0 \/ d \in C)
    BY <1>1, Zenon
  <2>2. d >= c + 1 => u <= d
    BY <1>3, <1>5, <2>1
  <2>3. QED
    BY <1>3, <1>5, <2>1, <2>2
<1>7. Done(x, u) = Done(x, c) \cup {c}
  BY <1>2, <1>6, Zenon DEF Done
<1>8. u \in CommaCuts(x) \cup {n + 1}
  BY <1>1, <1>5, Zenon
<1>9. ~Open(x, c + 1)
  <2>1. CASE c = 0
    <3>1. c + 1 = 1
      BY <2>1
    <3>2. QED
      BY <3>1, OpenFacts, Zenon
  <2>2. CASE c \in C
    <3>1. c \in 1..n /\ x[c] = Comma /\ ~Open(x, c)
      BY <1>1, <2>2, Zenon
    <3>2. OpenStep(x, c)
      BY <3>1, OpenFacts, Zenon
    <3>3. QED
      BY <3>1, <3>2, Marks, Zenon DEF OpenStep
  <2>3. QED
    BY <1>1, <1>2, <2>1, <2>2, Zenon
<1>10. ~Open(x, u)
  <2>1. CASE u = n + 1
    BY <2>1, Zenon DEF Closed
  <2>2. CASE u \in C
    BY <1>1, <2>2, Zenon
  <2>3. QED
    BY <1>5, <2>1, <2>2, Zenon
<1>11. Opt(x, c) = SubSeq(x, c + 1, u - 1)
  BY Zenon DEF Opt, Cut, CutEnd, u, C
<1>12. u - 1 \in (c + 1) - 1..n /\ (u - 1) - (c + 1) + 2 \in 1..(u - 1) - (c + 1) + 2
       /\ (c + 1) + ((u - 1) - (c + 1) + 2) - 1 = u
  BY <1>0, <1>3, <1>5
<1>13. /\ SubSeq(x, c + 1, u - 1) \in Seq(Symbol)
       /\ Len(SubSeq(x, c + 1, u - 1)) = (u - 1) - (c + 1) + 1
  BY <1>3, <1>12, PieceOf, Zenon
<1>14. Open(SubSeq(x, c + 1, u - 1), (u - 1) - (c + 1) + 2) <=> Open(x, (c + 1) + ((u - 1) - (c + 1) + 2) - 1)
  BY <1>3, <1>9, <1>12, OpenInPiece, Zenon
<1>15. ((u - 1) - (c + 1) + 1) + 1 = (u - 1) - (c + 1) + 2
  BY <1>3, <1>5
<1>16. ~Open(Opt(x, c), Len(Opt(x, c)) + 1)
  BY <1>10, <1>11, <1>12, <1>13, <1>14, <1>15, Zenon
<1>17. QED
  BY <1>2, <1>7, <1>8, <1>11, <1>13, <1>16, Zenon DEF u, C

\* The guard of an option, of what was parsed before.
OptionOKOf(y, o) ==
    /\ Len(y) >= 2 /\ y[1] \in Name /\ y[2] = "=" /\ IsQuoted(SubSeq(y, 3, Len(y)))
    /\ o[y[1]] = {}
    /\ y[1] # "namespaces" => IsTime(Says(y))

Unsaid(x, cs, name) == \A d \in cs : Opt(x, d)[1] # name

\* An option has no value yet when no option before the cut has its name.
LEMMA GivenAt ==
    ASSUME NEW x, NEW cs, NEW name \in Name
    PROVE  Given(x, cs)[name] = {} <=> Unsaid(x, cs, name)
<1>1. Given(x, cs)[name] = Saying(x, cs, name)
  BY Zenon DEF Given
<1>2. Saying(x, cs, name) = {} <=> \A d \in cs : Opt(x, d)[1] # name
  <2>1. ASSUME NEW d \in cs, Opt(x, d)[1] = name PROVE Saying(x, cs, name) # {}
    <3>1. Says(Opt(x, d)) \in Saying(x, cs, name)
      BY <2>1, Zenon DEF Saying
    <3>2. QED
      BY <3>1, Zenon
  <2>2. ASSUME \A d \in cs : Opt(x, d)[1] # name PROVE Saying(x, cs, name) = {}
    <3>1. \A val : val \notin Saying(x, cs, name)
      BY <2>2, Zenon DEF Saying
    <3>2. QED
      BY <3>1, Zenon
  <2>3. QED
    BY <2>1, <2>2, Zenon
<1>3. QED
  BY <1>1, <1>2, Zenon DEF Unsaid

\* The guard of parseOptions, in terms of the grammar.
LEMMA OptionOKIs ==
    ASSUME NEW x \in Seq(Symbol), Closed(x), NEW c, NEW o, Taken(x, c, o), c <= Len(x)
    PROVE  OptionOKOf(Opt(x, c), o)
             <=> IsOption(Opt(x, c)) /\ \A d \in Done(x, c) : Opt(x, d)[1] # Opt(x, c)[1]
<1> DEFINE y == Opt(x, c)
<1>1. c \in CommaCuts(x) \cup {Len(x) + 1} /\ o = Given(x, Done(x, c))
  BY Zenon DEF Taken
<1>2. y \in Seq(Symbol) /\ ~Open(y, Len(y) + 1)
  BY <1>1, OptionPart, Zenon
<1> HIDE DEF y
<1>3. Len(y) >= 4 => Len(y) >= 2
  BY <1>2
<1>4. CASE Len(y) >= 2 /\ y[1] \in Name /\ y[2] = "="
  <2>1. IsQuoted(SubSeq(y, 3, Len(y))) <=> Len(y) >= 4 /\ QuotedFrom(y, 3)
    BY <1>2, <1>4, QuotedValue, Zenon
  <2>2. o[y[1]] = {} <=> \A d \in Done(x, c) : Opt(x, d)[1] # y[1]
    <3>1. Given(x, Done(x, c))[y[1]] = {} <=> Unsaid(x, Done(x, c), y[1])
      BY <1>4, GivenAt, Zenon
    <3>2. QED
      BY <1>1, <3>1, Zenon DEF Unsaid
  <2>3. QED
    BY <1>4, <2>1, <2>2, Zenon DEF OptionOKOf, IsOption, y
<1>5. CASE ~(Len(y) >= 2 /\ y[1] \in Name /\ y[2] = "=")
  BY <1>3, <1>5, Zenon DEF OptionOKOf, IsOption, y
<1>6. QED
  BY <1>4, <1>5, Zenon

\* One more option that is well-formed, and of a name that none before has.
LEMMA OptionStep ==
    ASSUME NEW x \in Seq(Symbol), Closed(x), NEW c, NEW o, Taken(x, c, o), c <= Len(x),
           OptionOKOf(Opt(x, c), o)
    PROVE  Taken(x, CutEnd(x, Unquoted(x, Comma), c),
                 [o EXCEPT ![Opt(x, c)[1]] = {Says(Opt(x, c))}])
<1> DEFINE y == Opt(x, c)
           D == Done(x, c)
           u == CutEnd(x, Unquoted(x, Comma), c)
<1>1. c \in CommaCuts(x) \cup {Len(x) + 1} /\ Fine(x, D) /\ o = Given(x, D)
  BY Zenon DEF Taken
<1>2. u \in CommaCuts(x) \cup {Len(x) + 1} /\ Done(x, u) = D \cup {c}
  BY <1>1, OptionPart, Zenon
<1>3. IsOption(y) /\ \A d \in D : Opt(x, d)[1] # y[1]
  BY OptionOKIs, Zenon
<1>4. y[1] \in Name
  BY <1>3, Zenon DEF IsOption
<1> HIDE DEF y, D, u
<1>5. Fine(x, D \cup {c})
  BY <1>1, <1>3, Zenon DEF Fine, y
<1>6. ASSUME NEW name \in Name
      PROVE  Saying(x, D \cup {c}, name) = IF name = y[1] THEN {Says(y)} ELSE Saying(x, D, name)
  <2>1. CASE name = y[1]
    <3>1. \A val : val \in Saying(x, D \cup {c}, name) <=> val = Says(y)
      BY <1>3, <2>1, Zenon DEF Saying, y
    <3>2. \A val : val \in Saying(x, D \cup {c}, name) <=> val \in {Says(y)}
      BY <3>1, Zenon
    <3>3. Saying(x, D \cup {c}, name) = {Says(y)}
      BY <3>2
    <3>4. QED
      BY <2>1, <3>3, Zenon
  <2>2. CASE name # y[1]
    <3>1. \A val : val \in Saying(x, D \cup {c}, name) <=> val \in Saying(x, D, name)
      BY <2>2, Zenon DEF Saying, y
    <3>2. Saying(x, D \cup {c}, name) = Saying(x, D, name)
      BY <3>1
    <3>3. QED
      BY <2>2, <3>2, Zenon
  <2>3. QED
    BY <2>1, <2>2, Zenon
<1>7. Given(x, D \cup {c}) = [o EXCEPT ![y[1]] = {Says(y)}]
  <2>1. o = [name \in Name |-> Saying(x, D, name)]
    BY <1>1, Zenon DEF Given
  <2>2. Given(x, D \cup {c}) = [name \in Name |-> Saying(x, D \cup {c}, name)]
    BY Zenon DEF Given
  <2> DEFINE g(name) == Saying(x, D, name)
             h(name) == Saying(x, D \cup {c}, name)
  <2>3. \A name \in Name : h(name) = IF name = y[1] THEN {Says(y)} ELSE g(name)
    BY <1>6, Zenon
  <2>4. QED
    BY <1>4, <2>1, <2>2, <2>3
<1>8. QED
  BY <1>2, <1>5, <1>7, Zenon DEF Taken, y, D, u

\* After an option that is not taken, no way to cut the field is left.
LEMMA OptionBad ==
    ASSUME NEW x \in Seq(Symbol), Closed(x), NEW c, NEW o, Taken(x, c, o), c <= Len(x),
           ~OptionOKOf(Opt(x, c), o)
    PROVE  \A q : ~OptionsAre(x, q)
<1> DEFINE C == Unquoted(x, Comma)
<1>1. SUFFICES ASSUME C \in OptionReadings(x) PROVE FALSE
  BY Zenon DEF OptionsAre
<1>2. c \in CommaCuts(x) \cup {Len(x) + 1}
  BY Zenon DEF Taken
<1>3. c \in CommaCuts(x)
  BY <1>2, OptionPart, Zenon
<1>4. /\ \A d \in {0} \cup C : IsOption(Cut(x, C, d + 1))
      /\ \A d, e \in {0} \cup C : Cut(x, C, d + 1)[1] = Cut(x, C, e + 1)[1] => d = e
  BY <1>1, OptionReadingsIs, Zenon
<1>5. IsOption(Opt(x, c))
  BY <1>3, <1>4, Zenon DEF CommaCuts, Opt
<1>6. PICK d \in Done(x, c) : Opt(x, d)[1] = Opt(x, c)[1]
  BY <1>5, OptionOKIs, Zenon
<1>7. d \in CommaCuts(x) /\ d < c
  BY <1>6, Zenon DEF Done
<1>8. d = c
  BY <1>3, <1>4, <1>6, <1>7, Zenon DEF CommaCuts, Opt
<1>9. c \in 0..Len(x)
  BY <1>3, CutsOf, Zenon
<1>10. QED
  BY <1>7, <1>8, <1>9

\* With all options taken, they are those of the entry.
LEMMA OptionsEnd ==
    ASSUME NEW x \in Seq(Symbol), NEW c, NEW o, Taken(x, c, o), ~(c <= Len(x))
    PROVE  OptionsAre(x, o)
<1> DEFINE C == Unquoted(x, Comma)
           opts == Pieces(x, C)
<1>1. c \in CommaCuts(x) \cup {Len(x) + 1} /\ Fine(x, Done(x, c)) /\ o = Given(x, Done(x, c))
  BY Zenon DEF Taken
<1>2. CommaCuts(x) \in SUBSET (0..Len(x)) /\ CommaCuts(x) = {0} \cup C /\ Len(x) \in Nat
  <2>1. Len(x) \in Nat
    OBVIOUS
  <2>2. QED
    BY <2>1, CutsOf, Zenon DEF CommaCuts
<1>3. c = Len(x) + 1
  BY <1>1, <1>2
<1>4. Done(x, c) = CommaCuts(x)
  <2>1. \A d \in CommaCuts(x) : d < c
    BY <1>2, <1>3
  <2>2. QED
    BY <2>1, Zenon DEF Done
<1>5. Fine(x, {0} \cup C) /\ o = Given(x, {0} \cup C)
  BY <1>1, <1>2, <1>4, Zenon
<1>6. C \in SUBSET Are(x, Comma)
  BY Zenon DEF Unquoted
<1>7. C \in OptionReadings(x)
  BY <1>5, <1>6, OptionReadingsIs, Zenon DEF Fine, Opt
<1>8. DOMAIN opts = {0} \cup C /\ \A d \in {0} \cup C : opts[d] = Opt(x, d)
  BY Zenon DEF Pieces, Opt
<1> HIDE DEF opts
<1>9. ASSUME NEW name
      PROVE  {Says(opts[d]) : d \in {e \in DOMAIN opts : opts[e][1] = name}} = Saying(x, {0} \cup C, name)
  <2>1. \A val : val \in {Says(opts[d]) : d \in {e \in DOMAIN opts : opts[e][1] = name}}
                 <=> val \in Saying(x, {0} \cup C, name)
    BY <1>8, Zenon DEF Saying
  <2>2. QED
    BY <2>1, Zenon
<1>10. OptionsRead(opts) = Given(x, {0} \cup C)
  BY <1>9, Zenon DEF OptionsRead, Given
<1>11. QED
  BY <1>5, <1>7, <1>10, Zenon DEF OptionsAre, opts

-----------------------------------------------------------------------------
\* The invariant, and the steps that find the fields.

Dropped(s) == \A who, o, m : ~KeptIs(s, who, o, m)
OptionsKept(x, o) ==
    /\ TokenIsOption(x) => OptionsAre(x, o)
    /\ ~TokenIsOption(x) => o = None
    /\ Ordered(o)

LineInv ==
    /\ line \in Seq(Symbol)
    /\ phase = "line" => fields = <<>> /\ at = 1
    /\ phase \in {"line", "fields", "options"} => cut = 0 /\ options = None
    /\ phase \in {"fields", "options", "option", "key", "kept"} =>
         Printable /\ ~Passed /\ Found(text, fields, at)
    /\ phase \in {"options", "option", "key", "kept"} => Enough /\ PrincipalsAre(fields[1], principal)
    /\ phase \in {"options", "option"} => HasOptions
    /\ phase = "option" => Taken(fields[2], cut, options)
    /\ phase \in {"key", "kept"} => OptionsKept(fields[2], options)
    /\ phase = "kept" => KeyOK
    /\ phase = "skipped" => ~Printable \/ Dropped(text)
    /\ phase = "passed" => Passed

\* The text of a line is trimmed.
LEMMA Text ==
    ASSUME LineInv
    PROVE  /\ text \in Seq(Symbol)
           /\ text # <<>> => text[1] # "sp" /\ text[Len(text)] # "sp"
BY TrimFacts, Zenon DEF LineInv, text

\* A field has its quotes closed, so that its options can be split.
LEMMA SecondField ==
    ASSUME NEW s \in Seq(Symbol), NEW f, NEW a, Found(s, f, a), EnoughOf(f), s[1] # "#"
    PROVE  f[2] \in Seq(Symbol) /\ Closed(f[2])
<1>1. Begins(s, Place(s, 2)) /\ Whole(s, Place(s, 2)) /\ f[2] = FieldAt(s, Place(s, 2))
  BY KeptFound, Zenon
<1>2. QED
  BY <1>1, FieldText, Zenon

LEMMA KeptOptions ==
    ASSUME NEW s \in Seq(Symbol), NEW f, NEW a, Found(s, f, a), EnoughOf(f), s[1] # "#", NEW who, NEW o, NEW m,
           KeptIs(s, who, o, m)
    PROVE  OptionsKept(f[2], o) /\ PrincipalsAre(f[1], who)
BY KeptFound, Zenon DEF OptionsKept

LEMMA UnchangedLine ==
    ASSUME UNCHANGED line
    PROVE  text' = text /\ (Printable' <=> Printable) /\ (Passed' <=> Passed)
BY DEF text, Printable, Passed

\* Whatever skips a line, it has to be one that is not kept.
LEMMA Skipped ==
    ASSUME LineInv, Skip, ~Printable \/ Dropped(text)
    PROVE  LineInv'
<1>1. line \in Seq(Symbol)
  BY Zenon DEF LineInv
<1>2. phase' = "skipped" /\ line' = line
  BY Zenon DEF Skip, To
<1>3. ~Printable' \/ Dropped(text')
  BY <1>2, UnchangedLine, Zenon
<1>4. QED
  BY <1>1, <1>2, <1>3 DEF LineInv

LEMMA InvalidCharactersStep ==
    ASSUME LineInv, InvalidCharacters
    PROVE  LineInv'
BY Skipped, Zenon DEF InvalidCharacters

LEMMA PassStep ==
    ASSUME LineInv, Pass
    PROVE  LineInv'
<1>1. line \in Seq(Symbol)
  BY Zenon DEF LineInv
<1>2. phase' = "passed" /\ line' = line /\ Passed
  BY Zenon DEF Pass, To
<1>3. Passed'
  BY <1>2, UnchangedLine, Zenon
<1>4. QED
  BY <1>1, <1>2, <1>3 DEF LineInv

LEMMA BeginStep ==
    ASSUME LineInv, Begin
    PROVE  LineInv'
<1>1. phase = "line" /\ Printable /\ ~Passed /\ phase' = "fields" /\ line' = line
      /\ UNCHANGED <<fields, at, cut, principal, options>>
  BY Zenon DEF Begin, To
<1>2. line \in Seq(Symbol) /\ fields = <<>> /\ at = 1 /\ cut = 0 /\ options = None
  BY <1>1 DEF LineInv
<1>3. text \in Seq(Symbol) /\ text # <<>> /\ text[1] # "sp"
  BY <1>1, Text, Zenon DEF Passed
<1>4. Begins(text, 1)
  BY <1>3, AtBegin, Zenon
<1>5. Found(text, <<>>, 1)
  <2>1. /\ <<>> \in Seq(Seq(Symbol)) /\ Len(<<>>) \in 0..4 /\ 1..Len(<<>>) = {} /\ Len(<<>>) + 1 = 1
        /\ ~(Len(<<>>) = 4) /\ 1 \in 1..4
    OBVIOUS
  <2>2. Place(text, 1) = 1
    BY <2>1, PlaceNext, Zenon
  <2>3. QED
    BY <1>4, <2>1, <2>2, Zenon DEF Found
<1>6. text' = text /\ Printable' /\ ~Passed'
  BY <1>1, UnchangedLine, Zenon
<1>7. Found(text', fields', at')
  BY <1>1, <1>2, <1>5, <1>6
<1>8. line' \in Seq(Symbol) /\ cut' = 0 /\ options' = None
  BY <1>1, <1>2
<1>9. QED
  BY <1>1, <1>6, <1>7, <1>8 DEF LineInv

\* A field is found, or one is missing.
LEMMA FieldActionStep ==
    ASSUME LineInv, Field
    PROVE  LineInv'
<1>1. phase = "fields" /\ ~EnoughOf(fields)
  BY Zenon DEF Field, Enough, HasOptions, EnoughOf
<1>2. line \in Seq(Symbol) /\ cut = 0 /\ options = None /\ Printable /\ ~Passed /\ Found(text, fields, at)
  BY <1>1 DEF LineInv
<1>3. text \in Seq(Symbol)
  BY Text, Zenon
<1>4. Complete <=> Whole(text, at)
  BY Zenon DEF Complete, Whole, end, Ends
<1>5. CASE Complete
  <2>1. /\ fields' = Append(fields, FieldAt(text, at)) /\ at' = After(text, at)
        /\ phase' = "fields" /\ line' = line /\ UNCHANGED <<cut, principal, options>>
    BY <1>5, Zenon DEF Field, To, FieldAt, After, end, Ends
  <2>2. Found(text, Append(fields, FieldAt(text, at)), After(text, at))
    BY <1>1, <1>2, <1>3, <1>4, <1>5, FieldStep, Zenon
  <2>3. text' = text /\ Printable' /\ ~Passed'
    BY <1>2, <2>1, UnchangedLine, Zenon
  <2>4. Found(text', fields', at')
    BY <2>1, <2>2, <2>3
  <2>5. line' \in Seq(Symbol) /\ cut' = 0 /\ options' = None
    BY <1>2, <2>1
  <2>6. QED
    BY <2>1, <2>3, <2>4, <2>5 DEF LineInv
<1>6. CASE ~Complete
  <2>1. Skip
    BY <1>6, Zenon DEF Field
  <2>2. Dropped(text)
    BY <1>1, <1>2, <1>3, <1>4, <1>6, FieldMissing, Zenon DEF Dropped
  <2>3. QED
    BY <2>1, <2>2, Skipped, Zenon
<1>7. QED
  BY <1>5, <1>6

\* What holds once the fields are found.
LEMMA Split ==
    ASSUME LineInv, Enough, phase \in {"fields", "options", "option", "key", "kept"}
    PROVE  /\ line \in Seq(Symbol) /\ Printable /\ ~Passed /\ text[1] # "#" /\ text # <<>>
           /\ text \in Seq(Symbol) /\ Found(text, fields, at) /\ EnoughOf(fields)
           /\ fields[2] \in Seq(Symbol) /\ Closed(fields[2])
<1>1. line \in Seq(Symbol) /\ Printable /\ ~Passed /\ Found(text, fields, at)
  BY Zenon DEF LineInv
<1>2. text \in Seq(Symbol) /\ text[1] # "#" /\ text # <<>>
  BY <1>1, Text, Zenon DEF Passed
<1>3. EnoughOf(fields)
  BY Zenon DEF Enough, HasOptions, EnoughOf
<1>4. QED
  BY <1>1, <1>2, <1>3, SecondField, Zenon

-----------------------------------------------------------------------------
\* The steps that decide.

\* The principals are unquoted, or the line is skipped for them.
LEMMA PrincipalsStep ==
    ASSUME LineInv, Principals
    PROVE  LineInv'
<1>1. phase = "fields" /\ Enough
  BY Zenon DEF Principals
<1>2. cut = 0 /\ options = None
  BY <1>1 DEF LineInv
<1>3. /\ line \in Seq(Symbol) /\ Printable /\ ~Passed /\ text[1] # "#"
      /\ text \in Seq(Symbol) /\ Found(text, fields, at) /\ EnoughOf(fields)
  <2>1. phase \in {"fields", "options", "option", "key", "kept"}
    BY <1>1
  <2>2. QED
    BY <1>1, <2>1, Split, Zenon
<1>4. CASE PrincipalsOK
  <2>1. /\ principal' = PrincipalsText(fields[1]) /\ phase' = (IF HasOptions THEN "options" ELSE "key")
        /\ line' = line /\ UNCHANGED <<fields, at, cut, options>>
    BY <1>4, Zenon DEF Principals, To
  <2>2. PrincipalsAre(fields[1], PrincipalsText(fields[1]))
    BY <1>4, Zenon DEF PrincipalsOK, PrincipalsAre
  <2>3. text' = text /\ Printable' /\ ~Passed'
    BY <1>3, <2>1, UnchangedLine, Zenon
  <2>4. Found(text', fields', at') /\ PrincipalsAre(fields'[1], principal')
    BY <1>3, <2>1, <2>2, <2>3
  <2>5. Enough' /\ (HasOptions' <=> HasOptions)
    BY <1>1, <2>1 DEF Enough, HasOptions
  <2>6. line' \in Seq(Symbol) /\ cut' = 0 /\ options' = None
    BY <1>2, <1>3, <2>1
  <2>7. CASE HasOptions
    <3>1. phase' = "options" /\ HasOptions'
      BY <2>1, <2>5, <2>7
    <3>2. QED
      BY <2>3, <2>4, <2>5, <2>6, <3>1 DEF LineInv
  <2>8. CASE ~HasOptions
    <3>1. phase' = "key"
      BY <2>1, <2>8
    <3>2. OptionsKept(fields'[2], options')
      <4>1. ~TokenIsOption(fields'[2])
        BY <2>1, <2>8 DEF HasOptions
      <4>2. Ordered(None)
        BY SMT DEF Ordered, None, Name
      <4>3. QED
        BY <2>6, <4>1, <4>2, Zenon DEF OptionsKept
    <3>3. QED
      BY <2>3, <2>4, <2>5, <2>6, <3>1, <3>2 DEF LineInv
  <2>9. QED
    BY <2>7, <2>8
<1>5. CASE ~PrincipalsOK
  <2>1. Skip
    BY <1>5, Zenon DEF Principals
  <2>2. ASSUME NEW who, NEW o, NEW m, KeptIs(text, who, o, m) PROVE FALSE
    <3>1. PrincipalsAre(fields[1], who)
      BY <1>3, <2>2, KeptOptions, Zenon
    <3>2. QED
      BY <1>5, <3>1, Zenon DEF PrincipalsOK, PrincipalsAre
  <2>3. Dropped(text)
    BY <2>2, Zenon DEF Dropped
  <2>4. QED
    BY <2>1, <2>3, Skipped, Zenon
<1>6. QED
  BY <1>4, <1>5

\* The options are split: no quote is left open in a field.
LEMMA SplitOptionsStep ==
    ASSUME LineInv, SplitOptions
    PROVE  LineInv'
<1>1. phase = "options"
  BY Zenon DEF SplitOptions
<1>2. cut = 0 /\ options = None /\ Enough /\ PrincipalsAre(fields[1], principal) /\ HasOptions
  BY <1>1 DEF LineInv
<1>3. /\ line \in Seq(Symbol) /\ Printable /\ ~Passed
      /\ Found(text, fields, at) /\ fields[2] \in Seq(Symbol) /\ Closed(fields[2])
  <2>1. phase \in {"fields", "options", "option", "key", "kept"}
    BY <1>1
  <2>2. QED
    BY <1>2, <2>1, Split, Zenon
<1>4. ~Unterminated(fields[2])
  BY <1>3, Zenon DEF Closed, Open, Unterminated
<1>5. phase' = "option" /\ line' = line /\ UNCHANGED <<fields, at, cut, principal, options>>
  BY <1>4, Zenon DEF SplitOptions, To
<1>6. text' = text /\ Printable' /\ ~Passed'
  BY <1>3, <1>5, UnchangedLine, Zenon
<1>7. Taken(fields[2], 0, None)
  BY <1>3, TakenNone, Zenon
<1>8. Taken(fields'[2], cut', options') /\ Found(text', fields', at') /\ PrincipalsAre(fields'[1], principal')
      /\ line' \in Seq(Symbol)
  BY <1>2, <1>3, <1>5, <1>6, <1>7
<1>9. Enough' /\ HasOptions'
  BY <1>2, <1>5 DEF Enough, HasOptions
<1>10. QED
  BY <1>5, <1>6, <1>8, <1>9 DEF LineInv

\* An option is taken, or the line is skipped for it.
LEMMA OptionActionStep ==
    ASSUME LineInv, Option
    PROVE  LineInv'
<1>1. phase = "option" /\ cut <= Len(fields[2])
  BY Zenon DEF Option
<1>2. Enough /\ PrincipalsAre(fields[1], principal) /\ HasOptions /\ Taken(fields[2], cut, options)
  BY <1>1 DEF LineInv
<1>3. /\ line \in Seq(Symbol) /\ Printable /\ ~Passed /\ text[1] # "#" /\ text \in Seq(Symbol)
      /\ Found(text, fields, at) /\ EnoughOf(fields) /\ fields[2] \in Seq(Symbol) /\ Closed(fields[2])
  <2>1. phase \in {"fields", "options", "option", "key", "kept"}
    BY <1>1
  <2>2. QED
    BY <1>2, <2>1, Split, Zenon
<1>4. part = Opt(fields[2], cut)
  BY Zenon DEF part, commas, Opt
<1>5. OptionOK <=> OptionOKOf(Opt(fields[2], cut), options)
  BY <1>4, Zenon DEF OptionOK, OptionOKOf
<1>6. CASE OptionOK
  <2>1. /\ options' = [options EXCEPT ![Opt(fields[2], cut)[1]] = {Says(Opt(fields[2], cut))}]
        /\ cut' = CutEnd(fields[2], Unquoted(fields[2], Comma), cut)
        /\ phase' = "option" /\ line' = line /\ UNCHANGED <<fields, at, principal>>
    BY <1>4, <1>6, Zenon DEF Option, To, commas, CutEnd
  <2>2. Taken(fields[2], CutEnd(fields[2], Unquoted(fields[2], Comma), cut),
              [options EXCEPT ![Opt(fields[2], cut)[1]] = {Says(Opt(fields[2], cut))}])
    BY <1>1, <1>2, <1>3, <1>5, <1>6, OptionStep, Zenon
  <2>3. text' = text /\ Printable' /\ ~Passed'
    BY <1>3, <2>1, UnchangedLine, Zenon
  <2>4. Taken(fields'[2], cut', options') /\ Found(text', fields', at') /\ PrincipalsAre(fields'[1], principal')
        /\ line' \in Seq(Symbol)
    BY <1>2, <1>3, <2>1, <2>2, <2>3
  <2>5. Enough' /\ HasOptions'
    BY <1>2, <2>1 DEF Enough, HasOptions
  <2>6. QED
    BY <2>1, <2>3, <2>4, <2>5 DEF LineInv
<1>7. CASE ~OptionOK
  <2>1. Skip
    BY <1>7, Zenon DEF Option
  <2>2. \A o : ~OptionsAre(fields[2], o)
    BY <1>1, <1>2, <1>3, <1>5, <1>7, OptionBad, Zenon
  <2>3. ASSUME NEW who, NEW o, NEW m, KeptIs(text, who, o, m) PROVE FALSE
    <3>1. OptionsKept(fields[2], o)
      BY <1>3, <2>3, KeptOptions, Zenon
    <3>2. QED
      BY <1>2, <2>2, <3>1, Zenon DEF OptionsKept, HasOptions
  <2>4. Dropped(text)
    BY <2>3, Zenon DEF Dropped
  <2>5. QED
    BY <2>1, <2>4, Skipped, Zenon
<1>8. QED
  BY <1>6, <1>7

\* All options are taken; the two times are in order, or the line is skipped.
LEMMA WindowStep ==
    ASSUME LineInv, Window
    PROVE  LineInv'
<1>1. phase = "option" /\ ~(cut <= Len(fields[2]))
  <2>1. phase = "option" /\ cut > Len(fields[2])
    BY Zenon DEF Window
  <2>2. Taken(fields[2], cut, options) /\ Enough
    BY <2>1 DEF LineInv
  <2>3. phase \in {"fields", "options", "option", "key", "kept"}
    BY <2>1
  <2>4. fields[2] \in Seq(Symbol)
    BY <2>2, <2>3, Split, Zenon
  <2>5. /\ cut \in CommaCuts(fields[2]) \cup {Len(fields[2]) + 1}
        /\ CommaCuts(fields[2]) \in SUBSET (0..Len(fields[2]))
    BY <2>2, <2>4, CutsOf, Zenon DEF Taken
  <2>6. Len(fields[2]) \in Nat
    BY <2>4
  <2>7. cut \in Int
    BY <2>5, <2>6
  <2>8. QED
    BY <2>1, <2>6, <2>7
<1>2. Enough /\ PrincipalsAre(fields[1], principal) /\ HasOptions /\ Taken(fields[2], cut, options)
  BY <1>1 DEF LineInv
<1>3. /\ line \in Seq(Symbol) /\ Printable /\ ~Passed /\ text[1] # "#" /\ text \in Seq(Symbol)
      /\ Found(text, fields, at) /\ EnoughOf(fields) /\ fields[2] \in Seq(Symbol) /\ Closed(fields[2])
  <2>1. phase \in {"fields", "options", "option", "key", "kept"}
    BY <1>1
  <2>2. QED
    BY <1>2, <2>1, Split, Zenon
<1>4. OptionsAre(fields[2], options)
  BY <1>1, <1>2, <1>3, OptionsEnd, Zenon
<1>5. CASE Ordered(options)
  <2>1. phase' = "key" /\ line' = line /\ UNCHANGED <<fields, at, cut, principal, options>>
    BY <1>5, Zenon DEF Window, To
  <2>2. OptionsKept(fields[2], options)
    BY <1>2, <1>4, <1>5, Zenon DEF OptionsKept, HasOptions
  <2>3. text' = text /\ Printable' /\ ~Passed'
    BY <1>3, <2>1, UnchangedLine, Zenon
  <2>4. OptionsKept(fields'[2], options') /\ Found(text', fields', at') /\ PrincipalsAre(fields'[1], principal')
        /\ line' \in Seq(Symbol)
    BY <1>2, <1>3, <2>1, <2>2, <2>3
  <2>5. Enough'
    BY <1>2, <2>1 DEF Enough, HasOptions
  <2>6. QED
    BY <2>1, <2>3, <2>4, <2>5 DEF LineInv
<1>6. CASE ~Ordered(options)
  <2>1. Skip
    BY <1>6, Zenon DEF Window
  <2>2. ASSUME NEW who, NEW o, NEW m, KeptIs(text, who, o, m) PROVE FALSE
    <3>1. OptionsKept(fields[2], o)
      BY <1>3, <2>2, KeptOptions, Zenon
    <3>2. OptionsAre(fields[2], o) /\ Ordered(o)
      BY <1>2, <3>1, Zenon DEF OptionsKept, HasOptions
    <3>3. o = options
      BY <1>4, <3>2, Zenon DEF OptionsAre
    <3>4. QED
      BY <1>6, <3>2, <3>3, Zenon
  <2>3. Dropped(text)
    BY <2>2, Zenon DEF Dropped
  <2>4. QED
    BY <2>1, <2>3, Skipped, Zenon
<1>7. QED
  BY <1>5, <1>6

LEMMA KeyOKIs ==
    ASSUME Enough
    PROVE  KeyOK <=> /\ HasOptions => fields[3] = <<"type">> /\ fields[4] = <<"key">>
                     /\ ~HasOptions => fields[2] = <<"type">> /\ fields[3] = <<"key">>
<1>1. 3 + 1 = 4 /\ 2 + 1 = 3
  OBVIOUS
<1>2. CASE HasOptions
  BY <1>1, <1>2, Zenon DEF KeyOK
<1>3. CASE ~HasOptions
  BY <1>1, <1>3, Zenon DEF KeyOK
<1>4. QED
  BY <1>2, <1>3

\* The key is of its type and the line is kept, or it is skipped.
LEMMA KeyStep ==
    ASSUME LineInv, Key
    PROVE  LineInv'
<1>1. phase = "key"
  BY Zenon DEF Key
<1>2. Enough /\ PrincipalsAre(fields[1], principal) /\ OptionsKept(fields[2], options)
  BY <1>1 DEF LineInv
<1>3. /\ line \in Seq(Symbol) /\ Printable /\ ~Passed /\ text[1] # "#" /\ text \in Seq(Symbol)
      /\ Found(text, fields, at) /\ EnoughOf(fields)
  <2>1. phase \in {"fields", "options", "option", "key", "kept"}
    BY <1>1
  <2>2. QED
    BY <1>2, <2>1, Split, Zenon
<1>4. CASE KeyOK
  <2>1. phase' = "kept" /\ line' = line /\ UNCHANGED <<fields, at, cut, principal, options>>
    BY <1>4, Zenon DEF Key, To
  <2>2. text' = text /\ Printable' /\ ~Passed'
    BY <1>3, <2>1, UnchangedLine, Zenon
  <2>3. OptionsKept(fields'[2], options') /\ Found(text', fields', at') /\ PrincipalsAre(fields'[1], principal')
        /\ line' \in Seq(Symbol)
    BY <1>2, <1>3, <2>1, <2>2
  <2>4. Enough' /\ KeyOK'
    BY <1>2, <1>4, <2>1 DEF Enough, KeyOK, HasOptions
  <2>5. QED
    BY <2>1, <2>2, <2>3, <2>4 DEF LineInv
<1>5. CASE ~KeyOK
  <2>1. Skip
    BY <1>5, Zenon DEF Key
  <2>2. ASSUME NEW who, NEW o, NEW m, KeptIs(text, who, o, m) PROVE FALSE
    BY <1>2, <1>3, <1>5, <2>2, KeyOKIs, KeptFound, Zenon DEF HasOptions
  <2>3. Dropped(text)
    BY <2>2, Zenon DEF Dropped
  <2>4. QED
    BY <2>1, <2>3, Skipped, Zenon
<1>6. QED
  BY <1>4, <1>5

LEMMA LineInvInit ==
    ASSUME LineInit
    PROVE  LineInv
BY LineAssumption DEF LineInit, LineInv

LEMMA LineStutter ==
    ASSUME LineInv, UNCHANGED lineVars
    PROVE  LineInv'
<1>1. UNCHANGED <<line, fields, at, cut, principal, options, phase>>
  BY DEF lineVars
<1>2. text' = text /\ (Printable' <=> Printable) /\ (Passed' <=> Passed)
  BY <1>1, UnchangedLine, Zenon
<1>3. (Enough' <=> Enough) /\ (HasOptions' <=> HasOptions) /\ (KeyOK' <=> KeyOK)
  BY <1>1 DEF Enough, HasOptions, KeyOK
<1>4. QED
  BY <1>1, <1>2, <1>3 DEF LineInv

LEMMA LineInvStep ==
    ASSUME LineInv, [LineNext]_lineVars
    PROVE  LineInv'
BY InvalidCharactersStep, PassStep, BeginStep, FieldActionStep, PrincipalsStep, SplitOptionsStep,
   OptionActionStep, WindowStep, KeyStep, LineStutter, Zenon DEF LineNext

\* A line that is kept is read in one way, and a line that is not in none that ends its
\* principals with a quote that no backslash is before.
LEMMA LineReadings ==
    ASSUME LineInv
    PROVE  AsGrammar
<1>0. text \in Seq(Symbol) /\ (text = <<>> \/ (text[1] # "sp" /\ text[Len(text)] # "sp"))
  BY Text, Zenon
<1>1. ASSUME phase = "kept"
      PROVE  Printable /\ Readings(text) = {[principal |-> principal, options |-> options, comment |-> comment]}
  <2>1. phase \in {"fields", "options", "option", "key", "kept"}
    BY <1>1
  <2>2. Enough /\ PrincipalsAre(fields[1], principal) /\ OptionsKept(fields[2], options) /\ KeyOK
    BY <1>1 DEF LineInv
  <2>3. /\ Printable /\ text # <<>> /\ text[1] # "#" /\ text \in Seq(Symbol)
        /\ Found(text, fields, at) /\ EnoughOf(fields)
    BY <2>1, <2>2, Split, Zenon
  <2>4. KeptIs(text, principal, options, comment)
    BY <2>2, <2>3, KeyOKIs, KeptFound, Zenon DEF OptionsKept, HasOptions, comment
  <2>5. Readings(text) = {Entry(principal, options, comment)}
    BY <1>0, <2>3, <2>4, KeptReads, Zenon
  <2>6. QED
    BY <2>3, <2>5, Zenon DEF Entry
<1>2. ASSUME phase \in {"skipped", "passed"}, Printable
      PROVE  EntriesTo(text, Unmarked(text)) = {}
  <2>1. Dropped(text) \/ Passed
    BY <1>2 DEF LineInv
  <2>2. CASE Dropped(text)
    BY <1>0, <2>2, NoneKept, Zenon DEF Dropped
  <2>3. CASE text = <<>>
    <3>1. DOMAIN text = {}
      BY <2>3
    <3>2. \A r : r \notin EntriesTo(text, Unmarked(text))
      BY <3>1, ReadingsAre, Zenon DEF Parts, Unmarked
    <3>3. QED
      BY <3>2, Zenon
  <2>4. CASE text[1] = "#"
    <3>1. \A r : r \notin EntriesTo(text, Unmarked(text))
      BY <2>4, ReadingsAre, Zenon DEF Parts, PartsAt
    <3>2. QED
      BY <3>1, Zenon
  <2>5. QED
    BY <2>1, <2>2, <2>3, <2>4, Zenon DEF Passed
<1>3. QED
  BY <1>1, <1>2, Zenon DEF AsGrammar, Unmarked

\* parse.go: an opaque key comment cannot affect parsing, and splicing options would
\* authorise from a line that ssh-keygen rejects: whatever the lines of the file are,
\* a line is kept only when the grammar has a reading of it, there is no other, and that
\* is its entry; and a line that is skipped has none, but for readings with a backslash
\* before the quote that ends the principals.
THEOREM LineAsGrammar == LineSpec => []AsGrammar
<1>1. LineInit => LineInv
  BY LineInvInit
<1>2. LineInv /\ [LineNext]_lineVars => LineInv'
  BY LineInvStep
<1>3. LineInv => AsGrammar
  BY LineReadings
<1>4. QED
  BY <1>1, <1>2, <1>3, PTL DEF LineSpec
=============================================================================
