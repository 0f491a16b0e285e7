-------------------------- MODULE TuneButtonProofs --------------------------
(***************************************************************************)
(* Theorems about Scanner, about Tuner and about the two together, for all *)
(* keys, buttons, voltages and octaves, every debounce timeout and every   *)
(* bounce it outlasts.                                                     *)
(***************************************************************************)
EXTENDS TuneButton, TLAPS

-----------------------------------------------------------------------------
(* The scanner *)

\* A contact that has bounced out rests, and the timeout outlasts what is left
\* of the bounce once its event is made.
Settled(c) ==
  /\ bounce[c] = 0 => contact[c] = position[c]
  /\ bounce[c] > 0 /\ reported[c] = position[c] => timeout[c] >= bounce[c]

IInv == TypeOK /\ \A c \in Contacts : Settled(c)

LEMMA InitIInv == Init => IInv
<1> SUFFICES ASSUME Init PROVE IInv
  OBVIOUS
<1>1. TypeOK
  BY TimeoutAssumption, BounceAssumption DEF Init, TypeOK
<1>2. \A c \in Contacts : Settled(c)
  BY DEF Init, Settled
<1> QED
  BY <1>1, <1>2 DEF IInv

LEMMA MoveIInv ==
  ASSUME IInv, NEW c \in Contacts, Move(c)
  PROVE  IInv'
<1>1. TypeOK'
  <2>1. /\ position' \in [Contacts -> BOOLEAN]
        /\ bounce' \in [Contacts -> 0 .. MaxBounce]
        /\ reported' = reported /\ timeout' = timeout
    BY BounceAssumption DEF IInv, TypeOK, Move
  <2>2. contact' \in [Contacts -> BOOLEAN]
    BY <2>1 DEF IInv, TypeOK, Move
  <2> QED
    BY <2>1, <2>2 DEF IInv, TypeOK
<1>2. ASSUME NEW d \in Contacts PROVE Settled(d)'
  <2>1. CASE d = c
    <3>1. reported'[d] # position'[d]
      BY <2>1 DEF IInv, TypeOK, Move
    <3>2. bounce'[d] = 0 => contact'[d] = position'[d]
      BY <2>1, BounceAssumption DEF IInv, TypeOK, Move
    <3> QED
      BY <3>1, <3>2 DEF Settled
  <2>2. CASE d # c
    <3>1. /\ bounce'[d] = bounce[d] /\ position'[d] = position[d]
          /\ reported'[d] = reported[d] /\ timeout'[d] = timeout[d]
      BY <2>2 DEF IInv, TypeOK, Move
    <3>2. MaxBounce = 0 => bounce[d] = 0
      BY BounceAssumption DEF IInv, TypeOK
    <3>3. bounce'[d] = 0 => contact'[d] = position'[d]
      BY <3>1, <3>2 DEF IInv, Settled, Move
    <3>4. Settled(d)
      BY DEF IInv
    <3> QED
      BY <3>1, <3>3, <3>4 DEF Settled
  <2> QED
    BY <2>1, <2>2
<1> QED
  BY <1>1, <1>2 DEF IInv

LEMMA BouncesIInv ==
  ASSUME IInv, NEW c \in Contacts, Bounces(c)
  PROVE  IInv'
<1>1. TypeOK'
  BY DEF IInv, TypeOK, Bounces, handVars
<1>2. ASSUME NEW d \in Contacts PROVE Settled(d)'
  <2>1. bounce[d] = 0 => contact'[d] = contact[d]
    BY DEF IInv, TypeOK, Bounces
  <2>2. Settled(d)
    BY DEF IInv
  <2> QED
    BY <2>1, <2>2 DEF Settled, Bounces, handVars
<1> QED
  BY <1>1, <1>2 DEF IInv

LEMMA SettleIInv ==
  ASSUME IInv, NEW c \in Contacts, Settle(c)
  PROVE  IInv'
<1>1. TypeOK'
  BY BounceAssumption DEF IInv, TypeOK, Settle
<1>2. ASSUME NEW d \in Contacts PROVE Settled(d)'
  <2>1. CASE d = c
    <3>1. bounce'[d] = 0 /\ contact'[d] = position'[d]
      BY <2>1 DEF IInv, TypeOK, Settle
    <3> QED
      BY <3>1 DEF Settled
  <2>2. CASE d # c
    <3>1. Settled(d) /\ bounce'[d] = bounce[d] /\ contact'[d] = contact[d]
      BY <2>2 DEF IInv, TypeOK, Settle
    <3> QED
      BY <3>1 DEF Settled, Settle
  <2> QED
    BY <2>1, <2>2
<1> QED
  BY <1>1, <1>2 DEF IInv

\* An event is made of a contact in the position of its key.
LEMMA ChangedToPosition ==
  ASSUME IInv, NEW S \in SUBSET Contacts, NEW c \in Changed(S)
  PROVE  contact[c] = position[c]
<1>1. c \in Contacts /\ Settled(c) /\ timeout[c] = 0 /\ contact[c] # reported[c]
  BY DEF IInv, Changed
<1>2. bounce[c] \in Nat /\ {contact[c], reported[c], position[c]} \subseteq BOOLEAN
  BY <1>1, BounceAssumption DEF IInv, TypeOK
<1>3. reported[c] # position[c]
  BY <1>1, <1>2 DEF Settled
<1> QED
  BY <1>1, <1>2, <1>3

LEMMA ScanIInv ==
  ASSUME IInv, NEW S \in SUBSET Contacts, Scan(S)
  PROVE  IInv'
<1>1. \A c \in Contacts : timeout[c] \in 0 .. DebounceTimeout /\ bounce[c] \in 0 .. MaxBounce
  BY DEF IInv, TypeOK
<1>2. timeout' = Timeouts(S) /\ timeout' \in [Contacts -> 0 .. DebounceTimeout]
  BY <1>1, TimeoutAssumption DEF Scan, Timeouts
<1>3. bounce' \in [Contacts -> 0 .. MaxBounce]
  BY <1>1, BounceAssumption DEF Scan
<1>4. TypeOK'
  BY <1>2, <1>3 DEF IInv, TypeOK, Scan
<1>5. ASSUME NEW c \in Contacts PROVE Settled(c)'
  <2>1. bounce'[c] = 0 => contact'[c] = position'[c]
    BY DEF Scan
  <2>2. ASSUME bounce'[c] > 0, reported'[c] = position'[c] PROVE timeout'[c] >= bounce'[c]
    <3>1. bounce[c] > 0 /\ bounce'[c] = IF c \in S THEN bounce[c] - 1 ELSE bounce[c]
      BY <1>1, <2>2, BounceAssumption DEF Scan
    <3>2. CASE c \in Changed(S)
      <4>1. c \in S /\ timeout'[c] = DebounceTimeout
        BY <1>2, <3>2 DEF Timeouts, Changed
      <4> QED
        BY <1>1, <3>1, <4>1, TimeoutAssumption, BounceAssumption
    <3>3. CASE c \notin Changed(S)
      <4>1. reported[c] = position[c]
        BY <2>2, <3>3 DEF Scan
      <4>2. timeout[c] >= bounce[c]
        BY <3>1, <4>1 DEF IInv, Settled
      <4>3. timeout'[c] = IF c \in S /\ timeout[c] > 0 THEN timeout[c] - 1 ELSE timeout[c]
        BY <1>2, <3>3 DEF Timeouts
      <4> QED
        BY <1>1, <3>1, <4>2, <4>3, TimeoutAssumption, BounceAssumption
    <3> QED
      BY <3>2, <3>3
  <2> QED
    BY <2>1, <2>2 DEF Settled
<1> QED
  BY <1>4, <1>5 DEF IInv

LEMMA NextIInv == IInv /\ [Next]_vars => IInv'
<1> SUFFICES ASSUME IInv, [Next]_vars PROVE IInv'
  OBVIOUS
<1>1. CASE \E c \in Contacts : Move(c)
  BY <1>1, MoveIInv
<1>2. CASE \E c \in Contacts : Bounces(c)
  BY <1>2, BouncesIInv
<1>3. CASE \E c \in Contacts : Settle(c)
  BY <1>3, SettleIInv
<1>4. CASE ScanKeys
  BY <1>4, ScanIInv DEF ScanKeys, Contacts
<1>5. CASE ScanAll
  BY <1>5, ScanIInv DEF ScanAll
<1>6. CASE UNCHANGED vars
  BY <1>6 DEF vars, handVars, IInv, TypeOK, Settled
<1> QED
  BY <1>1, <1>2, <1>3, <1>4, <1>5, <1>6 DEF Next

LEMMA AlwaysIInv == Spec => []IInv
BY InitIInv, NextIInv, PTL DEF Spec

\* The scanner's state keeps its types: the timeout of scanner_update is never
\* counted below zero, where it would run into the reported bit.
THEOREM ScannerTypeOK == Spec => []TypeOK
<1>1. IInv => TypeOK
  BY DEF IInv
<1> QED
  BY <1>1, AlwaysIInv, PTL

\* scanner_update makes one event of each move of a key or switch, whatever its
\* contact does for as long as it bounces.
THEOREM ScannerOneEventPerMove == Spec => OneEventPerMove
<1>1. ASSUME IInv, [Next]_vars, NEW c \in Contacts, reported'[c] # reported[c]
      PROVE  reported'[c] = position[c]
  <2>1. PICK S \in SUBSET Contacts : Scan(S)
    <3>1. ~ \E d \in Contacts : Move(d) \/ Bounces(d) \/ Settle(d)
      BY <1>1 DEF Move, Bounces, Settle
    <3>2. ~ UNCHANGED vars
      BY <1>1 DEF vars
    <3> QED
      BY <1>1, <3>1, <3>2 DEF Next, ScanKeys, ScanAll, Contacts
  <2>2. c \in Changed(S) /\ reported'[c] = contact[c]
    BY <1>1, <2>1 DEF Scan
  <2> QED
    BY <1>1, <2>2, ChangedToPosition
<1>2. IInv /\ [Next]_vars =>
        [\A c \in Contacts : reported'[c] # reported[c] => reported'[c] = position[c]]_vars
  BY <1>1
<1> QED
  BY <1>2, AlwaysIInv, PTL DEF Spec, OneEventPerMove

-----------------------------------------------------------------------------
(* The scanner that tunings interrupt is still the scanner of Scanner: what  *)
(* is proved of that one holds of it.                                        *)

\* Each step of the two together is one of the scanner's or leaves it alone.
LEMMA ScannersStep == [AllNext]_allVars => [Next]_vars
<1> SUFFICES ASSUME [AllNext]_allVars PROVE [Next]_vars
  OBVIOUS
<1>1. CASE Hands
  BY <1>1 DEF Hands, Next
<1>2. CASE KeysScanned
  BY <1>2 DEF KeysScanned, Next
<1>3. CASE AllScanned
  BY <1>3 DEF AllScanned, Next
<1>4. CASE Unseen
  BY <1>4 DEF Unseen, Next
<1>5. CASE TunerSteps
  BY <1>5 DEF TunerSteps
<1>6. CASE ScalingSteps
  BY <1>6 DEF ScalingSteps
<1>7. CASE UNCHANGED allVars
  BY <1>7 DEF allVars
<1> QED
  BY <1>1, <1>2, <1>3, <1>4, <1>5, <1>6, <1>7 DEF AllNext

\* A scanner that tunings hold up, with contacts that bounce out meanwhile,
\* implements the scanner: the events of TUNE and of the keys that move during
\* a tuning are debounced as any.
THEOREM TuneButtonScans == AllSpec => Spec
<1>1. AllInit => Init
  BY DEF AllInit
<1> QED
  BY <1>1, ScannersStep, PTL DEF AllSpec, Spec

\* Also around tunings each move of a key or button makes one event, so that a
\* bounce of TUNE does not start a tuning.
THEOREM TuneButtonOneEventPerMove == AllSpec => OneEventPerMove
BY TuneButtonScans, ScannerOneEventPerMove, PTL

-----------------------------------------------------------------------------
(* Arithmetic of the tuner *)

LEMMA ModInside ==
  ASSUME NEW n \in Nat \ {0}, NEW x \in 0 .. n - 1
  PROVE  x % n = x
OBVIOUS

LEMMA ModAbove ==
  ASSUME NEW n \in Nat \ {0}, NEW x \in 0 .. n - 1
  PROVE  (x + n) % n = x
OBVIOUS

LEMMA ModRange ==
  ASSUME NEW n \in Nat \ {0}, NEW x \in Int
  PROVE  x % n \in 0 .. n - 1
OBVIOUS

LEMMA Multiples ==
  ASSUME NEW a \in Nat, NEW b \in Nat, NEW d \in Nat, NEW e \in Nat, a <= b, d <= e
  PROVE  /\ a * d \in Nat /\ a * d <= b * d /\ a * d <= a * e
         /\ (a + 1) * d = a * d + d
         /\ a * (0 - d) = 0 - a * d
OBVIOUS

LEMMA SizeFacts ==
  /\ Size \in Nat \ {0} /\ Steps \in Nat \ {0} /\ Nearest \in Nat \ {0}
  /\ \A s \in 0 .. Steps - 1 : Bits[s] \in Nat \ {0}
  /\ \A s \in 0 .. Steps - 2 : Bits[s] = 2 * Bits[s + 1]
  /\ Size = 2 * Bits[0] /\ Size - 1 \in Voltages
<1>1. Steps \in Nat \ {0} /\ \A s \in 0 .. Steps - 1 : Bits[s] \in Nat \ {0}
  BY BitsAssumption
<1>2. Bits[0] \in Nat \ {0} /\ Nearest \in Nat \ {0}
  BY <1>1 DEF Nearest
<1>3. ASSUME NEW s \in 0 .. Steps - 2 PROVE Bits[s] = 2 * Bits[s + 1]
  <2>1. s + 1 \in 1 .. Steps - 1 /\ (s + 1) - 1 = s
    BY <1>1
  <2> QED
    BY <2>1, BitsAssumption
<1>4. Size = 2 * Bits[0]
  BY BitsAssumption
<1> QED
  BY <1>1, <1>2, <1>3, <1>4 DEF Voltages

LEMMA OctaveFacts ==
  ASSUME NEW c \in Cvs
  PROVE  /\ LowOf(c) \in Nat \ {0} /\ HighOf(c) \in Nat /\ LowOf(c) < HighOf(c)
         /\ HighOf(c) < OctaveCount /\ OctaveCount \in Nat
         /\ Measured(c) \subseteq Octaves /\ LowOf(c) \in Measured(c)
         /\ Theory(c) \in [Octaves -> Voltages]
         /\ FloorOf(c) \in Voltages
<1>1. /\ LowOf(c) \in Nat \ {0} /\ HighOf(c) \in Nat /\ LowOf(c) < HighOf(c)
      /\ HighOf(c) < OctaveCount /\ OctaveCount \in Nat
  BY OctavesAssumption DEF LowOf, HighOf
<1>2. Measured(c) \subseteq Octaves /\ LowOf(c) \in Measured(c)
  BY <1>1 DEF Measured, Octaves
<1>3. Theory(c) \in [Octaves -> Voltages]
  BY InitAssumption DEF Theory
<1>4. (IF c \in Filters THEN FilLo - 1 ELSE OscLo - 2) \in Octaves
  BY OctavesAssumption DEF Octaves
<1>5. FloorOf(c) \in Voltages
  BY <1>3, <1>4 DEF FloorOf
<1> QED
  BY <1>1, <1>2, <1>3, <1>5

LEMMA PitchFacts ==
  ASSUME NEW c \in Cvs
  PROVE  /\ \A o \in Measured(c) : Pitch[c][o] \in Voltages /\ FloorOf(c) < Pitch[c][o]
         /\ \A o \in LowOf(c) .. HighOf(c) - 1 : Pitch[c][o] + 2 * Nearest < Pitch[c][o + 1]
<1>1. \A o \in Measured(c) : Pitch[c][o] \in FloorOf(c) + 1 .. Size - 1
  BY PitchAssumption
<1>2. \A o \in LowOf(c) .. HighOf(c) - 1 : Pitch[c][o] + 2 * Nearest < Pitch[c][o + 1]
  BY PitchAssumption
<1> QED
  BY <1>1, <1>2, SizeFacts, OctaveFacts DEF Voltages

\* Octaves extrapolated from a voltage in tune rise, and stay within the 16 bits.
LEMMA ExtrapolatedRises ==
  ASSUME NEW c \in Cvs, NEW t \in [Octaves -> Voltages],
         \A o \in Measured(c) : Distance(t[o], Pitch[c][o]) <= Nearest
  PROVE  \A o \in Octaves : o > 0 => Extrapolated(c, t)[o - 1] < Extrapolated(c, t)[o]
<1> DEFINE lo == LowOf(c)
           hi == HighOf(c)
           P == Pitch[c]
           d == t[lo + 1] - t[lo]
           u == t[hi] - t[hi - 1]
           E == [o \in Octaves |->
                   IF o < lo THEN t[lo] - (lo - o) * d
                   ELSE IF o > hi THEN t[hi] + (o - hi) * u
                   ELSE t[o]]
<1>1. /\ lo \in Nat \ {0} /\ hi \in Nat /\ lo < hi /\ hi < OctaveCount /\ OctaveCount \in Nat
      /\ Size \in Nat \ {0} /\ Nearest \in Nat \ {0}
  BY OctaveFacts, SizeFacts
<1>2. \A o \in Octaves : t[o] \in Int /\ 0 <= t[o] /\ t[o] < Size
  BY <1>1 DEF Voltages
<1>3. ASSUME NEW o \in lo .. hi
      PROVE  P[o] \in Int /\ t[o] <= P[o] + Nearest /\ P[o] - Nearest <= t[o] /\ o \in Octaves
  <2>1. o \in Measured(c) /\ o \in Octaves
    BY <1>1 DEF Measured, Octaves
  <2>2. P[o] \in Int
    BY <2>1, PitchFacts, <1>1 DEF Voltages
  <2> QED
    BY <1>1, <1>2, <2>1, <2>2 DEF Distance
<1>4. ASSUME NEW o \in lo .. hi - 1 PROVE P[o] + 2 * Nearest < P[o + 1] /\ t[o] < t[o + 1]
  <2>1. P[o] + 2 * Nearest < P[o + 1]
    BY PitchFacts
  <2>2. o \in lo .. hi /\ o + 1 \in lo .. hi
    BY <1>1
  <2> QED
    BY <1>1, <1>2, <1>3, <2>1, <2>2
<1>5. d \in Nat \ {0} /\ lo * d <= t[lo]
  <2>1. lo \in lo .. hi /\ lo + 1 \in lo .. hi /\ lo \in lo .. hi - 1
    BY <1>1
  <2> DEFINE e == P[lo + 1] - P[lo] + 2 * Nearest
  <2>2. d \in Nat \ {0} /\ e \in Nat /\ d <= e
    BY <1>1, <1>2, <1>3, <1>4, <2>1
  <2>3. lo * e <= P[lo] - Nearest
    BY PitchAssumption
  <2>4. P[lo] - Nearest <= t[lo] /\ P[lo] \in Int /\ t[lo] \in Int
    BY <1>2, <1>3, <2>1
  <2> HIDE DEF d, e, lo, P
  <2>5. lo * d <= lo * e /\ lo * d \in Nat /\ lo * e \in Nat
    BY <1>1, <2>2, Multiples
  <2> QED
    BY <1>1, <2>2, <2>3, <2>4, <2>5
<1>6. u \in Nat \ {0} /\ t[hi] + (OctaveCount - 1 - hi) * u < Size
  <2>1. hi \in lo .. hi /\ hi - 1 \in lo .. hi /\ hi - 1 \in lo .. hi - 1 /\ (hi - 1) + 1 = hi
    BY <1>1
  <2> DEFINE e == P[hi] - P[hi - 1] + 2 * Nearest
             n == OctaveCount - 1 - hi
  <2>2. u \in Nat \ {0} /\ e \in Nat /\ u <= e
    BY <1>1, <1>2, <1>3, <1>4, <2>1
  <2>3. P[hi] + Nearest + n * e < Size
    BY PitchAssumption
  <2>4. t[hi] <= P[hi] + Nearest /\ P[hi] \in Int /\ t[hi] \in Int
    BY <1>2, <1>3, <2>1
  <2>5. n \in Nat
    BY <1>1
  <2> HIDE DEF u, e, n, hi, P
  <2>6. n * u <= n * e /\ n * u \in Nat /\ n * e \in Nat
    BY <2>2, <2>5, Multiples
  <2>7. t[hi] + n * u < Size
    BY <1>1, <2>2, <2>3, <2>4, <2>6
  <2> QED
    BY <2>2, <2>7 DEF n
<1>7. ASSUME NEW o \in Octaves PROVE E[o] \in 0 .. Size - 1 /\ (o > 0 => E[o - 1] < E[o])
  <2>1. o \in Nat /\ o < OctaveCount
    BY <1>1 DEF Octaves
  <2>2. \A j \in Octaves : E[j] = IF j < lo THEN t[lo] - (lo - j) * d
                                  ELSE IF j > hi THEN t[hi] + (j - hi) * u
                                  ELSE t[j]
    OBVIOUS
  <2>3. o > 0 => o - 1 \in Octaves
    BY <1>1, <2>1 DEF Octaves
  <2>4. lo \in Octaves /\ hi \in Octaves /\ t[lo] \in Int /\ t[hi] \in Int /\ t[lo] < Size /\ 0 <= t[hi]
    BY <1>1, <1>2 DEF Octaves
  <2>5. \A j \in lo .. hi - 1 : t[j] < t[j + 1]
    BY <1>4
  <2> HIDE DEF E, lo, hi, d, u, P
  <2>6. CASE o <= lo
    <3> DEFINE n == lo - o
    <3>1. n \in Nat /\ n <= lo
      BY <1>1, <2>1, <2>6
    <3>2. n * d \in Nat /\ n * d <= lo * d /\ (n + 1) * d = n * d + d
      BY <1>1, <1>5, <3>1, Multiples
    <3>3. E[o] = t[lo] - n * d
      <4>1. CASE o < lo
        BY <2>2, <4>1
      <4>2. CASE o = lo
        <5>1. n * d = 0 /\ E[o] = t[lo]
          BY <1>1, <1>5, <2>2, <4>2
        <5> QED
          BY <2>4, <5>1
      <4> QED
        BY <1>1, <2>1, <2>6, <4>1, <4>2
    <3>4. o > 0 => E[o - 1] = t[lo] - (n + 1) * d
      <4> SUFFICES ASSUME o > 0 PROVE E[o - 1] = t[lo] - (n + 1) * d
        OBVIOUS
      <4>1. o - 1 < lo /\ lo - (o - 1) = n + 1
        BY <1>1, <2>1, <2>6
      <4> QED
        BY <2>2, <2>3, <4>1
    <3>5. lo * d \in Nat
      BY <1>1, <1>5, Multiples
    <3> HIDE DEF n
    <3> QED
      BY <1>1, <1>5, <2>4, <3>1, <3>2, <3>3, <3>4, <3>5
  <2>7. CASE o > lo /\ o <= hi
    <3>1. E[o] = t[o] /\ E[o - 1] = t[o - 1]
      BY <1>1, <2>1, <2>2, <2>3, <2>7
    <3>2. o - 1 \in lo .. hi - 1 /\ (o - 1) + 1 = o
      BY <1>1, <2>1, <2>7
    <3> QED
      BY <1>1, <1>2, <2>5, <3>1, <3>2
  <2>8. CASE o > hi
    <3> DEFINE n == o - 1 - hi
               m == OctaveCount - 1 - hi
    <3>1. n \in Nat /\ m \in Nat /\ n + 1 <= m /\ n + 1 \in Nat /\ o - hi = n + 1
      BY <1>1, <2>1, <2>8
    <3>2. /\ n * u \in Nat /\ (n + 1) * u = n * u + u /\ (n + 1) * u <= m * u
          /\ m * u \in Nat
      BY <1>6, <3>1, Multiples
    <3>3. E[o] = t[hi] + (n + 1) * u
      BY <1>1, <2>1, <2>2, <2>8, <3>1
    <3>4. E[o - 1] = t[hi] + n * u
      <4>1. CASE o - 1 = hi
        <5>1. n * u = 0 /\ E[o - 1] = t[hi]
          BY <1>1, <1>6, <2>1, <2>2, <2>3, <2>8, <4>1
        <5> QED
          BY <2>4, <5>1
      <4>2. CASE o - 1 > hi
        BY <1>1, <2>1, <2>2, <2>3, <2>8, <4>2
      <4> QED
        BY <1>1, <2>1, <2>8, <4>1, <4>2
    <3>5. t[hi] + m * u < Size
      BY <1>6
    <3> HIDE DEF n, m
    <3> QED
      BY <1>1, <1>6, <2>4, <3>1, <3>2, <3>3, <3>4, <3>5
  <2> QED
    BY <1>1, <2>1, <2>6, <2>7, <2>8
<1>8. ASSUME NEW o \in Octaves PROVE Extrapolated(c, t)[o] = E[o]
  <2>1. Extrapolated(c, t)[o] =
          (IF o < lo THEN t[lo] + (lo - o) * (t[lo] - t[lo + 1])
           ELSE IF o > hi THEN t[hi] + (o - hi) * (t[hi] - t[hi - 1])
           ELSE t[o]) % Size
    BY DEF Extrapolated
  <2>2. o < lo => t[lo] + (lo - o) * (t[lo] - t[lo + 1]) = t[lo] - (lo - o) * d
    <3> SUFFICES ASSUME o < lo PROVE t[lo] + (lo - o) * (t[lo] - t[lo + 1]) = t[lo] - (lo - o) * d
      OBVIOUS
    <3>1. lo - o \in Nat /\ t[lo] \in Int /\ t[lo + 1] \in Int
      BY <1>1, <1>2 DEF Octaves
    <3>2. t[lo] - t[lo + 1] = 0 - d
      BY <3>1
    <3> HIDE DEF d
    <3>3. (lo - o) * (0 - d) = 0 - (lo - o) * d /\ (lo - o) * d \in Nat
      BY <1>5, <3>1, Multiples
    <3> QED
      BY <3>1, <3>2, <3>3
  <2>3. Extrapolated(c, t)[o] = E[o] % Size
    BY <2>1, <2>2
  <2> HIDE DEF E
  <2> QED
    BY <1>1, <1>7, <2>3, ModInside
<1>9. ASSUME NEW o \in Octaves, o > 0 PROVE o - 1 \in Octaves
  BY <1>1, <1>9 DEF Octaves
<1> HIDE DEF E
<1> QED
  BY <1>7, <1>8, <1>9

-----------------------------------------------------------------------------
(* The tuner *)

\* An octave the search is through with: near its pitch unless it timed out, and
\* then not too often.
Searched(c, o) == missed[c][o] < MaxFailures /\ (missed[c][o] = 0 => Tuned(c, o))

\* One it has not come to.
Untouched(c, o) == missed[c][o] = 0 /\ tunes[c][o] = Theory(c)[o]

\* The result for a voltage.
Result(c, o) ==
  \/ missed[c][o] = 0 /\ Tuned(c, o)
  \/ missed[c][o] \in 1 .. MaxFailures - 1
  \/ tunes[c][o] = Theory(c)[o]

InTune(c) ==
  /\ \A o \in Measured(c) : Tuned(c, o)
  /\ \A o \in Octaves : o > 0 => tunes[c][o - 1] < tunes[c][o]

Finished(c) ==
  /\ \A o \in Measured(c) : Result(c, o)
  /\ missed[c] = [o \in Octaves |-> 0] => InTune(c)

\* Each step leads nearer by half, up or down within the 16 bits but for a first
\* step up, which wraps to where the step down leads.
Halving ==
  /\ estimate >= 2 * Bit - 1
  /\ IF step = 0 THEN estimate = Size - 1 ELSE estimate <= Size - 1 - 2 * Bit
  /\ missed[cv][octave] = 0 => Distance(estimate, Pitch[cv][octave]) <= 2 * Bit

\* The search so far.
Octavewise ==
  \A o \in Measured(cv) :
    /\ o < octave => Searched(cv, o)
    /\ o >= octave => tunes[cv][o] = Theory(cv)[o]
    /\ o > octave => missed[cv][o] = 0

SearchInv ==
  /\ cv \in Cvs /\ octave \in Measured(cv)
  /\ timeoutCount = missed[cv][octave] /\ timeoutCount < MaxFailures
  /\ Halving
  /\ Octavewise
  /\ \A c \in Cvs : c > cv => \A o \in Octaves : Untouched(c, o)

TunerInv ==
  /\ TunerTypeOK
  /\ mode = "scaling" => cv \in Cvs
  /\ mode = "tuning" => SearchInv
  /\ mode # "scaling" => \A c \in 0 .. cv - 1 : Finished(c)

\* Where a step leads.
LEMMA AdjustedFacts ==
  ASSUME step \in 0 .. Steps - 1, estimate \in Voltages, estimate >= 2 * Bit - 1,
         IF step = 0 THEN estimate = Size - 1 ELSE estimate <= Size - 1 - 2 * Bit,
         NEW long \in BOOLEAN
  PROVE  /\ Adjusted(long) \in Voltages
         /\ Bit - 1 <= Adjusted(long) /\ Adjusted(long) <= Size - 1 - Bit
         /\ \A p \in Voltages : Distance(estimate, p) <= 2 * Bit /\ (long <=> estimate < p)
               => Distance(Adjusted(long), p) <= Bit
<1>1. Bit \in Nat \ {0} /\ Size \in Nat \ {0} /\ (step = 0 => Size = 2 * Bit) /\ estimate \in Int
      /\ 0 <= estimate /\ estimate < Size
  BY SizeFacts DEF Bit, Voltages
<1>2. \A p \in Voltages : p \in Int /\ 0 <= p /\ p < Size
  BY <1>1 DEF Voltages
<1>3. ASSUME NEW a \in 0 .. Size - 1, Adjusted(long) = a, Bit - 1 <= a, a <= Size - 1 - Bit,
             \A p \in Voltages : Distance(estimate, p) <= 2 * Bit /\ (long <=> estimate < p)
               => Distance(a, p) <= Bit
      PROVE  /\ Adjusted(long) \in Voltages
             /\ Bit - 1 <= Adjusted(long) /\ Adjusted(long) <= Size - 1 - Bit
             /\ \A p \in Voltages : Distance(estimate, p) <= 2 * Bit /\ (long <=> estimate < p)
                   => Distance(Adjusted(long), p) <= Bit
  BY <1>3 DEF Voltages
<1>4. CASE step = 0 /\ long
  <2>1. Adjusted(long) = ((Bit - 1) + Size) % Size /\ Bit - 1 \in 0 .. Size - 1
    BY <1>1, <1>4 DEF Adjusted
  <2>2. Adjusted(long) = Bit - 1
    BY <1>1, <2>1, ModAbove
  <2>3. Bit - 1 <= Size - 1 - Bit
    BY <1>1, <1>4
  <2>4. \A p \in Voltages : ~(estimate < p)
    BY <1>1, <1>2, <1>4
  <2>5. \A p \in Voltages : Distance(estimate, p) <= 2 * Bit /\ (long <=> estimate < p)
               => Distance(Bit - 1, p) <= Bit
    BY <1>4, <2>4
  <2> QED
    BY <1>1, <1>3, <2>1, <2>2, <2>3, <2>5
<1>5. CASE step # 0 /\ long
  <2>1. estimate + Bit \in 0 .. Size - 1 /\ Bit - 1 <= estimate + Bit /\ estimate + Bit <= Size - 1 - Bit
    BY <1>1, <1>5
  <2>2. Adjusted(long) = estimate + Bit
    BY <1>1, <1>5, <2>1, ModInside DEF Adjusted
  <2>3. \A p \in Voltages : Distance(estimate, p) <= 2 * Bit /\ (long <=> estimate < p)
               => Distance(estimate + Bit, p) <= Bit
    BY <1>1, <1>2, <1>5 DEF Distance
  <2> QED
    BY <1>3, <2>1, <2>2, <2>3
<1>6. CASE ~long
  <2>1. estimate - Bit \in 0 .. Size - 1 /\ Bit - 1 <= estimate - Bit /\ estimate - Bit <= Size - 1 - Bit
    BY <1>1, <1>6
  <2>2. Adjusted(long) = estimate - Bit
    BY <1>1, <1>6, <2>1, ModInside DEF Adjusted
  <2>3. \A p \in Voltages : Distance(estimate, p) <= 2 * Bit /\ (long <=> estimate < p)
               => Distance(estimate - Bit, p) <= Bit
    BY <1>1, <1>2, <1>6 DEF Distance
  <2> QED
    BY <1>3, <2>1, <2>2, <2>3
<1> QED
  BY <1>4, <1>5, <1>6

\* The first step of a search.
LEMMA SearchBegins ==
  ASSUME NEW c \in Cvs, NEW o \in Measured(c), NEW n, Search(c, o, n),
         missed'[c][o] = 0
  PROVE  /\ cv' = c /\ octave' = o /\ step' = 0 /\ estimate' = Size - 1 /\ timeoutCount' = 0
         /\ Halving'
<1>1. cv' = c /\ octave' = o /\ step' = 0 /\ estimate' = Size - 1 /\ timeoutCount' = 0
  BY DEF Search, Recounted
<1>2. Bit' = Bits[0] /\ Size = 2 * Bits[0] /\ Bits[0] \in Nat \ {0}
  BY <1>1, SizeFacts DEF Bit
<1>3. Pitch[c][o] \in Int /\ 0 <= Pitch[c][o] /\ Pitch[c][o] < Size
  BY PitchFacts, SizeFacts DEF Voltages
<1>4. Distance(Size - 1, Pitch[c][o]) <= 2 * Bits[0]
  BY <1>2, <1>3 DEF Distance
<1> QED
  BY <1>1, <1>2, <1>4 DEF Halving

\* A tuning starts with nothing done.
LEMMA TuneInv ==
  ASSUME TunerInv, Tune
  PROVE  TunerInv'
<1>1. 0 \in Cvs /\ LowOf(0) \in Measured(0) /\ Measured(0) \subseteq Octaves
  <2>1. 0 \in Cvs
    BY CvsAssumption DEF Cvs
  <2> QED
    BY <2>1, OctaveFacts
<1>2. /\ mode' = "tuning" /\ tunes' = [c \in Cvs |-> Theory(c)] /\ missed' = NoneMissed
      /\ Search(0, LowOf(0), timeoutCount) /\ UNCHANGED shown
  BY DEF Tune
<1>3. \A c \in Cvs, o \in Octaves : missed'[c][o] = 0 /\ tunes'[c][o] = Theory(c)[o]
  BY <1>2 DEF NoneMissed
<1>4. /\ cv' = 0 /\ octave' = LowOf(0) /\ step' = 0 /\ estimate' = Size - 1 /\ timeoutCount' = 0
      /\ Halving'
  BY <1>1, <1>2, <1>3, SearchBegins
<1>5. TunerTypeOK'
  <2>1. tunes' \in [Cvs -> [Octaves -> Voltages]]
    BY <1>2, OctaveFacts
  <2>2. missed' \in [Cvs -> [Octaves -> 0 .. MaxFailures + 3]]
    BY <1>2, SearchAssumption DEF NoneMissed
  <2>3. cv' \in 0 .. CvCount /\ step' \in 0 .. Steps - 1 /\ estimate' \in Voltages /\ timeoutCount' \in 0 .. 255
    BY <1>4, CvsAssumption, SizeFacts
  <2>4. octave' \in Octaves /\ shown' \in BOOLEAN
    BY <1>1, <1>2, <1>4 DEF TunerInv, TunerTypeOK
  <2> QED
    BY <1>2, <2>1, <2>2, <2>3, <2>4 DEF TunerTypeOK
<1>6. SearchInv'
  <2>1. Octavewise'
    <3> SUFFICES ASSUME NEW o \in Measured(0) PROVE ~(o < LowOf(0)) /\ missed'[0][o] = 0 /\ tunes'[0][o] = Theory(0)[o]
      BY <1>4 DEF Octavewise
    <3>1. o \in Octaves /\ ~(o < LowOf(0))
      BY <1>1 DEF Measured
    <3> QED
      BY <1>1, <1>3, <3>1
  <2>2. timeoutCount' = missed'[cv'][octave'] /\ timeoutCount' < MaxFailures
    BY <1>1, <1>3, <1>4, SearchAssumption
  <2> QED
    BY <1>1, <1>3, <1>4, <2>1, <2>2 DEF SearchInv, Untouched
<1> QED
  BY <1>2, <1>4, <1>5, <1>6 DEF TunerInv

\* The voltage is done, with its octaves `t`: the next one, or the end.
LEMMA NextCvInv ==
  ASSUME TunerInv, mode = "tuning", NEW t \in [Octaves -> Voltages],
         NEW m \in [Octaves -> 0 .. MaxFailures + 3], missed' = [missed EXCEPT ![cv] = m],
         NEW count \in 0 .. 255, NextCv(t, count), UNCHANGED shown,
         \A o \in Measured(cv) :
            \/ m[o] < MaxFailures /\ (m[o] = 0 => Distance(t[o], Pitch[cv][o]) <= Nearest)
            \/ t[o] = Theory(cv)[o] /\ \E j \in Octaves : m[j] # 0
  PROVE  TunerInv'
<1> DEFINE E == Extrapolated(cv, t)
<1>1. /\ cv \in Cvs /\ missed \in [Cvs -> [Octaves -> 0 .. MaxFailures + 3]]
      /\ tunes \in [Cvs -> [Octaves -> Voltages]]
      /\ \A c \in Cvs : c > cv => \A o \in Octaves : Untouched(c, o)
      /\ \A c \in 0 .. cv - 1 : Finished(c)
  BY DEF TunerInv, SearchInv, TunerTypeOK
<1>2. /\ cv \in Nat /\ CvCount \in Nat /\ cv < CvCount /\ MaxFailures \in Nat \ {0}
      /\ OctaveCount \in Nat /\ Size \in Nat \ {0}
  <2>1. cv \in Nat /\ CvCount \in Nat /\ cv < CvCount
    BY <1>1, CvsAssumption DEF Cvs
  <2>2. OctaveCount \in Nat /\ Size \in Nat \ {0} /\ MaxFailures \in Nat \ {0}
    BY <1>1, SearchAssumption, SizeFacts, OctaveFacts
  <2> QED
    BY <2>1, <2>2
<1>3. E \in [Octaves -> Voltages]
  <2>1. ASSUME NEW o \in Octaves PROVE E[o] \in Voltages
    <3> DEFINE x == IF o < LowOf(cv) THEN t[LowOf(cv)] + (LowOf(cv) - o) * (t[LowOf(cv)] - t[LowOf(cv) + 1])
                    ELSE IF o > HighOf(cv) THEN t[HighOf(cv)] + (o - HighOf(cv)) * (t[HighOf(cv)] - t[HighOf(cv) - 1])
                    ELSE t[o]
    <3>1. E[o] = x % Size
      BY DEF Extrapolated
    <3>2. x \in Int
      <4>1. \A j \in Octaves : t[j] \in Int
        BY <1>2 DEF Voltages
      <4>2. {LowOf(cv), LowOf(cv) + 1, HighOf(cv), HighOf(cv) - 1} \subseteq Octaves
        BY <1>1, OctaveFacts DEF Octaves
      <4>3. o \in Int /\ LowOf(cv) \in Int /\ HighOf(cv) \in Int
        BY <1>1, OctaveFacts DEF Octaves
      <4> QED
        BY <4>1, <4>2, <4>3
    <3> HIDE DEF x
    <3> QED
      BY <1>2, <3>1, <3>2, ModRange DEF Voltages
  <2>2. E = [o \in Octaves |-> E[o]]
    BY DEF Extrapolated
  <2> QED
    BY <2>1, <2>2
<1>4. ASSUME NEW o \in Measured(cv) PROVE E[o] = t[o]
  <2>1. o \in Octaves /\ ~(o < LowOf(cv)) /\ ~(o > HighOf(cv))
    BY <1>1, OctaveFacts DEF Measured
  <2>2. E[o] = t[o] % Size
    BY <2>1 DEF Extrapolated
  <2> QED
    BY <1>2, <2>1, <2>2, ModInside DEF Voltages
<1> HIDE DEF E
<1>5. /\ tunes' = [tunes EXCEPT ![cv] = E] /\ tunes'[cv] = E /\ missed'[cv] = m
      /\ \A c \in Cvs : c # cv => tunes'[c] = tunes[c] /\ missed'[c] = missed[c]
      /\ tunes' \in [Cvs -> [Octaves -> Voltages]]
      /\ missed' \in [Cvs -> [Octaves -> 0 .. MaxFailures + 3]]
  BY <1>1, <1>3 DEF NextCv, E
<1>6. ASSUME NEW v \in Cvs, v = cv PROVE Finished(v)'
  <2> SUFFICES /\ \A o \in Measured(v) :
                    \/ m[o] = 0 /\ Distance(E[o], Pitch[v][o]) <= Nearest
                    \/ m[o] \in 1 .. MaxFailures - 1
                    \/ E[o] = Theory(v)[o]
               /\ m = [o \in Octaves |-> 0] =>
                    /\ \A o \in Measured(v) : Distance(E[o], Pitch[v][o]) <= Nearest
                    /\ \A o \in Octaves : o > 0 => E[o - 1] < E[o]
    BY <1>5, <1>6 DEF Finished, Result, InTune, Tuned
  <2>1. ASSUME NEW o \in Measured(v)
        PROVE  \/ m[o] = 0 /\ Distance(E[o], Pitch[v][o]) <= Nearest
               \/ m[o] \in 1 .. MaxFailures - 1
               \/ E[o] = Theory(v)[o]
    <3>1. o \in Octaves /\ m[o] \in Nat
      BY <1>1, <1>2, <1>6, OctaveFacts
    <3> QED
      BY <1>2, <1>4, <1>6, <3>1
  <2>2. ASSUME m = [o \in Octaves |-> 0]
        PROVE  /\ \A o \in Measured(v) : Distance(E[o], Pitch[v][o]) <= Nearest
               /\ \A o \in Octaves : o > 0 => E[o - 1] < E[o]
    <3>1. \A o \in Octaves : m[o] = 0
      BY <2>2
    <3>2. \A o \in Measured(v) : Distance(t[o], Pitch[v][o]) <= Nearest
      BY <1>1, <1>6, <3>1, OctaveFacts
    <3> QED
      BY <1>4, <1>6, <3>2, ExtrapolatedRises DEF E
  <2> QED
    BY <2>1, <2>2
<1>7. ASSUME NEW c \in 0 .. cv - 1 PROVE Finished(c)'
  <2>1. c \in Cvs /\ c # cv
    BY <1>2 DEF Cvs
  <2> QED
    BY <1>1, <1>5, <2>1 DEF Finished, Result, InTune, Tuned
<1>8. CASE cv + 1 \in Cvs
  <2> DEFINE d == cv + 1
  <2>1. Search(d, LowOf(d), count) /\ mode' = mode
    BY <1>8 DEF NextCv
  <2>2. d \in Cvs /\ d > cv /\ d # cv /\ LowOf(d) \in Measured(d) /\ Measured(d) \subseteq Octaves
    BY <1>2, <1>8, OctaveFacts
  <2>3. ASSUME NEW c \in Cvs, c > cv, NEW o \in Octaves PROVE Untouched(c, o)'
    BY <1>1, <1>2, <1>5, <2>3 DEF Untouched, Cvs
  <2>4. \A o \in Octaves : missed'[d][o] = 0 /\ tunes'[d][o] = Theory(d)[o]
    BY <2>2, <2>3 DEF Untouched
  <2>5. /\ cv' = d /\ octave' = LowOf(d) /\ step' = 0 /\ estimate' = Size - 1 /\ timeoutCount' = 0
        /\ Halving'
    BY <2>1, <2>2, <2>4, SearchBegins
  <2>6. Octavewise'
    <3> SUFFICES ASSUME NEW o \in Measured(d) PROVE ~(o < LowOf(d)) /\ missed'[d][o] = 0 /\ tunes'[d][o] = Theory(d)[o]
      BY <2>5 DEF Octavewise
    <3>1. o \in Octaves /\ ~(o < LowOf(d))
      BY <2>2, OctaveFacts DEF Measured
    <3> QED
      BY <2>4, <3>1
  <2>7. timeoutCount' = missed'[cv'][octave'] /\ timeoutCount' < MaxFailures
    BY <1>2, <2>2, <2>4, <2>5
  <2>8. \A c \in Cvs : c > cv' => \A o \in Octaves : Untouched(c, o)'
    <3>1. \A c \in Cvs : c > d => c > cv
      BY <1>2 DEF Cvs
    <3> QED
      BY <2>3, <2>5, <3>1
  <2>9. SearchInv'
    BY <2>2, <2>5, <2>6, <2>7, <2>8 DEF SearchInv
  <2>10. TunerTypeOK'
    <3>1. cv' \in 0 .. CvCount /\ octave' \in Octaves /\ step' \in 0 .. Steps - 1 /\ estimate' \in Voltages
          /\ timeoutCount' \in 0 .. 255
      BY <1>2, <2>2, <2>5, SizeFacts DEF Cvs
    <3> QED
      BY <1>5, <2>1, <3>1 DEF TunerInv, TunerTypeOK
  <2>11. \A c \in 0 .. cv' - 1 : Finished(c)'
    <3>1. \A c \in 0 .. d - 1 : c = cv \/ c \in 0 .. cv - 1
      BY <1>2
    <3> QED
      BY <1>1, <1>6, <1>7, <2>5, <3>1
  <2> QED
    BY <2>1, <2>9, <2>10, <2>11 DEF TunerInv
<1>9. CASE cv + 1 \notin Cvs
  <2>1. /\ mode' = "idle" /\ cv' = cv + 1 /\ timeoutCount' = count
        /\ UNCHANGED <<octave, step, estimate>>
    BY <1>9 DEF NextCv
  <2>2. TunerTypeOK'
    BY <1>2, <1>5, <2>1 DEF TunerInv, TunerTypeOK
  <2>3. \A c \in 0 .. cv' - 1 : Finished(c)'
    <3>1. \A c \in 0 .. (cv + 1) - 1 : c = cv \/ c \in 0 .. cv - 1
      BY <1>2
    <3> QED
      BY <1>1, <1>6, <1>7, <2>1, <3>1
  <2> QED
    BY <2>1, <2>2, <2>3 DEF TunerInv
<1> QED
  BY <1>8, <1>9

\* A step of a search. A measurement without a timeout leads towards the pitch.
LEMMA AdjustInv ==
  ASSUME TunerInv, mode = "tuning", NEW t \in Nat, timeoutCount + t < MaxFailures,
         missed' = [missed EXCEPT ![cv][octave] = @ + t],
         NEW long \in BOOLEAN, Adjust(long, timeoutCount + t), UNCHANGED shown,
         t = 0 => (long <=> estimate < Pitch[cv][octave])
  PROVE  TunerInv'
<1> DEFINE count == timeoutCount + t
           A == Adjusted(long)
           p == Pitch[cv][octave]
<1>1. /\ TunerTypeOK /\ SearchInv /\ cv \in Cvs /\ octave \in Measured(cv) /\ octave \in Octaves
      /\ MaxFailures \in 1 .. 200 /\ timeoutCount \in Nat /\ count \in 0 .. MaxFailures - 1
      /\ count \in 0 .. 255
  <2>1. MaxFailures \in 1 .. 200
    BY SearchAssumption
  <2>2. cv \in Cvs /\ octave \in Measured(cv) /\ octave \in Octaves /\ timeoutCount \in Nat
    BY OctaveFacts DEF TunerInv, SearchInv, TunerTypeOK
  <2> QED
    BY <2>1, <2>2 DEF TunerInv
<1>2. /\ A \in Voltages /\ Bit - 1 <= A /\ A <= Size - 1 - Bit
      /\ missed[cv][octave] = 0 /\ t = 0 => Distance(A, p) <= Bit
  <2>1. p \in Voltages
    BY <1>1, PitchFacts
  <2>2. /\ step \in 0 .. Steps - 1 /\ estimate \in Voltages /\ estimate >= 2 * Bit - 1
        /\ IF step = 0 THEN estimate = Size - 1 ELSE estimate <= Size - 1 - 2 * Bit
    BY <1>1 DEF TunerTypeOK, SearchInv, Halving
  <2>3. missed[cv][octave] = 0 => Distance(estimate, p) <= 2 * Bit
    BY <1>1 DEF SearchInv, Halving
  <2> HIDE DEF p, A
  <2>4. /\ A \in Voltages /\ Bit - 1 <= A /\ A <= Size - 1 - Bit
        /\ \A q \in Voltages : Distance(estimate, q) <= 2 * Bit /\ (long <=> estimate < q)
               => Distance(A, q) <= Bit
    BY <2>2, AdjustedFacts DEF A
  <2> QED
    BY <2>1, <2>3, <2>4 DEF p
<1> DEFINE m == [missed[cv] EXCEPT ![octave] = count]
<1>3. /\ missed' = [missed EXCEPT ![cv] = m] /\ m \in [Octaves -> 0 .. MaxFailures + 3]
      /\ missed' \in [Cvs -> [Octaves -> 0 .. MaxFailures + 3]]
      /\ m[octave] = count /\ \A o \in Octaves : o # octave => m[o] = missed[cv][o]
      /\ missed'[cv] = m /\ \A c \in Cvs : c # cv => missed'[c] = missed[c]
  <2>1. missed \in [Cvs -> [Octaves -> 0 .. MaxFailures + 3]] /\ missed[cv][octave] = timeoutCount
    BY <1>1 DEF TunerTypeOK, SearchInv
  <2>2. missed' = [missed EXCEPT ![cv] = m]
    BY <1>1, <2>1
  <2>3. m \in [Octaves -> 0 .. MaxFailures + 3]
    BY <1>1, <2>1
  <2> QED
    BY <1>1, <2>1, <2>2, <2>3
<1>4. timeoutCount = 0 /\ t = 0 => Distance(A, p) <= Bit
  BY <1>1, <1>2 DEF SearchInv
<1>5. count = 0 => timeoutCount = 0 /\ t = 0
  BY <1>1
<1>6. CASE step < Steps - 1
  <2>1. /\ step' = step + 1 /\ estimate' = A /\ timeoutCount' = count
        /\ UNCHANGED <<mode, cv, octave, tunes>>
    BY <1>6 DEF Adjust
  <2>2. step \in 0 .. Steps - 2 /\ step' \in 1 .. Steps - 1
    BY <1>1, <1>6, <2>1, BitsAssumption DEF TunerTypeOK
  <2>3. Bit = 2 * Bit' /\ Bit' \in Nat \ {0}
    BY <2>1, <2>2, SizeFacts DEF Bit
  <2>4. Halving'
    <3>1. missed'[cv'][octave'] = count /\ Pitch[cv'][octave'] = p
      BY <1>1, <1>3, <2>1
    <3> HIDE DEF A, p, count
    <3>2. estimate' >= 2 * Bit' - 1 /\ estimate' <= Size - 1 - 2 * Bit' /\ step' # 0
      BY <1>2, <2>1, <2>2, <2>3
    <3>3. missed'[cv'][octave'] = 0 => Distance(estimate', Pitch[cv'][octave']) <= 2 * Bit'
      BY <1>4, <1>5, <2>1, <2>3, <3>1
    <3> QED
      BY <3>2, <3>3 DEF Halving
  <2>5. Octavewise'
    <3> SUFFICES ASSUME NEW o \in Measured(cv)
                 PROVE  /\ o < octave => missed'[cv][o] < MaxFailures /\ (missed'[cv][o] = 0 => Tuned(cv, o))
                        /\ o >= octave => tunes[cv][o] = Theory(cv)[o]
                        /\ o > octave => missed'[cv][o] = 0
      BY <2>1 DEF Octavewise, Searched, Tuned
    <3>1. o \in Octaves /\ (o # octave => missed'[cv][o] = missed[cv][o])
      BY <1>1, <1>3, OctaveFacts
    <3>2. o \in Int /\ octave \in Int
      BY <1>1, <3>1, OctaveFacts DEF Octaves
    <3> QED
      BY <1>1, <3>1, <3>2 DEF SearchInv, Octavewise, Searched
  <2>6. \A c \in Cvs : c > cv => \A o \in Octaves : Untouched(c, o)'
    <3> SUFFICES ASSUME NEW c \in Cvs, c > cv, NEW o \in Octaves PROVE missed'[c][o] = 0 /\ tunes[c][o] = Theory(c)[o]
      BY <2>1 DEF Untouched
    <3>1. c # cv
      BY <1>1 DEF Cvs
    <3> QED
      BY <1>1, <1>3, <3>1 DEF SearchInv, Untouched
  <2>7. \A c \in 0 .. cv - 1 : Finished(c)'
    <3> SUFFICES ASSUME NEW c \in 0 .. cv - 1 PROVE Finished(c)'
      OBVIOUS
    <3>1. c \in Cvs /\ c # cv
      BY <1>1, CvsAssumption DEF Cvs
    <3>2. Finished(c) /\ missed'[c] = missed[c]
      BY <1>3, <3>1 DEF TunerInv
    <3> QED
      BY <2>1, <3>2 DEF Finished, Result, InTune, Tuned
  <2>8. timeoutCount' = missed'[cv'][octave'] /\ timeoutCount' < MaxFailures
    BY <1>1, <1>3, <2>1
  <2>9. SearchInv'
    BY <1>1, <2>1, <2>4, <2>5, <2>6, <2>8 DEF SearchInv
  <2>10. TunerTypeOK'
    BY <1>1, <1>2, <1>3, <2>1, <2>2 DEF TunerTypeOK
  <2> QED
    BY <2>1, <2>7, <2>9, <2>10 DEF TunerInv
<1> DEFINE T == [tunes[cv] EXCEPT ![octave] = A]
<1>7. /\ T \in [Octaves -> Voltages] /\ T[octave] = A
      /\ \A o \in Octaves : o # octave => T[o] = tunes[cv][o]
  BY <1>1, <1>2 DEF TunerTypeOK
<1>8. ~(step < Steps - 1) => Bit = Nearest
  <2>1. step \in 0 .. Steps - 1 /\ Steps \in Nat
    BY <1>1, BitsAssumption DEF TunerTypeOK
  <2>2. ~(step < Steps - 1) => step = Steps - 1
    BY <2>1
  <2> QED
    BY <2>2 DEF Bit, Nearest
<1>9. CASE ~(step < Steps - 1) /\ octave < HighOf(cv)
  <2> DEFINE n == octave + 1
  <2>1. tunes' = [tunes EXCEPT ![cv] = T] /\ Search(cv, n, count) /\ UNCHANGED mode
    BY <1>9 DEF Adjust
  <2>2. octave \in Int /\ n \in Measured(cv) /\ n \in Octaves /\ n > octave
    <3>1. octave \in Int /\ octave >= LowOf(cv) /\ LowOf(cv) \in Int /\ HighOf(cv) \in Int
      BY <1>1, OctaveFacts DEF Measured
    <3>2. n \in Measured(cv)
      BY <1>9, <3>1 DEF Measured
    <3> QED
      BY <1>1, <3>1, <3>2, OctaveFacts
  <2>3. /\ tunes' \in [Cvs -> [Octaves -> Voltages]] /\ tunes'[cv] = T
        /\ \A c \in Cvs : c # cv => tunes'[c] = tunes[c]
    BY <1>1, <1>7, <2>1 DEF TunerTypeOK
  <2>4. missed'[cv][n] = 0
    BY <1>1, <1>3, <2>2 DEF SearchInv, Octavewise
  <2>5. /\ cv' = cv /\ octave' = n /\ step' = 0 /\ estimate' = Size - 1 /\ timeoutCount' = 0
        /\ Halving'
    BY <1>1, <2>1, <2>2, <2>4, SearchBegins
  <2>6. Octavewise'
    <3> SUFFICES ASSUME NEW o \in Measured(cv)
                 PROVE  /\ o < n => m[o] < MaxFailures /\ (m[o] = 0 => Distance(T[o], Pitch[cv][o]) <= Nearest)
                        /\ o >= n => T[o] = Theory(cv)[o]
                        /\ o > n => m[o] = 0
      BY <1>3, <2>3, <2>5 DEF Octavewise, Searched, Tuned
    <3>1. o \in Octaves /\ o \in Int
      BY <1>1, OctaveFacts DEF Measured
    <3>2. CASE o = octave
      BY <1>1, <1>3, <1>4, <1>5, <1>7, <1>8, <1>9, <2>2, <3>1, <3>2
    <3>3. CASE o # octave
      <4>1. m[o] = missed[cv][o] /\ T[o] = tunes[cv][o]
        BY <1>3, <1>7, <3>1, <3>3
      <4>2. (o < n => o < octave) /\ (o >= n => o > octave)
        BY <2>2, <3>1, <3>3
      <4>3. /\ o < octave => missed[cv][o] < MaxFailures /\ (missed[cv][o] = 0 => Tuned(cv, o))
            /\ o > octave => missed[cv][o] = 0 /\ tunes[cv][o] = Theory(cv)[o]
        BY <1>1, <2>2, <3>1 DEF SearchInv, Octavewise, Searched
      <4>4. o > n => o >= n
        BY <2>2, <3>1
      <4> HIDE DEF n, m, T
      <4> QED
        BY <4>1, <4>2, <4>3, <4>4 DEF Tuned
    <3> QED
      BY <3>2, <3>3
  <2>7. \A c \in Cvs : c > cv => \A o \in Octaves : Untouched(c, o)'
    <3> SUFFICES ASSUME NEW c \in Cvs, c > cv, NEW o \in Octaves PROVE missed'[c][o] = 0 /\ tunes'[c][o] = Theory(c)[o]
      BY DEF Untouched
    <3>1. c # cv
      BY <1>1 DEF Cvs
    <3>2. missed'[c] = missed[c] /\ tunes'[c] = tunes[c]
      BY <1>3, <2>3, <3>1
    <3>3. Untouched(c, o)
      BY <1>1 DEF SearchInv
    <3> QED
      BY <3>2, <3>3 DEF Untouched
  <2>8. \A c \in 0 .. cv - 1 : Finished(c)'
    <3> SUFFICES ASSUME NEW c \in 0 .. cv - 1 PROVE Finished(c)'
      OBVIOUS
    <3>1. c \in Cvs /\ c # cv
      BY <1>1, CvsAssumption DEF Cvs
    <3>2. Finished(c) /\ missed'[c] = missed[c] /\ tunes'[c] = tunes[c]
      BY <1>3, <2>3, <3>1 DEF TunerInv
    <3> QED
      BY <3>2 DEF Finished, Result, InTune, Tuned
  <2>9. timeoutCount' = missed'[cv'][octave'] /\ timeoutCount' < MaxFailures
    BY <1>1, <2>4, <2>5
  <2>10. SearchInv'
    BY <1>1, <2>2, <2>5, <2>6, <2>7, <2>9 DEF SearchInv
  <2>11. TunerTypeOK'
    <3>1. 0 \in 0 .. Steps - 1 /\ Size - 1 \in Voltages /\ 0 \in 0 .. 255
      BY SizeFacts
    <3>2. cv' \in 0 .. CvCount /\ octave' \in Octaves /\ step' \in 0 .. Steps - 1 /\ estimate' \in Voltages
          /\ timeoutCount' \in 0 .. 255
      <4> HIDE DEF n
      <4> QED BY <1>1, <2>2, <2>5, <3>1 DEF TunerTypeOK
    <3> QED
      BY <1>1, <1>3, <2>1, <2>3, <3>2 DEF TunerTypeOK
  <2> QED
    BY <2>1, <2>5, <2>8, <2>10, <2>11 DEF TunerInv
<1>10. CASE ~(step < Steps - 1) /\ ~(octave < HighOf(cv))
  <2>1. NextCv(T, count)
    BY <1>10 DEF Adjust
  <2>2. ASSUME NEW o \in Measured(cv)
        PROVE  m[o] < MaxFailures /\ (m[o] = 0 => Distance(T[o], Pitch[cv][o]) <= Nearest)
    <3>1. o \in Octaves /\ o \in Int /\ octave \in Int /\ o <= octave
      BY <1>1, <1>10, OctaveFacts DEF Measured
    <3>2. CASE o = octave
      BY <1>1, <1>3, <1>4, <1>5, <1>7, <1>8, <1>10, <3>1, <3>2
    <3>3. CASE o # octave
      <4>1. m[o] = missed[cv][o] /\ T[o] = tunes[cv][o]
        BY <1>3, <1>7, <3>1, <3>3
      <4> HIDE DEF m, T
      <4> QED
        BY <1>1, <3>1, <3>3, <4>1 DEF SearchInv, Octavewise, Searched, Tuned
    <3> QED
      BY <3>2, <3>3
  <2> HIDE DEF m, T, count
  <2> QED
    BY <1>1, <1>3, <1>7, <2>1, <2>2, NextCvInv, ZenonT(40)
<1> QED
  BY <1>6, <1>9, <1>10

\* A search that is given up leaves the theoretical voltages.
LEMMA GiveUpInv ==
  ASSUME TunerInv, mode = "tuning", NEW t \in 0 .. MaxFailures + 3 - timeoutCount,
         timeoutCount + t >= MaxFailures,
         missed' = [missed EXCEPT ![cv][octave] = @ + t],
         GiveUp(timeoutCount + t), UNCHANGED shown
  PROVE  TunerInv'
<1> DEFINE count == timeoutCount + t
           m == [missed[cv] EXCEPT ![octave] = count]
           T == tunes[cv]
<1>1. /\ TunerTypeOK /\ SearchInv /\ cv \in Cvs /\ octave \in Measured(cv) /\ octave \in Octaves
      /\ MaxFailures \in 1 .. 200 /\ timeoutCount \in Nat
  <2>1. MaxFailures \in 1 .. 200
    BY SearchAssumption
  <2>2. cv \in Cvs /\ octave \in Measured(cv) /\ octave \in Octaves /\ timeoutCount \in Nat
    BY OctaveFacts DEF TunerInv, SearchInv, TunerTypeOK
  <2> QED
    BY <2>1, <2>2 DEF TunerInv
<1>2. count \in 0 .. MaxFailures + 3 /\ count \in 0 .. 255 /\ count # 0
  BY <1>1, SMTT(40)
<1>3. /\ missed' = [missed EXCEPT ![cv] = m] /\ m \in [Octaves -> 0 .. MaxFailures + 3]
      /\ m[octave] # 0 /\ \A o \in Octaves : o # octave => m[o] = missed[cv][o]
  <2>1. missed \in [Cvs -> [Octaves -> 0 .. MaxFailures + 3]] /\ missed[cv][octave] = timeoutCount
    BY <1>1 DEF TunerTypeOK, SearchInv
  <2>2. missed' = [missed EXCEPT ![cv] = m]
    BY <1>1, <2>1
  <2>3. m \in [Octaves -> 0 .. MaxFailures + 3]
    BY <1>1, <1>2, <2>1
  <2> QED
    BY <1>1, <1>2, <2>1, <2>2, <2>3
<1>4. T \in [Octaves -> Voltages]
  BY <1>1 DEF TunerTypeOK
<1>5. NextCv(T, count)
  BY DEF GiveUp
<1>6. ASSUME NEW o \in Measured(cv)
      PROVE  \/ m[o] < MaxFailures /\ (m[o] = 0 => Distance(T[o], Pitch[cv][o]) <= Nearest)
             \/ T[o] = Theory(cv)[o] /\ \E j \in Octaves : m[j] # 0
  <2>1. o \in Octaves /\ o \in Int /\ octave \in Int
    BY <1>1, OctaveFacts DEF Measured
  <2>2. CASE o < octave
    <3>1. m[o] = missed[cv][o]
      BY <1>3, <2>1, <2>2
    <3> HIDE DEF m
    <3> QED
      BY <1>1, <2>2, <3>1 DEF SearchInv, Octavewise, Searched, Tuned
  <2>3. CASE o >= octave
    <3>1. T[o] = Theory(cv)[o]
      BY <1>1, <2>3 DEF SearchInv, Octavewise
    <3> HIDE DEF m, T
    <3> QED
      BY <1>1, <1>3, <3>1
  <2> QED
    BY <2>1, <2>2, <2>3
<1> HIDE DEF m, T, count
<1> QED
  BY <1>2, <1>3, <1>4, <1>5, <1>6, NextCvInv

LEMMA TuningInv ==
  ASSUME TunerInv, Tuning
  PROVE  TunerInv'
<1>1. mode = "tuning"
  BY DEF Tuning, SkipMeasurement, Measure
<1>2. /\ TunerTypeOK /\ SearchInv /\ cv \in Cvs /\ octave \in Measured(cv)
      /\ timeoutCount \in Nat /\ timeoutCount < MaxFailures /\ MaxFailures \in 1 .. 200
      /\ estimate \in Int /\ Pitch[cv][octave] \in Int
      /\ FloorOf(cv) \in Int /\ FloorOf(cv) < Pitch[cv][octave]
      /\ missed = [missed EXCEPT ![cv][octave] = @ + 0]
  <2>1. TunerTypeOK /\ SearchInv /\ cv \in Cvs /\ octave \in Measured(cv) /\ timeoutCount \in Nat
        /\ timeoutCount < MaxFailures
    BY <1>1 DEF TunerInv, SearchInv, TunerTypeOK
  <2>2. MaxFailures \in 1 .. 200 /\ Size \in Nat
    BY SearchAssumption, SizeFacts
  <2>3. estimate \in Int
    BY <2>1, <2>2 DEF TunerTypeOK, Voltages
  <2>4. /\ Pitch[cv][octave] \in Int /\ FloorOf(cv) \in Int /\ FloorOf(cv) < Pitch[cv][octave]
    BY <2>1, <2>2, PitchFacts, OctaveFacts DEF Voltages
  <2>5. missed = [missed EXCEPT ![cv][octave] = @ + 0]
    <3>1. octave \in Octaves /\ missed \in [Cvs -> [Octaves -> 0 .. MaxFailures + 3]]
      BY <2>1, OctaveFacts DEF TunerTypeOK
    <3>2. missed[cv] \in [Octaves -> 0 .. MaxFailures + 3] /\ missed[cv][octave] + 0 = missed[cv][octave]
      BY <2>1, <2>2, <3>1
    <3>3. [missed[cv] EXCEPT ![octave] = missed[cv][octave]] = missed[cv]
      BY <3>2
    <3> QED
      BY <3>1, <3>2, <3>3
  <2> QED
    BY <2>1, <2>2, <2>3, <2>4, <2>5
<1>3. CASE SkipMeasurement
  <2>1. Adjust(TRUE, timeoutCount) /\ UNCHANGED shown /\ missed' = missed /\ estimate <= FloorOf(cv)
    BY <1>3 DEF SkipMeasurement
  <2>2. timeoutCount + 0 = timeoutCount /\ estimate < Pitch[cv][octave]
    BY <1>2, <2>1
  <2>3. Adjust(TRUE, timeoutCount + 0) /\ missed' = [missed EXCEPT ![cv][octave] = @ + 0]
    BY <1>2, <2>1, <2>2
  <2> QED
    BY <1>1, <1>2, <2>1, <2>2, <2>3, AdjustInv
<1>4. CASE Measure
  <2>1. PICK t \in Missable(cv, timeoutCount, 2^(octave - Precision)) :
          LET count == timeoutCount + t IN
          /\ missed' = [missed EXCEPT ![cv][octave] = @ + t]
          /\ IF Untunable(count) THEN GiveUp(count)
             ELSE \E long \in IF t = 0 THEN {estimate < Pitch[cv][octave]} ELSE BOOLEAN :
                    Adjust(long, count)
    BY <1>4 DEF Measure
  <2>2. t \in 0 .. MaxFailures + 3 - timeoutCount
    BY <1>2 DEF Missable
  <2>3. UNCHANGED shown
    BY <1>4 DEF Measure
  <2>4. CASE Untunable(timeoutCount + t)
    BY <1>1, <2>1, <2>2, <2>3, <2>4, GiveUpInv DEF Untunable
  <2>5. CASE ~Untunable(timeoutCount + t)
    <3>1. timeoutCount + t < MaxFailures /\ t \in Nat
      BY <1>2, <2>2, <2>5 DEF Untunable
    <3>2. PICK long \in IF t = 0 THEN {estimate < Pitch[cv][octave]} ELSE BOOLEAN : Adjust(long, timeoutCount + t)
      BY <2>1, <2>5
    <3>3. long \in BOOLEAN /\ (t = 0 => (long <=> estimate < Pitch[cv][octave]))
      <4>1. CASE t = 0
        <5>1. long = (estimate < Pitch[cv][octave])
          BY <3>2, <4>1
        <5>2. (estimate < Pitch[cv][octave]) \in BOOLEAN
          OBVIOUS
        <5>3. long \in BOOLEAN
          BY <5>1, <5>2, Zenon
        <5> QED
          BY <5>1, <5>3
      <4>2. CASE t # 0
        BY <3>2, <4>2
      <4> QED
        BY <4>1, <4>2
    <3> QED
      BY <1>1, <2>1, <2>3, <3>1, <3>2, <3>3, AdjustInv
  <2> QED
    BY <2>4, <2>5
<1> QED
  BY <1>3, <1>4 DEF Tuning

LEMMA ScalingInv ==
  ASSUME TunerInv, Scaling
  PROVE  TunerInv'
<1>1. mode = "scaling" /\ mode' = "scaling" /\ UNCHANGED <<octave, step, estimate, tunes, missed>>
  BY DEF Scaling, ScalingRound, ScalingSelect, searchVars
<1>2. cv' \in Cvs
  <2>1. CvCount \in Nat \ {0} /\ cv \in Cvs
    BY <1>1, CvsAssumption DEF TunerInv
  <2>2. (cv + 1) % CvCount \in 0 .. CvCount - 1 /\ (cv - 1) % CvCount \in 0 .. CvCount - 1
    BY <2>1, ModRange DEF Cvs
  <2> QED
    BY <2>1, <2>2 DEF Scaling, ScalingRound, ScalingSelect, searchVars, Cvs
<1>3. timeoutCount' \in 0 .. 255 /\ shown' \in BOOLEAN
  <2>1. CASE ScalingSelect
    BY <2>1 DEF ScalingSelect, TunerInv, TunerTypeOK
  <2>2. CASE ScalingRound
    <3>1. PICK low \in Missable(cv, timeoutCount, 8) :
            LET afterLow == (timeoutCount + low) % 256 IN
            \E high \in Missable(cv, afterLow, 128) :
              LET afterHigh == (afterLow + high) % 256 IN
              /\ timeoutCount' = afterHigh
              /\ shown' = IF Untunable(afterHigh) THEN Untunable(afterLow)
                          ELSE ~Untunable(afterLow) /\ cv \in Scaled
      BY <2>2 DEF ScalingRound
    <3> DEFINE afterLow == (timeoutCount + low) % 256
    <3>2. PICK high \in Missable(cv, afterLow, 128) :
            /\ timeoutCount' = (afterLow + high) % 256
            /\ shown' = IF Untunable((afterLow + high) % 256) THEN Untunable(afterLow)
                        ELSE ~Untunable(afterLow) /\ cv \in Scaled
      BY <3>1
    <3>3. low \in Int /\ high \in Int
      <4>1. ASSUME NEW count \in Int, NEW periods PROVE Missable(cv, count, periods) \subseteq Int
        BY SearchAssumption DEF Missable
      <4>2. timeoutCount \in Int
        BY DEF TunerInv, TunerTypeOK
      <4>3. low \in Int
        BY <4>1, <4>2
      <4>4. afterLow \in Int
        BY <4>2, <4>3
      <4> HIDE DEF afterLow
      <4> QED
        BY <4>1, <4>3, <4>4
    <3>4. timeoutCount' \in 0 .. 255
      <4>1. timeoutCount \in Int
        BY DEF TunerInv, TunerTypeOK
      <4>2. afterLow \in Int
        BY <3>3, <4>1
      <4> HIDE DEF afterLow
      <4> QED
        BY <3>2, <3>3, <4>2
    <3>5. shown' \in BOOLEAN
      <4> HIDE DEF afterLow
      <4>1. Untunable(afterLow) \in BOOLEAN /\ (~Untunable(afterLow) /\ cv \in Scaled) \in BOOLEAN
        BY DEF Untunable
      <4>2. shown' = Untunable(afterLow) \/ shown' = (~Untunable(afterLow) /\ cv \in Scaled)
        BY <3>2
      <4> QED
        BY <4>1, <4>2, Zenon
    <3> QED
      BY <3>4, <3>5
  <2> QED
    BY <2>1, <2>2 DEF Scaling
<1>4. TunerTypeOK'
  BY <1>1, <1>2, <1>3, CvsAssumption DEF TunerInv, TunerTypeOK, Cvs
<1> QED
  BY <1>1, <1>2, <1>4 DEF TunerInv

LEMMA TunerInvInit == TunerInit => TunerInv
<1> SUFFICES ASSUME TunerInit PROVE TunerInv
  OBVIOUS
<1>1. 0 \in Cvs /\ CvCount \in Nat \ {0} /\ MaxFailures \in Nat /\ LowOf(0) \in Octaves
  <2>1. 0 \in Cvs /\ CvCount \in Nat \ {0} /\ MaxFailures \in Nat
    BY CvsAssumption, SearchAssumption DEF Cvs
  <2> QED
    BY <2>1, OctaveFacts
<1>2. TunerTypeOK
  <2>1. tunes \in [Cvs -> [Octaves -> Voltages]]
    BY OctaveFacts DEF TunerInit
  <2>2. missed \in [Cvs -> [Octaves -> 0 .. MaxFailures + 3]]
    BY <1>1 DEF TunerInit, NoneMissed
  <2>3. cv \in 0 .. CvCount /\ octave \in Octaves /\ timeoutCount \in 0 .. 255
    BY <1>1 DEF TunerInit
  <2>4. step \in 0 .. Steps - 1 /\ estimate \in Voltages
    BY SizeFacts DEF TunerInit
  <2>5. mode \in {"idle", "tuning", "scaling"} /\ shown \in BOOLEAN
    BY DEF TunerInit
  <2> QED
    BY <2>1, <2>2, <2>3, <2>4, <2>5 DEF TunerTypeOK
<1>3. cv = 0 /\ mode # "tuning"
  BY DEF TunerInit
<1> QED
  BY <1>1, <1>2, <1>3 DEF TunerInv

LEMMA TunerInvKept ==
  ASSUME TunerInv, [AllNext]_allVars
  PROVE  TunerInv'
<1>1. Tune \/ Tuning \/ Scaling \/ UNCHANGED tunerVars
  BY DEF AllNext, Hands, KeysScanned, AllScanned, Unseen, TunerSteps, ScalingSteps, allVars
<1>2. CASE UNCHANGED tunerVars
  BY <1>2 DEF tunerVars, searchVars, TunerInv, TunerTypeOK, SearchInv, Halving, Bit, Octavewise, Searched,
              Untouched, Finished, Result, InTune, Tuned
<1> QED
  BY <1>1, <1>2, TuneInv, TuningInv, ScalingInv

LEMMA AlwaysTunerInv == AllSpec => []TunerInv
<1>1. AllInit => TunerInv
  BY TunerInvInit DEF AllInit
<1>2. TunerInv /\ [AllNext]_allVars => TunerInv'
  BY TunerInvKept
<1> QED
  BY <1>1, <1>2, PTL DEF AllSpec

\* The search keeps to the voltages and the octaves, and is given up before the
\* 8 bits that count its timeouts wrap.
THEOREM TunerKeepsTypes == AllSpec => []TunerTypeOK
<1>1. TunerInv => TunerTypeOK
  BY DEF TunerInv
<1> QED
  BY <1>1, AlwaysTunerInv, PTL

\* Whatever times out, each octave that was measured is at its pitch by the last
\* bit of the DAC, or was disturbed by timeouts that were tolerated, or is left
\* at its theoretical voltage.
THEOREM TunerTunedOrTheory == AllSpec => []TunedOrTheory
<1>1. TunerInv => TunedOrTheory
  BY DEF TunerInv, Finished, Result, TunedOrTheory
<1> QED
  BY <1>1, AlwaysTunerInv, PTL

\* A voltage without a timeout is in tune and rises from octave to octave, those
\* included that are extrapolated in 16 bits, whatever failed before it.
THEOREM TunerHealthyTuned == AllSpec => []HealthyTuned
<1>1. TunerInv => HealthyTuned
  BY DEF TunerInv, Finished, InTune, HealthyTuned
<1> QED
  BY <1>1, AlwaysTunerInv, PTL

-----------------------------------------------------------------------------
(* What of TunesOncePerPress is no liveness: a tuning has a press of its own *)
(* that starts it, and it comes nearer to its end with each of its steps.    *)

\* A tuning starts at an event of TUNE that goes down, with the button down; until it has
\* ended there is no other event.
TuningsPressed ==
  [][/\ mode = "idle" /\ mode' # "idle" =>
          /\ mode' = "tuning"
          /\ ~reported[TuneContact] /\ reported'[TuneContact] /\ position[TuneContact]
     /\ mode = "tuning" => reported' = reported
     /\ mode = "scaling" => mode' = "scaling"]_allVars

\* A tuning goes on to the next bit, the next octave or the next voltage, or is over.
TuningAdvances ==
  [][mode = "tuning" =>
       \/ UNCHANGED tunerVars
       \/ mode' = "idle"
       \/ mode' = "tuning" /\ cv < cv'
       \/ mode' = "tuning" /\ cv' = cv /\ octave < octave'
       \/ mode' = "tuning" /\ cv' = cv /\ octave' = octave /\ step < step']_allVars

\* TUNE's event starts the tuning inside the scan (ui.c, scanner.c): no bounce does, no finger
\* that rests on the button, and each tuning has a press that no tuning before it had, for
\* TUNE was last reported released.
THEOREM TuneButtonTuningsPressed == AllSpec => TuningsPressed
<1>1. ASSUME TunerInv, [AllNext]_allVars,
             reported'[TuneContact] # reported[TuneContact] => reported'[TuneContact] = position[TuneContact],
             \A c \in Contacts : reported[c] \in BOOLEAN
      PROVE  /\ mode = "idle" /\ mode' # "idle" =>
                  /\ mode' = "tuning"
                  /\ ~reported[TuneContact] /\ reported'[TuneContact] /\ position[TuneContact]
             /\ mode = "tuning" => reported' = reported
             /\ mode = "scaling" => mode' = "scaling"
  <2>1. CASE AllScanned
    <3>1. mode = "idle"
      BY <2>1 DEF AllScanned, Scans
    <3>2. CASE Tunes(Contacts)
      <4>1. mode' = "tuning"
        BY <2>1, <3>2 DEF AllScanned, Tune
      <4>2. TuneContact \in Contacts /\ contact[TuneContact] /\ contact[TuneContact] # reported[TuneContact]
        BY <3>2, TuneContactAssumption DEF Tunes, Changed, Contacts
      <4>3. reported'[TuneContact] = contact[TuneContact]
        BY <2>1, <3>2, <4>2 DEF AllScanned, ScanAll, Scan, Tunes
      <4>4. position[TuneContact] /\ ~reported[TuneContact] /\ reported'[TuneContact]
        BY <1>1, <4>2, <4>3
      <4> QED
        BY <3>1, <4>1, <4>4
    <3>3. CASE ~Tunes(Contacts)
      <4>1. mode' = mode
        BY <2>1, <3>3 DEF AllScanned, tunerVars
      <4> QED
        BY <3>1, <4>1
    <3> QED
      BY <3>2, <3>3
  <2>2. CASE Hands \/ KeysScanned
    <3>1. mode' = mode
      BY <2>2 DEF Hands, KeysScanned, tunerVars
    <3>2. reported' = reported \/ mode = "idle"
      BY <2>2 DEF Hands, Move, Bounces, KeysScanned, Scans
    <3> QED
      BY <3>1, <3>2
  <2>3. CASE Unseen
    <3>1. mode' = mode /\ reported' = reported
      BY <2>3 DEF Unseen, Settle, tunerVars
    <3> QED
      BY <3>1
  <2>4. CASE TunerSteps
    <3>1. mode = "tuning" /\ reported' = reported
      BY <2>4 DEF TunerSteps, Tuning, SkipMeasurement, Measure, vars
    <3> QED
      BY <3>1
  <2>5. CASE ScalingSteps
    <3>1. mode = "scaling" /\ mode' = "scaling"
      BY <2>5 DEF ScalingSteps, Scaling, ScalingRound, ScalingSelect
    <3> QED
      BY <3>1
  <2>6. CASE UNCHANGED allVars
    BY <2>6 DEF allVars, vars, tunerVars
  <2> QED
    BY <1>1, <2>1, <2>2, <2>3, <2>4, <2>5, <2>6 DEF AllNext
<1>2. TuneContact \in Contacts
  BY TuneContactAssumption DEF Contacts
<1>3. TypeOK => \A c \in Contacts : reported[c] \in BOOLEAN
  BY DEF TypeOK
<1>4. [\A c \in Contacts : reported'[c] # reported[c] => reported'[c] = position[c]]_vars
      => (reported'[TuneContact] # reported[TuneContact] => reported'[TuneContact] = position[TuneContact])
  BY <1>2 DEF vars
<1>5. TunerInv /\ TypeOK /\ [AllNext]_allVars
      /\ [\A c \in Contacts : reported'[c] # reported[c] => reported'[c] = position[c]]_vars
      => [/\ mode = "idle" /\ mode' # "idle" =>
                  /\ mode' = "tuning"
                  /\ ~reported[TuneContact] /\ reported'[TuneContact] /\ position[TuneContact]
          /\ mode = "tuning" => reported' = reported
          /\ mode = "scaling" => mode' = "scaling"]_allVars
  BY <1>1, <1>3, <1>4
<1>6. AllSpec => []TypeOK
  BY TuneButtonScans, ScannerTypeOK, PTL
<1> QED
  BY <1>5, <1>6, AlwaysTunerInv, TuneButtonOneEventPerMove, PTL DEF AllSpec, TuningsPressed, OneEventPerMove

\* The search for a voltage never goes back (tuneOffset, tuneCV, tuner_tuneSynth): whatever
\* times out, a tuning has no more steps than there are bits of octaves of voltages.
THEOREM TuneButtonTuningAdvances == AllSpec => TuningAdvances
<1> DEFINE Further ==
      \/ UNCHANGED tunerVars
      \/ mode' = "idle"
      \/ mode' = "tuning" /\ cv < cv'
      \/ mode' = "tuning" /\ cv' = cv /\ octave < octave'
      \/ mode' = "tuning" /\ cv' = cv /\ octave' = octave /\ step < step'
<1>1. ASSUME TunerInv, mode = "tuning", [AllNext]_allVars PROVE Further
  <2>1. cv \in Nat /\ octave \in Nat /\ step \in Nat
    BY <1>1, CvsAssumption, OctavesAssumption, SizeFacts DEF TunerInv, TunerTypeOK, Octaves
  <2>2. ASSUME NEW t, NEW count, NextCv(t, count) PROVE Further
    <3>1. CASE cv + 1 \in Cvs
      <4>1. cv' = cv + 1 /\ mode' = mode
        BY <2>2, <3>1 DEF NextCv, Search
      <4> QED
        BY <1>1, <2>1, <4>1
    <3>2. CASE cv + 1 \notin Cvs
      BY <2>2, <3>2 DEF NextCv
    <3> QED
      BY <3>1, <3>2
  <2>3. ASSUME NEW long, NEW count, Adjust(long, count) PROVE Further
    <3>1. CASE step < Steps - 1
      <4>1. step' = step + 1 /\ mode' = mode /\ cv' = cv /\ octave' = octave
        BY <2>3, <3>1 DEF Adjust
      <4> QED
        BY <1>1, <2>1, <4>1
    <3>2. CASE ~(step < Steps - 1) /\ octave < HighOf(cv)
      <4>1. cv' = cv /\ octave' = octave + 1 /\ mode' = mode
        BY <2>3, <3>2 DEF Adjust, Search
      <4> QED
        BY <1>1, <2>1, <4>1
    <3>3. CASE ~(step < Steps - 1) /\ ~(octave < HighOf(cv))
      <4>1. NextCv([tunes[cv] EXCEPT ![octave] = Adjusted(long)], count)
        BY <2>3, <3>3 DEF Adjust
      <4> QED
        BY <2>2, <4>1
    <3> QED
      BY <3>1, <3>2, <3>3
  <2>4. CASE TunerSteps
    <3>1. CASE SkipMeasurement
      <4>1. Adjust(TRUE, timeoutCount)
        BY <3>1 DEF SkipMeasurement
      <4> QED
        BY <2>3, <4>1
    <3>2. CASE Measure
      <4>1. PICK t \in Missable(cv, timeoutCount, 2^(octave - Precision)) :
              IF Untunable(timeoutCount + t) THEN GiveUp(timeoutCount + t)
              ELSE \E long \in IF t = 0 THEN {estimate < Pitch[cv][octave]} ELSE BOOLEAN :
                     Adjust(long, timeoutCount + t)
        BY <3>2 DEF Measure
      <4>2. (\E s, n : NextCv(s, n)) \/ (\E l, n : Adjust(l, n))
        BY <4>1 DEF GiveUp
      <4> QED
        BY <2>2, <2>3, <4>2
    <3> QED
      BY <2>4, <3>1, <3>2 DEF TunerSteps, Tuning
  <2>5. CASE ~TunerSteps
    <3>1. UNCHANGED tunerVars
      BY <1>1, <2>5 DEF AllNext, Hands, KeysScanned, AllScanned, Scans, Unseen, ScalingSteps, Scaling,
         ScalingRound, ScalingSelect, allVars
    <3> QED
      BY <3>1
  <2> QED
    BY <2>4, <2>5
<1>2. TunerInv /\ [AllNext]_allVars => [mode = "tuning" => Further]_allVars
  BY <1>1
<1> QED
  BY <1>2, AlwaysTunerInv, PTL DEF AllSpec, TuningAdvances

-----------------------------------------------------------------------------
(* What of EachMoveReported is no liveness: how many scans a move waits for  *)
(* its event.                                                                *)

\* Scans that a contact still bounces for or is not looked at.
Waiting(c) == IF bounce[c] > timeout[c] THEN bounce[c] ELSE timeout[c]

\* A key or button that moved stays there until it is reported, and each scan of it reports
\* it or leaves it fewer scans to wait, the first at most the longer of bounce and timeout.
ReportedInTime ==
  [][\A c \in Contacts : reported[c] # position[c] =>
       /\ position'[c] = position[c]
       /\ \/ reported'[c] = position[c]
          \/ /\ Waiting(c)' <= Waiting(c)
             /\ ScanAll \/ (ScanKeys /\ c \in Keys) => Waiting(c)' < Waiting(c)]_vars

LEMMA ScanNearsReport ==
  ASSUME IInv, NEW S \in SUBSET Contacts, Scan(S), NEW c \in Contacts, reported[c] # position[c]
  PROVE  \/ reported'[c] = position[c]
         \/ Waiting(c)' <= Waiting(c) /\ (c \in S => Waiting(c)' < Waiting(c))
<1>1. /\ timeout[c] \in Nat /\ bounce[c] \in Nat /\ Settled(c)
      /\ {contact[c], reported[c], position[c]} \subseteq BOOLEAN
  BY TimeoutAssumption, BounceAssumption DEF IInv, TypeOK
<1>2. CASE c \in Changed(S)
  <2>1. reported'[c] = contact[c]
    BY <1>2 DEF Scan
  <2> QED BY <1>2, <2>1, ChangedToPosition
<1>3. CASE c \notin Changed(S)
  <2>1. /\ timeout'[c] = IF c \in S /\ timeout[c] > 0 THEN timeout[c] - 1 ELSE timeout[c]
        /\ bounce'[c] = IF c \in S /\ bounce[c] > 0 THEN bounce[c] - 1 ELSE bounce[c]
    BY <1>3 DEF Scan, Timeouts
  <2>2. c \in S => timeout[c] > 0 \/ bounce[c] > 0
    <3> SUFFICES ASSUME c \in S, timeout[c] = 0, bounce[c] = 0 PROVE FALSE
      BY <1>1
    <3>1. contact[c] = position[c]
      BY <1>1 DEF Settled
    <3> QED BY <1>3, <3>1 DEF Changed
  <2> QED BY <1>1, <2>1, <2>2 DEF Waiting
<1> QED
  BY <1>2, <1>3

\* A move is reported within MaxBounce or DebounceTimeout scans of its contact, whichever is
\* more, and one more (scanner_update), also when tunings hold up scans in between: a
\* debounce timeout left from the move before never makes it wait twice.
THEOREM TuneButtonReportedInTime == AllSpec => ReportedInTime
<1>1. ASSUME IInv, [Next]_vars, NEW c \in Contacts, reported[c] # position[c]
      PROVE  /\ position'[c] = position[c]
             /\ \/ reported'[c] = position[c]
                \/ /\ Waiting(c)' <= Waiting(c)
                   /\ ScanAll \/ (ScanKeys /\ c \in Keys) => Waiting(c)' < Waiting(c)
  <2>0. /\ timeout[c] \in Nat /\ bounce[c] \in Nat /\ position \in [Contacts -> BOOLEAN]
        /\ bounce \in [Contacts -> 0 .. MaxBounce] /\ MaxBounce \in Nat
    BY <1>1, TimeoutAssumption, BounceAssumption DEF IInv, TypeOK
  <2>1. ASSUME NEW S \in SUBSET Contacts, Scan(S), ScanAll \/ (ScanKeys /\ c \in Keys) => c \in S
        PROVE  /\ position'[c] = position[c]
               /\ \/ reported'[c] = position[c]
                  \/ /\ Waiting(c)' <= Waiting(c)
                     /\ ScanAll \/ (ScanKeys /\ c \in Keys) => Waiting(c)' < Waiting(c)
    <3>1. position'[c] = position[c]
      BY <2>1 DEF Scan
    <3> QED BY <1>1, <2>1, <3>1, ScanNearsReport
  <2>2. CASE ScanAll
    BY <2>1, <2>2 DEF ScanAll
  <2>3. CASE ScanKeys /\ ~ScanAll
    BY <2>1, <2>3 DEF ScanKeys, Contacts
  <2>4. CASE ~ScanAll /\ ~ScanKeys
    <3>1. timeout' = timeout /\ reported' = reported /\ position'[c] = position[c] /\ bounce'[c] <= bounce[c]
      <4>1. ASSUME NEW d \in Contacts, Move(d)
            PROVE  /\ timeout' = timeout /\ reported' = reported
                   /\ position'[c] = position[c] /\ bounce'[c] = bounce[c]
        BY <1>1, <2>0, <4>1 DEF Move
      <4>2. ASSUME NEW d \in Contacts, Bounces(d)
            PROVE  UNCHANGED <<timeout, reported, position, bounce>>
        BY <4>2 DEF Bounces, handVars
      <4>3. ASSUME NEW d \in Contacts, Settle(d)
            PROVE  /\ timeout' = timeout /\ reported' = reported /\ position' = position
                   /\ bounce'[c] <= bounce[c]
        BY <2>0, <4>3 DEF Settle
      <4>4. UNCHANGED vars => UNCHANGED <<timeout, reported, position, bounce>>
        BY DEF vars, handVars
      <4>5. bounce[c] <= bounce[c]
        BY <2>0
      <4> QED BY <1>1, <2>4, <4>1, <4>2, <4>3, <4>4, <4>5 DEF Next
    <3>2. bounce'[c] \in Nat
      <4>1. IInv'
        BY <1>1, NextIInv
      <4> QED BY <2>0, <4>1 DEF IInv, TypeOK
    <3> QED BY <2>0, <2>4, <3>1, <3>2 DEF Waiting
  <2> QED BY <2>2, <2>3, <2>4
<1>2. IInv /\ [Next]_vars =>
        [\A c \in Contacts : reported[c] # position[c] =>
           /\ position'[c] = position[c]
           /\ \/ reported'[c] = position[c]
              \/ /\ Waiting(c)' <= Waiting(c)
                 /\ ScanAll \/ (ScanKeys /\ c \in Keys) => Waiting(c)' < Waiting(c)]_vars
  BY <1>1
<1>3. Spec => ReportedInTime
  BY <1>2, AlwaysIInv, PTL DEF Spec, ReportedInTime
<1> QED
  BY <1>3, TuneButtonScans, PTL
=============================================================================
