----------------------------- MODULE SeqProofs -----------------------------
(***************************************************************************)
(* Theorems about Seq, for tracks of any length, any keys, transpositions  *)
(* and stored sequences. What a recording counts and the room it keeps     *)
(* hold whatever is done with keys down; that the sequences stay well      *)
(* formed, that the track goes silent and that no loop runs for ever need  *)
(* the keys to be up when a recording ends and when a step is erased.      *)
(***************************************************************************)
EXTENDS Seq, FiniteSetTheorems, SequenceTheorems, WellFoundedInduction, TLAPS

\* The keys are those of the keyboard and above, and one track records at a
\* time.
OneRecorder == Keys \subseteq Nat /\ "both" \notin Stimuli

\* Besides, no key is down when a recording ends or a step is erased.
KeysUp == "stale" \notin Stimuli /\ "edit" \notin Stimuli

-----------------------------------------------------------------------------
(* Events and positions *)

\* Where the events that begin a step are.
Heads(ev) == {i \in DOMAIN ev : ~ev[i].cont}

LEMMA EventParts ==
  \A e \in Event : /\ e.kind \in {"note", "rest", "tie"}
                   /\ e.note \in 0 .. 63 /\ e.cont \in BOOLEAN
BY DEF Event

LEMMA EventsMade ==
  /\ Rest \in Event /\ Tie \in Event
  /\ Rest.kind = "rest" /\ Tie.kind = "tie" /\ ~Rest.cont /\ ~Tie.cont
BY DEF Rest, Tie, Event

LEMMA NoteMade ==
  ASSUME NEW n \in 0 .. 63, NEW c \in BOOLEAN
  PROVE  Note(n, c) \in Event /\ Note(n, c).kind = "note" /\ Note(n, c).cont = c
BY DEF Note, Event

LEMMA CodedTyped == ASSUME NEW k \in Keys PROVE k \in Int /\ Coded(k) \in 0 .. 63
BY KeysAssumption DEF Coded

\* Positions go round once at most: what the remainder does to them.
LEMMA ModRange ==
  ASSUME NEW n \in Nat \ {0}, NEW x \in Int
  PROVE  x % n \in 0 .. n - 1
OBVIOUS

LEMMA ModInside ==
  ASSUME NEW n \in Nat \ {0}, NEW x \in 0 .. n - 1
  PROVE  x % n = x
OBVIOUS

LEMMA ModAbove ==
  ASSUME NEW n \in Nat \ {0}, NEW x \in 0 .. n - 1
  PROVE  (x + n) % n = x
OBVIOUS

\* From any position, some number of events further is any other.
LEMMA Reaches ==
  ASSUME NEW n \in Nat \ {0}, NEW x \in 0 .. n - 1, NEW y \in 0 .. n - 1
  PROVE  \E d \in 1 .. n : (x + d) % n = y
<1>1. CASE x < y
  <2>1. y - x \in 1 .. n /\ x + (y - x) = y
    BY <1>1
  <2> QED
    BY <2>1, ModInside
<1>2. CASE ~(x < y)
  <2>1. y - x + n \in 1 .. n /\ x + (y - x + n) = y + n
    BY <1>2
  <2> QED
    BY <2>1, ModAbove
<1> QED
  BY <1>1, <1>2

LEMMA NextPosition ==
  ASSUME NEW n \in Nat \ {0}, NEW x \in 0 .. n - 1
  PROVE  (x + 1) % n = IF x = n - 1 THEN 0 ELSE x + 1
<1>1. CASE x = n - 1
  <2>1. x + 1 = 0 + n /\ 0 \in 0 .. n - 1
    BY <1>1
  <2>2. (0 + n) % n = 0
    BY <2>1, ModAbove
  <2> QED
    BY <1>1, <2>1, <2>2
<1>2. CASE x # n - 1
  <2>1. x + 1 \in 0 .. n - 1
    BY <1>2
  <2> QED
    BY <1>2, <2>1, ModInside
<1> QED
  BY <1>1, <1>2

LEMMA LenTyped ==
  ASSUME NEW ev \in Seq(Event)
  PROVE  /\ Len(ev) \in Nat /\ DOMAIN ev = 1 .. Len(ev)
         /\ ev # <<>> => Len(ev) \in Nat \ {0}
         /\ \A j \in 1 .. Len(ev) : ev[j] \in Event
BY EmptySeq, LenProperties, ElementOfSeq

LEMMA AtTyped ==
  ASSUME NEW ev \in Seq(Event), ev # <<>>, NEW i \in Int
  PROVE  At(ev, i) \in Event
<1>1. Len(ev) \in Nat \ {0}
  BY LenTyped
<1> DEFINE p == i % Len(ev)
<1>2. p \in 0 .. Len(ev) - 1
  BY <1>1, ModRange
<1>3. At(ev, i) = ev[p + 1]
  BY DEF At
<1> HIDE DEF p
<1>4. p + 1 \in 1 .. Len(ev)
  BY <1>1, <1>2
<1> QED
  BY <1>3, <1>4, LenTyped

LEMMA AtInside ==
  ASSUME NEW ev \in Seq(Event), NEW i \in 0 .. Len(ev) - 1
  PROVE  At(ev, i) = ev[i + 1]
<1>1. Len(ev) \in Nat
  BY LenTyped
<1>2. Len(ev) \in Nat \ {0}
  BY <1>1
<1>3. i % Len(ev) = i
  BY <1>2, ModInside
<1> QED
  BY <1>3 DEF At

\* A set of positive numbers with an element has a smallest one: a loop over
\* the continuations of a step ends with the first event that is none.
LEMMA SmallestExists ==
  ASSUME NEW S \in SUBSET Nat, S # {}
  PROVE  \E v \in S : \A w \in S : v <= w
<1>1. PICK v \in S : \A w \in S : ~(<<w, v>> \in OpToRel(<, Nat))
  BY NatLessThanWellFounded, WFMin
<1>2. \A w \in S : ~(w < v)
  BY <1>1 DEF OpToRel
<1>3. \A w \in S : v <= w
  BY <1>2
<1> QED
  BY <1>3

\* The same from the end of the track.
LEMMA LastExists ==
  ASSUME NEW n \in Nat, NEW S \in SUBSET (1 .. n), S # {}
  PROVE  \E v \in S : \A w \in S : w <= v
<1> DEFINE Mirror == {n - v : v \in S}
<1>1. \A v \in S : v \in Int /\ n - v \in Nat
  OBVIOUS
<1>2. Mirror \in SUBSET Nat /\ Mirror # {}
  BY <1>1
<1>3. PICK m \in Mirror : \A w \in Mirror : m <= w
  BY <1>2, SmallestExists
<1>4. PICK v \in S : m = n - v
  BY <1>3
<1>5. \A w \in S : n - v <= n - w
  BY <1>3, <1>4
<1>6. \A w \in S : w <= v
  BY <1>1, <1>5
<1> QED
  BY <1>6

\* The number of events of a step: the first that is no continuation comes
\* after them, going round once at most.
LEMMA StepLengthDef ==
  ASSUME NEW ev \in Seq(Event), NEW i \in 0 .. Len(ev) - 1, ~Endless(ev)
  PROVE  /\ StepLength(ev, i) \in 1 .. Len(ev)
         /\ ~At(ev, i + StepLength(ev, i)).cont
         /\ \A c \in 1 .. StepLength(ev, i) - 1 : At(ev, i + c).cont
<1>1. ev # <<>> /\ Len(ev) \in Nat \ {0} /\ DOMAIN ev = 1 .. Len(ev)
  BY LenTyped DEF Endless
<1>2. PICK h \in 1 .. Len(ev) : ~ev[h].cont
  BY <1>1 DEF Endless
<1> DEFINE Ends == {d \in 1 .. Len(ev) : ~At(ev, i + d).cont}
<1>3. \E d \in 1 .. Len(ev) : (i + d) % Len(ev) = h - 1
  <2>1. h - 1 \in 0 .. Len(ev) - 1
    BY <1>1, <1>2
  <2> QED
    BY <1>1, <2>1, Reaches
<1>4. Ends # {}
  <2>1. PICK d \in 1 .. Len(ev) : (i + d) % Len(ev) = h - 1
    BY <1>3
  <2>2. At(ev, i + d) = ev[h - 1 + 1] /\ h - 1 + 1 = h
    BY <2>1, <1>2 DEF At
  <2> QED
    BY <1>2, <2>1, <2>2
<1>5. Ends \in SUBSET Nat /\ Ends \subseteq 1 .. Len(ev)
  BY <1>1
<1>6. PICK d \in Ends : \A c \in Ends : d <= c
  BY <1>4, <1>5, SmallestExists
<1>7. d \in 1 .. Len(ev) /\ ~At(ev, i + d).cont
  BY <1>6
<1>8. \A c \in 1 .. d - 1 : At(ev, i + c).cont
  <2> TAKE c \in 1 .. d - 1
  <2>1. c \in 1 .. Len(ev) /\ ~(d <= c)
    BY <1>7, <1>1
  <2> QED
    BY <2>1, <1>6
<1> HIDE DEF Ends
<1>9. \E x \in 1 .. Len(ev) : ~At(ev, i + x).cont /\ \A c \in 1 .. x - 1 : At(ev, i + c).cont
  BY <1>7, <1>8
<1> QED
  BY <1>9 DEF StepLength

\* The step after a step is in the track.
LEMMA StepEnds ==
  ASSUME NEW ev \in Seq(Event), NEW i \in 0 .. Len(ev) - 1, ~Endless(ev)
  PROVE  (i + StepLength(ev, i)) % Len(ev) \in 0 .. Len(ev) - 1
<1>1. Len(ev) \in Nat \ {0} /\ StepLength(ev, i) \in Nat
  BY LenTyped, StepLengthDef DEF Endless
<1>2. i + StepLength(ev, i) \in Int
  BY <1>1
<1> QED
  BY <1>1, <1>2, ModRange

\* A rest or a tie is a step of one event, in a well formed sequence, and it
\* has no notes.
LEMMA SingleStep ==
  ASSUME NEW ev \in Seq(Event), WellFormed(ev), NEW i \in 0 .. Len(ev) - 1,
         At(ev, i).kind # "note", ~Endless(ev)
  PROVE  StepNotes(ev, i) = {}
<1>1. Len(ev) \in Nat \ {0} /\ DOMAIN ev = 1 .. Len(ev)
  BY LenTyped DEF Endless
<1>2. At(ev, i) = ev[i + 1]
  BY AtInside, ZenonT(30)
<1>3. (i + 1) % Len(ev) = IF i = Len(ev) - 1 THEN 0 ELSE i + 1
  BY <1>1, NextPosition
<1>4. ~At(ev, i + 1).cont
  <2>1. CASE i = Len(ev) - 1
    <3>1. At(ev, i + 1) = ev[1]
      BY <1>3, <2>1 DEF At
    <3>2. ~ev[1].cont
      BY <1>1 DEF WellFormed
    <3> QED
      BY <3>1, <3>2
  <2>2. CASE i # Len(ev) - 1
    <3>1. At(ev, i + 1) = ev[i + 1 + 1]
      BY <1>3, <2>2 DEF At
    <3>2. i + 2 \in 1 .. Len(ev)
      <4>1. \A n \in Nat \ {0} : \A j \in 0 .. n - 1 : j # n - 1 => j + 2 \in 1 .. n
        OBVIOUS
      <4> QED
        BY <1>1, <2>2, <4>1, ZenonT(30)
    <3>3. ev[i + 2].cont => ev[i + 2 - 1].kind = "note"
      BY <1>1, <3>2 DEF WellFormed
    <3>4. i + 1 + 1 = i + 2 /\ i + 2 - 1 = i + 1
      OBVIOUS
    <3> QED
      BY <1>2, <3>1, <3>3, <3>4
  <2> QED
    BY <2>1, <2>2
<1>5. StepLength(ev, i) = 1
  <2>1. StepLength(ev, i) \in 1 .. Len(ev)
        /\ \A c \in 1 .. StepLength(ev, i) - 1 : At(ev, i + c).cont
    BY StepLengthDef
  <2>2. StepLength(ev, i) > 1 => 1 \in 1 .. StepLength(ev, i) - 1
    BY <2>1
  <2> QED
    BY <1>1, <1>4, <2>1, <2>2
<1>6. 0 .. StepLength(ev, i) - 1 = {0}
  BY <1>5
<1>7. i + 0 = i
  OBVIOUS
<1>8. {d \in 0 .. StepLength(ev, i) - 1 : At(ev, i + d).kind = "note"} = {}
  BY <1>6, <1>7
<1> QED
  BY <1>8 DEF StepNotes

\* The notes of a step are six bits.
LEMMA StepNotesTyped ==
  ASSUME NEW ev \in Seq(Event), NEW i \in 0 .. Len(ev) - 1, ~Endless(ev)
  PROVE  StepNotes(ev, i) \subseteq 0 .. 63
<1>1. ev # <<>> /\ Len(ev) \in Nat
  BY LenTyped DEF Endless
<1>2. StepLength(ev, i) \in 1 .. Len(ev)
  BY StepLengthDef
<1>3. \A d \in 0 .. StepLength(ev, i) - 1 : i + d \in Int
  BY <1>1, <1>2
<1>4. \A d \in 0 .. StepLength(ev, i) - 1 : At(ev, i + d).note \in 0 .. 63
  BY <1>1, <1>3, AtTyped, EventParts
<1> QED
  BY <1>4 DEF StepNotes

\* A well formed sequence begins with an event that is no continuation, so
\* its steps end.
LEMMA WellFormedEnds ==
  ASSUME NEW ev \in Seq(Event), ev # <<>>, WellFormed(ev)
  PROVE  ~Endless(ev)
<1>1. 1 \in DOMAIN ev
  BY EmptySeq, LenProperties
<1>2. ~ev[1].cont
  BY <1>1 DEF WellFormed
<1> QED
  BY <1>1, <1>2 DEF Endless

-----------------------------------------------------------------------------
(* What recording does to a sequence: how many steps it has, and whether it *)
(* stays well formed                                                        *)

\* A sequence has no more steps than events.
LEMMA StepsTyped ==
  ASSUME NEW ev \in Seq(Event)
  PROVE  /\ IsFiniteSet(Heads(ev)) /\ Heads(ev) \subseteq 1 .. Len(ev)
         /\ Steps(ev) = Cardinality(Heads(ev))
         /\ Steps(ev) \in 0 .. Len(ev)
         /\ Steps(ev) > 0 => Heads(ev) # {}
<1>1. Len(ev) \in Nat /\ DOMAIN ev = 1 .. Len(ev)
  BY LenTyped
<1>2. IsFiniteSet(1 .. Len(ev)) /\ Cardinality(1 .. Len(ev)) = Len(ev)
  BY <1>1, FS_Interval
<1>3. Heads(ev) \in SUBSET (1 .. Len(ev))
  BY <1>1 DEF Heads
<1>4. IsFiniteSet(Heads(ev)) /\ Cardinality(Heads(ev)) <= Len(ev)
  BY <1>2, <1>3, FS_Subset
<1>5. Cardinality(Heads(ev)) \in Nat /\ (Cardinality(Heads(ev)) = 0 <=> Heads(ev) = {})
  BY <1>4, FS_CardinalityType, FS_EmptySet
<1>6. Steps(ev) = Cardinality(Heads(ev))
  BY DEF Steps, Heads
<1> QED
  BY <1>1, <1>3, <1>4, <1>5, <1>6

\* An event that is added is a step, unless it is a continuation.
LEMMA AppendSteps ==
  ASSUME NEW ev \in Seq(Event), NEW e \in Event
  PROVE  /\ ev \o <<e>> \in Seq(Event) /\ Append(ev, e) = ev \o <<e>>
         /\ Len(ev \o <<e>>) = Len(ev) + 1
         /\ (ev \o <<e>>)[Len(ev) + 1] = e
         /\ \A i \in 1 .. Len(ev) : (ev \o <<e>>)[i] = ev[i]
         /\ Steps(ev \o <<e>>) = IF e.cont THEN Steps(ev) ELSE Steps(ev) + 1
<1> DEFINE longer == ev \o <<e>>
<1>1. longer \in Seq(Event) /\ Append(ev, e) = longer /\ Len(longer) = Len(ev) + 1
      /\ longer[Len(ev) + 1] = e /\ \A i \in 1 .. Len(ev) : longer[i] = ev[i]
  BY AppendProperties, AppendIsConcat
<1> HIDE DEF longer
<1>2. Len(ev) \in Nat /\ DOMAIN ev = 1 .. Len(ev) /\ DOMAIN longer = 1 .. Len(ev) + 1
  BY <1>1, LenTyped
<1>3. \A i \in 1 .. Len(ev) + 1 : i \in 1 .. Len(ev) \/ i = Len(ev) + 1
  BY <1>2
<1>4. Heads(longer) = IF e.cont THEN Heads(ev) ELSE Heads(ev) \cup {Len(ev) + 1}
  BY <1>1, <1>2, <1>3 DEF Heads
<1>5. Len(ev) + 1 \notin Heads(ev)
  BY <1>2 DEF Heads
<1>6. IsFiniteSet(Heads(ev))
  BY StepsTyped
<1>7. Cardinality(Heads(ev) \cup {Len(ev) + 1}) = Cardinality(Heads(ev)) + 1
  BY <1>5, <1>6, FS_AddElement
<1>8. Steps(longer) = IF e.cont THEN Steps(ev) ELSE Steps(ev) + 1
  BY <1>1, <1>4, <1>7, StepsTyped
<1> QED
  BY <1>1, <1>8 DEF longer

\* Each tie that is added is a step.
LEMMA TiesSteps ==
  ASSUME NEW ev \in Seq(Event), NEW n \in Nat
  PROVE  LET longer == ev \o [i \in 1 .. n |-> Tie] IN
         /\ longer \in Seq(Event) /\ Len(longer) = Len(ev) + n
         /\ \A i \in 1 .. Len(ev) : longer[i] = ev[i]
         /\ \A i \in Len(ev) + 1 .. Len(ev) + n : longer[i] = Tie
         /\ Steps(longer) = Steps(ev) + n
<1> DEFINE ties   == [i \in 1 .. n |-> Tie]
           longer == ev \o ties
           added  == Len(ev) + 1 .. Len(ev) + n
<1>1. ties \in Seq(Event) /\ Len(ties) = n
  <2>1. ties \in [1 .. n -> Event]
    BY EventsMade
  <2>2. ties \in Seq(Event)
    BY <2>1, SeqDef
  <2>3. DOMAIN ties = 1 .. n /\ DOMAIN ties = 1 .. Len(ties) /\ Len(ties) \in Nat
    BY <2>2, LenTyped
  <2> QED
    BY <2>2, <2>3
<1>2. \A i \in 1 .. n : ties[i] = Tie
  OBVIOUS
<1> HIDE DEF ties
<1>3. /\ longer \in Seq(Event) /\ Len(longer) = Len(ev) + n
      /\ \A i \in 1 .. Len(ev) + n : longer[i] = IF i <= Len(ev) THEN ev[i] ELSE ties[i - Len(ev)]
  BY <1>1, ConcatProperties
<1>4. Len(ev) \in Nat /\ DOMAIN ev = 1 .. Len(ev)
  BY LenTyped
<1> HIDE DEF longer
<1>5. \A i \in 1 .. Len(ev) : longer[i] = ev[i]
  <2>1. \A i \in 1 .. Len(ev) : i \in 1 .. Len(ev) + n /\ i <= Len(ev)
    BY <1>4
  <2> QED
    BY <1>3, <2>1
<1>6. \A i \in added : longer[i] = Tie
  <2>1. \A i \in added : i \in 1 .. Len(ev) + n /\ ~(i <= Len(ev)) /\ i - Len(ev) \in 1 .. n
    BY <1>4
  <2> QED
    BY <1>2, <1>3, <2>1
<1>7. Heads(longer) = Heads(ev) \cup added
  <2>1. DOMAIN longer = 1 .. Len(ev) + n
    BY <1>3, LenTyped
  <2>2. 1 .. Len(ev) + n = (1 .. Len(ev)) \cup added
    BY <1>4
  <2> HIDE DEF added
  <2> QED
    BY <1>4, <1>5, <1>6, <2>1, <2>2, EventsMade DEF Heads
<1>8. IsFiniteSet(added) /\ Cardinality(added) = n
  <2> DEFINE a == Len(ev) + 1
             b == Len(ev) + n
  <2>1. a \in Int /\ b \in Int /\ (a > b => n = 0) /\ b - a + 1 = n
    BY <1>4
  <2> HIDE DEF a, b
  <2>2. IsFiniteSet(a .. b) /\ Cardinality(a .. b) = IF a > b THEN 0 ELSE b - a + 1
    BY <2>1, FS_Interval
  <2>3. IsFiniteSet(a .. b) /\ Cardinality(a .. b) = n
    BY <2>1, <2>2
  <2> QED
    BY <2>3 DEF a, b
<1>9. Heads(ev) \cap added = {}
  <2>1. \A i \in 1 .. Len(ev) : i \notin added
    BY <1>4
  <2> QED
    BY <2>1, StepsTyped
<1> HIDE DEF added
<1>10. Cardinality(Heads(ev) \cup added) = Cardinality(Heads(ev)) + n
  <2>1. Cardinality(Heads(ev) \cap added) = 0 /\ IsFiniteSet(Heads(ev))
        /\ Cardinality(Heads(ev)) \in Nat
    BY <1>9, FS_EmptySet, StepsTyped, FS_CardinalityType
  <2>2. Cardinality(Heads(ev) \cup added)
          = Cardinality(Heads(ev)) + Cardinality(added) - Cardinality(Heads(ev) \cap added)
    BY <1>8, <2>1, FS_Union
  <2> QED
    BY <1>8, <2>1, <2>2
<1>11. Steps(longer) = Steps(ev) + n
  BY <1>3, <1>7, <1>10, StepsTyped
<1> QED
  BY <1>3, <1>5, <1>6, <1>11 DEF longer, ties, added

\* Undo takes away one step, and what is left is the start of the sequence.
LEMMA UndoSteps ==
  ASSUME NEW ev \in Seq(Event)
  PROVE  /\ WithoutLastStep(ev) \in Seq(Event)
         /\ Len(WithoutLastStep(ev)) <= Len(ev)
         /\ \A i \in 1 .. Len(WithoutLastStep(ev)) : WithoutLastStep(ev)[i] = ev[i]
         /\ Steps(ev) > 0 => Steps(WithoutLastStep(ev)) = Steps(ev) - 1
<1>1. Len(ev) \in Nat /\ DOMAIN ev = 1 .. Len(ev)
  BY LenTyped
<1>2. CASE Heads(ev) = {}
  <2>1. WithoutLastStep(ev) = <<>>
    BY <1>2 DEF WithoutLastStep, Heads
  <2>2. <<>> \in Seq(Event) /\ Len(<<>>) = 0
    BY EmptySeq
  <2>3. ~(Steps(ev) > 0)
    BY <1>2, StepsTyped
  <2> QED
    BY <1>1, <2>1, <2>2, <2>3
<1>3. CASE Heads(ev) # {}
  <2> DEFINE last == CHOOSE h \in Heads(ev) : \A i \in Heads(ev) : i <= h
             left == SubSeq(ev, 1, last - 1)
  <2>1. WithoutLastStep(ev) = left
    BY <1>3 DEF WithoutLastStep, Heads
  <2>2. last \in Heads(ev) /\ \A i \in Heads(ev) : i <= last
    <3>1. Heads(ev) \in SUBSET (1 .. Len(ev))
      BY StepsTyped
    <3>2. \E h \in Heads(ev) : \A i \in Heads(ev) : i <= h
      BY <1>1, <1>3, <3>1, LastExists
    <3> QED
      BY <3>2
  <2>3. last \in 1 .. Len(ev)
    BY <2>2, StepsTyped
  <2> HIDE DEF last
  <2>4. \A i \in 1 .. last - 1 : ev[i] \in Event
    BY <1>1, <2>3, LenTyped
  <2>5. left \in Seq(Event) /\ Len(left) = last - 1 /\ \A i \in 1 .. last - 1 : left[i] = ev[i]
    <3>1. 1 \in Int /\ last - 1 \in Int
      BY <2>3
    <3>2. /\ left \in Seq(Event) /\ Len(left) = IF 1 <= last - 1 THEN last - 1 - 1 + 1 ELSE 0
          /\ \A i \in 1 .. last - 1 - 1 + 1 : left[i] = ev[1 + i - 1]
      BY <2>4, <3>1, SubSeqProperties
    <3>3. last - 1 - 1 + 1 = last - 1 /\ \A i \in 1 .. last - 1 : 1 + i - 1 = i
      BY <2>3
    <3> QED
      BY <2>3, <3>2, <3>3
  <2> HIDE DEF left
  <2>6. DOMAIN left = 1 .. last - 1
    BY <2>5, LenTyped
  <2>7. Heads(left) = Heads(ev) \ {last}
    <3>1. \A i \in Heads(ev) \ {last} : i \in 1 .. last - 1
      <4> TAKE i \in Heads(ev) \ {last}
      <4>1. i \in 1 .. Len(ev) /\ i <= last /\ i # last
        BY <2>2, StepsTyped
      <4> QED
        BY <1>1, <2>3, <4>1
    <3>2. \A i \in 1 .. last - 1 : i \in 1 .. Len(ev) /\ i # last
      BY <1>1, <2>3
    <3> QED
      BY <1>1, <2>5, <2>6, <3>1, <3>2 DEF Heads
  <2>8. Cardinality(Heads(left)) = Cardinality(Heads(ev)) - 1
    BY <2>2, <2>7, StepsTyped, FS_RemoveElement
  <2>9. Steps(left) = Steps(ev) - 1
    BY <2>5, <2>8, StepsTyped
  <2>10. last - 1 <= Len(ev)
    BY <1>1, <2>3
  <2> QED
    BY <2>1, <2>5, <2>9, <2>10
<1> QED
  BY <1>2, <1>3

\* A sequence without its end is as well formed as it was.
LEMMA PrefixWellFormed ==
  ASSUME NEW ev \in Seq(Event), WellFormed(ev), NEW pre \in Seq(Event),
         Len(pre) <= Len(ev), \A i \in 1 .. Len(pre) : pre[i] = ev[i]
  PROVE  WellFormed(pre)
<1>1. /\ Len(ev) \in Nat /\ DOMAIN ev = 1 .. Len(ev)
      /\ Len(pre) \in Nat /\ DOMAIN pre = 1 .. Len(pre)
  BY LenTyped
<1> SUFFICES ASSUME NEW i \in 1 .. Len(pre), pre[i].cont
             PROVE  pre[i].kind = "note" /\ i > 1 /\ pre[i - 1].kind = "note"
  BY <1>1 DEF WellFormed
<1>2. i \in 1 .. Len(ev) /\ ev[i].cont
  BY <1>1
<1>3. ev[i].kind = "note" /\ i > 1 /\ ev[i - 1].kind = "note"
  BY <1>1, <1>2 DEF WellFormed
<1>4. i - 1 \in 1 .. Len(pre)
  BY <1>1, <1>3
<1> QED
  BY <1>3, <1>4

\* Events after the end keep it well formed if none is a continuation, or if
\* there is one note and the last event is a note.
LEMMA LongerWellFormed ==
  ASSUME NEW ev \in Seq(Event), WellFormed(ev), NEW longer \in Seq(Event),
         Len(ev) <= Len(longer), \A i \in 1 .. Len(ev) : longer[i] = ev[i],
         \A i \in Len(ev) + 1 .. Len(longer) :
           longer[i].cont => /\ longer[i].kind = "note" /\ i = Len(ev) + 1
                             /\ ev # <<>> /\ ev[Len(ev)].kind = "note"
  PROVE  WellFormed(longer)
<1>1. /\ Len(ev) \in Nat /\ DOMAIN ev = 1 .. Len(ev) /\ (ev # <<>> => Len(ev) > 0)
      /\ Len(longer) \in Nat /\ DOMAIN longer = 1 .. Len(longer)
  BY LenTyped
<1> SUFFICES ASSUME NEW i \in 1 .. Len(longer), longer[i].cont
             PROVE  longer[i].kind = "note" /\ i > 1 /\ longer[i - 1].kind = "note"
  BY <1>1 DEF WellFormed
<1>2. CASE i \in 1 .. Len(ev)
  <2>1. ev[i].kind = "note" /\ i > 1 /\ ev[i - 1].kind = "note"
    BY <1>1, <1>2 DEF WellFormed
  <2>2. i - 1 \in 1 .. Len(ev)
    BY <1>1, <1>2, <2>1
  <2> QED
    BY <1>2, <2>1, <2>2
<1>3. CASE i \in Len(ev) + 1 .. Len(longer)
  <2>1. longer[i].kind = "note" /\ i = Len(ev) + 1 /\ ev # <<>> /\ ev[Len(ev)].kind = "note"
    BY <1>3
  <2>2. i - 1 = Len(ev) /\ Len(ev) \in 1 .. Len(ev) /\ i > 1
    BY <1>1, <2>1
  <2>3. longer[i - 1] = ev[i - 1]
    BY <2>2
  <2> QED
    BY <2>1, <2>2, <2>3
<1> QED
  BY <1>1, <1>2, <1>3

-----------------------------------------------------------------------------
(* What recording counts, and the room it keeps for the ties                *)

RecordTyped ==
  /\ mode \in [Tracks -> Modes]
  /\ events \in [Tracks -> Seq(Event)]
  /\ \A t \in Tracks : Len(events[t]) <= MaxEvents
  /\ stepCount \in [Tracks -> 0 .. MaxEvents]
  /\ transpose \in Transposes
  /\ addTies \in 0 .. MaxEvents
  /\ noteOns \in 0 .. MaxNoteOns
  /\ keys \subseteq Keys

OneRecords == \A t, u \in Recording : t = u

RecordInv == RecordTyped /\ OneRecords /\ StepsCounted /\ TiesFit

LEMMA Constants ==
  /\ MaxEvents \in Nat \ {0} /\ MaxNoteOns \in Nat
  /\ Keys \subseteq Int /\ Transposes \subseteq Int /\ 0 \in Transposes
  /\ 0 \in Tracks /\ 1 \in Tracks /\ Tracks \subseteq Nat
BY EventsAssumption, KeysAssumption, TransposesAssumption DEF Tracks

\* The track that records is the only one.
LEMMA Alone ==
  ASSUME RecordInv, NEW r \in Recording
  PROVE  /\ r \in Tracks /\ Recording = {r} /\ Cardinality(Recording) = 1
         /\ Before(r) = {} /\ Cardinality(Before(r)) = 0
         /\ events[r] \in Seq(Event) /\ Len(events[r]) \in Nat
         /\ stepCount[r] = Steps(events[r]) + addTies
         /\ Len(events[r]) + addTies <= MaxEvents
         /\ Steps(events[r]) \in 0 .. Len(events[r])
<1>1. r \in Tracks
  BY DEF Recording
<1>2. Recording = {r}
  BY DEF RecordInv, OneRecords
<1>3. r \in Int
  BY <1>1, Constants
<1>4. ~(r < r)
  BY <1>3
<1>5. Before(r) = {}
  BY <1>2, <1>4 DEF Before
<1>6. Cardinality({}) = 0 /\ Cardinality({r}) = 1
  BY FS_EmptySet, FS_Singleton
<1>7. events[r] \in Seq(Event)
  BY <1>1 DEF RecordInv, RecordTyped
<1>8. stepCount[r] = Steps(events[r]) + addTies /\ Len(events[r]) + addTies <= MaxEvents
  BY DEF RecordInv, StepsCounted, TiesFit
<1> QED
  BY <1>1, <1>2, <1>5, <1>6, <1>7, <1>8, LenTyped, StepsTyped

LEMMA StoredSteps ==
  ASSUME RecordTyped, NEW t \in Tracks
  PROVE  Steps(events[t]) \in 0 .. MaxEvents
<1>1. events[t] \in Seq(Event) /\ Len(events[t]) <= MaxEvents
  BY DEF RecordTyped
<1>2. Steps(events[t]) \in 0 .. Len(events[t]) /\ Len(events[t]) \in Nat
  BY <1>1, StepsTyped, LenTyped
<1> QED
  BY <1>1, <1>2, Constants

LEMMA InitRecords == Init => RecordInv
<1> SUFFICES ASSUME Init PROVE RecordInv
  OBVIOUS
<1>1. Recording = {}
  BY DEF Init, Recording
<1>2. events \in [Tracks -> Stored]
  BY DEF Init
<1>3. \A t \in Tracks : events[t] \in Seq(Event) /\ Len(events[t]) <= MaxEvents
  BY <1>2, StoredAssumption
<1>4. events \in [Tracks -> Seq(Event)]
  BY <1>2, <1>3
<1>5. mode \in [Tracks -> Modes]
  BY DEF Init, Modes
<1>6. stepCount \in [Tracks -> 0 .. MaxEvents]
  BY Constants DEF Init
<1>7. transpose \in Transposes /\ addTies \in 0 .. MaxEvents /\ noteOns \in 0 .. MaxNoteOns
      /\ keys \subseteq Keys
  BY Constants DEF Init
<1> QED
  BY <1>1, <1>3, <1>4, <1>5, <1>6, <1>7 DEF RecordInv, RecordTyped, OneRecords, StepsCounted, TiesFit

\* A step that leaves the recording alone, or ends it, keeps what it counts.
LEMMA OthersRecord ==
  ASSUME RecordInv, mode' \in [Tracks -> Modes], Recording' \subseteq Recording,
         UNCHANGED <<events, addTies, noteOns>>,
         stepCount' \in [Tracks -> 0 .. MaxEvents],
         \A t \in Recording' : stepCount'[t] = stepCount[t],
         transpose' \in Transposes, keys' \subseteq Keys
  PROVE  RecordInv'
<1>1. RecordTyped'
  BY DEF RecordInv, RecordTyped
<1>2. OneRecords'
  BY DEF RecordInv, OneRecords
<1>3. StepsCounted' /\ TiesFit'
  BY DEF RecordInv, StepsCounted, TiesFit
<1> QED
  BY <1>1, <1>2, <1>3 DEF RecordInv

\* A step of the track that records, which leaves the modes alone.
LEMMA RecorderRecords ==
  ASSUME RecordInv, NEW r \in Recording, UNCHANGED <<transpose>>,
         mode' \in [Tracks -> Modes], Recording' = Recording, keys' \subseteq Keys,
         noteOns' \in 0 .. MaxNoteOns, addTies' \in 0 .. MaxEvents,
         NEW ev \in Seq(Event), Len(ev) + addTies' <= MaxEvents,
         NEW n \in 0 .. MaxEvents, n = Steps(ev) + addTies',
         events' = [t \in Tracks |-> IF t = r THEN ev ELSE events[t]],
         stepCount' = [t \in Tracks |-> IF t = r THEN n ELSE stepCount[t]]
  PROVE  RecordInv'
<1>1. r \in Tracks /\ Recording = {r}
  BY Alone
<1>2. /\ events \in [Tracks -> Seq(Event)] /\ stepCount \in [Tracks -> 0 .. MaxEvents]
      /\ \A t \in Tracks : Len(events[t]) <= MaxEvents
  BY DEF RecordInv, RecordTyped
<1>3. events' \in [Tracks -> Seq(Event)] /\ stepCount' \in [Tracks -> 0 .. MaxEvents]
  BY <1>2
<1>4. Len(ev) <= MaxEvents
  <2>1. Len(ev) \in Nat
    BY LenTyped
  <2> QED
    BY <2>1, Constants
<1>5. \A t \in Tracks : Len(events'[t]) <= MaxEvents
  BY <1>2, <1>4
<1>6. RecordTyped'
  BY <1>3, <1>5 DEF RecordInv, RecordTyped
<1>7. OneRecords'
  BY DEF RecordInv, OneRecords
<1>8. events'[r] = ev /\ stepCount'[r] = n
  BY <1>1
<1>9. StepsCounted' /\ TiesFit'
  BY <1>1, <1>8 DEF StepsCounted, TiesFit
<1> QED
  BY <1>6, <1>7, <1>9 DEF RecordInv

\* With no track recording, the buttons and keys of a recording change nothing
\* that is recorded.
LEMMA NobodyRecords ==
  ASSUME RecordInv, Recording = {}
  PROVE  Cardinality(Recording) = 0
BY FS_EmptySet

\* What a key adds: nothing, or one note for which there is space, which begins
\* a step if it is the first.
LEMMA AddedCases ==
  ASSUME RecordInv, OneRecorder, NEW r \in Recording, NEW k \in Keys
  PROVE  \/ Added(r, k) = <<>> /\ (noteOns = 0 => Len(events[r]) + addTies = MaxEvents)
         \/ /\ Added(r, k) = <<Note(Coded(k), noteOns # 0)>>
            /\ Len(events[r]) + addTies < MaxEvents
<1>1. Cardinality(Before(r)) = 0 /\ Len(events[r]) \in Nat /\ Len(events[r]) + addTies <= MaxEvents
  BY Alone
<1>2. noteOns \in Nat /\ addTies \in Nat
  BY Constants DEF RecordInv, RecordTyped
<1>3. (noteOns + Cardinality(Before(r)) = 0) <=> (noteOns = 0)
  BY <1>1, <1>2
<1>4. ~(k < 0)
  <2>1. k \in Nat
    BY DEF OneRecorder
  <2> QED
    BY <2>1
<1>5. ~SpaceAvail(r, addTies) => Len(events[r]) + addTies = MaxEvents
  BY <1>1, <1>2, Constants DEF SpaceAvail
<1>6. CASE ~SpaceAvail(r, addTies) \/ (~(noteOns = 0) /\ Known(r, k))
  <2>1. Added(r, k) = <<>>
    BY <1>3, <1>6 DEF Added
  <2> QED
    BY <1>5, <1>6, <2>1
<1>7. CASE ~(~SpaceAvail(r, addTies) \/ (~(noteOns = 0) /\ Known(r, k)))
  <2>1. Added(r, k) = <<Note(Coded(k), ~(noteOns = 0) \/ k < 0)>>
    BY <1>3, <1>7 DEF Added
  <2>2. (~(noteOns = 0) \/ k < 0) = (noteOns # 0)
    BY <1>4
  <2> QED
    BY <1>7, <2>1, <2>2 DEF SpaceAvail
<1> QED
  BY <1>6, <1>7

\* What each input does to the track that records.

LEMMA ModesPlaying ==
  ASSUME RecordInv, NEW S \in SUBSET Tracks, NEW early \in SUBSET Tracks,
         StartPlaying(S, early)
  PROVE  /\ mode' \in [Tracks -> Modes] /\ Recording' = Recording \ S
         /\ \A t \in Tracks : mode'[t] = IF t \in S THEN "playing" ELSE mode[t]
<1>1. mode \in [Tracks -> Modes]
  BY DEF RecordInv, RecordTyped
<1>2. mode' = [t \in Tracks |-> IF t \in S THEN "playing" ELSE mode[t]]
  BY DEF StartPlaying
<1>3. "playing" \in Modes /\ "playing" # "recording"
  BY DEF Modes
<1> QED
  BY <1>1, <1>2, <1>3 DEF Recording

LEMMA PressRecorded ==
  ASSUME RecordInv, NEW r \in Recording, NEW k \in Keys, NEW early \in SUBSET Tracks,
         KeyPress(k, early)
  PROVE  /\ mode' \in [Tracks -> Modes] /\ Recording' = Recording
         /\ noteOns' = noteOns + 1 /\ noteOns + 1 <= MaxNoteOns
         /\ keys' = keys \cup {k} /\ k \notin keys
         /\ UNCHANGED <<transpose, addTies>>
         /\ events' = [t \in Tracks |->
              IF t = r THEN events[r] \o Added(r, k) ELSE events[t]]
         /\ stepCount' = [t \in Tracks |->
              IF t = r THEN IF Added(r, k) # <<>> /\ noteOns = 0 THEN stepCount[r] + 1
                            ELSE stepCount[r]
              ELSE stepCount[t]]
<1> DEFINE waiting == {t \in Tracks : mode[t] = "waiting"}
<1>1. Recording = {r} /\ Cardinality(Recording) = 1 /\ Cardinality(Before(r)) = 0
  BY Alone
<1>2. StartPlaying(waiting, early) /\ waiting \in SUBSET Tracks
  BY DEF KeyPress
<1>3. Recording \ waiting = Recording
  BY DEF Recording
<1>4. mode' \in [Tracks -> Modes] /\ Recording' = Recording
  BY <1>2, <1>3, ModesPlaying
<1>5. noteOns' = noteOns + 1 /\ noteOns + 1 <= MaxNoteOns /\ keys' = keys \cup {k} /\ k \notin keys
      /\ UNCHANGED <<transpose, addTies>>
  BY <1>1 DEF KeyPress
<1>6. noteOns \in Nat
  BY Constants DEF RecordInv, RecordTyped
<1>7. (noteOns + Cardinality(Before(r)) = 0) <=> (noteOns = 0)
  BY <1>1, <1>6
<1>8. events' = [t \in Tracks |->
         IF t \in Recording THEN events[t] \o Added(t, k) ELSE events[t]]
      /\ stepCount' = [t \in Tracks |->
           IF /\ t \in Recording /\ Added(t, k) # <<>>
              /\ noteOns + Cardinality(Before(t)) = 0
           THEN stepCount[t] + 1 ELSE stepCount[t]]
  BY DEF KeyPress
<1>9. events' = [t \in Tracks |-> IF t = r THEN events[r] \o Added(r, k) ELSE events[t]]
  BY <1>1, <1>8
<1>10. \A t \in Tracks :
         (t \in Recording /\ Added(t, k) # <<>> /\ noteOns + Cardinality(Before(t)) = 0)
           <=> (t = r /\ Added(r, k) # <<>> /\ noteOns = 0)
  BY <1>1, <1>7
<1>11. stepCount' = [t \in Tracks |->
         IF t = r THEN IF Added(r, k) # <<>> /\ noteOns = 0 THEN stepCount[r] + 1
                       ELSE stepCount[r]
         ELSE stepCount[t]]
  BY <1>8, <1>10
<1> QED
  BY <1>4, <1>5, <1>9, <1>11

LEMMA PressRecords ==
  ASSUME RecordInv, OneRecorder, NEW r \in Recording, NEW k \in Keys,
         NEW early \in SUBSET Tracks, KeyPress(k, early)
  PROVE  RecordInv'
<1> DEFINE ev == events[r] \o Added(r, k)
           n  == IF Added(r, k) # <<>> /\ noteOns = 0 THEN stepCount[r] + 1 ELSE stepCount[r]
<1>1. /\ events[r] \in Seq(Event) /\ stepCount[r] = Steps(events[r]) + addTies
      /\ Len(events[r]) \in Nat /\ Len(events[r]) + addTies <= MaxEvents
      /\ Steps(events[r]) \in 0 .. Len(events[r]) /\ r \in Tracks
  BY Alone
<1>2. noteOns \in 0 .. MaxNoteOns /\ addTies \in 0 .. MaxEvents
  BY DEF RecordInv, RecordTyped
<1>3. /\ ev \in Seq(Event) /\ Len(ev) + addTies <= MaxEvents
      /\ n \in 0 .. MaxEvents /\ n = Steps(ev) + addTies
  <2>1. CASE Added(r, k) = <<>>
    <3>1. ev = events[r]
      BY <1>1, <2>1, ConcatEmptySeq
    <3>2. n = stepCount[r]
      BY <2>1
    <3> HIDE DEF ev, n
    <3> QED
      BY <1>1, <1>2, <3>1, <3>2, Constants
  <2>2. CASE /\ Added(r, k) = <<Note(Coded(k), noteOns # 0)>>
             /\ Len(events[r]) + addTies < MaxEvents
    <3> DEFINE e == Note(Coded(k), noteOns # 0)
    <3>1. Coded(k) \in 0 .. 63 /\ (noteOns # 0) \in BOOLEAN
      BY CodedTyped
    <3>2. e \in Event /\ e.cont = (noteOns # 0)
      BY <3>1, NoteMade
    <3> HIDE DEF e
    <3>3. ev = events[r] \o <<e>>
      BY <2>2 DEF e
    <3>4. <<e>> # <<>>
      OBVIOUS
    <3>5. n = IF noteOns = 0 THEN stepCount[r] + 1 ELSE stepCount[r]
      BY <2>2, <3>4 DEF e
    <3>6. ev \in Seq(Event) /\ Len(ev) = Len(events[r]) + 1
          /\ Steps(ev) = IF e.cont THEN Steps(events[r]) ELSE Steps(events[r]) + 1
      BY <1>1, <3>2, <3>3, AppendSteps
    <3>7. Steps(ev) = IF noteOns = 0 THEN Steps(events[r]) + 1 ELSE Steps(events[r])
      BY <3>2, <3>6
    <3>8. Len(ev) = Len(events[r]) + 1 /\ ev \in Seq(Event)
      BY <3>6
    <3>9. Steps(events[r]) \in Nat /\ addTies \in Nat /\ MaxEvents \in Nat
      BY <1>1, <1>2, Constants
    <3> HIDE DEF ev, n
    <3>10. Len(ev) + addTies <= MaxEvents
      BY <1>1, <2>2, <3>8, <3>9
    <3>11. n = Steps(ev) + addTies /\ n \in Nat
      BY <1>1, <3>5, <3>7, <3>9
    <3>12. n <= MaxEvents
      BY <1>1, <2>2, <3>5, <3>9
    <3> QED
      BY <3>8, <3>9, <3>10, <3>11, <3>12
  <2> QED
    BY <2>1, <2>2, AddedCases
<1>4. /\ mode' \in [Tracks -> Modes] /\ Recording' = Recording
      /\ noteOns' = noteOns + 1 /\ noteOns + 1 <= MaxNoteOns /\ keys' = keys \cup {k}
      /\ UNCHANGED <<transpose, addTies>>
      /\ events' = [t \in Tracks |-> IF t = r THEN ev ELSE events[t]]
      /\ stepCount' = [t \in Tracks |-> IF t = r THEN n ELSE stepCount[t]]
  BY PressRecorded
<1> HIDE DEF ev, n
<1>5. noteOns' \in 0 .. MaxNoteOns /\ addTies' = addTies /\ keys' \subseteq Keys /\ UNCHANGED transpose
  BY <1>2, <1>4, Constants DEF RecordInv, RecordTyped
<1>6. Len(ev) + addTies' <= MaxEvents /\ n = Steps(ev) + addTies' /\ addTies' \in 0 .. MaxEvents
  BY <1>2, <1>3, <1>5
<1> QED
  BY <1>3, <1>4, <1>5, <1>6, RecorderRecords

\* The key that goes up last leaves the pending ties behind it.
LEMMA ReleaseRecorded ==
  ASSUME RecordInv, NEW r \in Recording, NEW k \in Keys, KeyRelease(k)
  PROVE  /\ UNCHANGED <<mode, stepCount, transpose>> /\ dead' = dead
         /\ keys' = keys \ {k} /\ k \in keys
         /\ noteOns' = IF noteOns > 1 THEN noteOns - 1 ELSE 0
         /\ addTies' = IF noteOns > 1 THEN addTies ELSE 0
         /\ events' = [t \in Tracks |->
              IF t = r THEN IF noteOns > 1 THEN events[r]
                            ELSE events[r] \o [i \in 1 .. addTies |-> Tie]
              ELSE events[t]]
<1> DEFINE left(t) == noteOns - Cardinality(Before(t)) - 1
           tied    == {t \in Recording : left(t) <= 0 /\ \A u \in Before(t) : left(u) > 0}
<1>1. Recording = {r} /\ Cardinality(Recording) = 1 /\ Cardinality(Before(r)) = 0
      /\ Before(r) = {} /\ Len(events[r]) + addTies <= MaxEvents /\ Len(events[r]) \in Nat
  BY Alone
<1>2. noteOns \in Nat /\ addTies \in Nat /\ r \in Tracks /\ events \in [Tracks -> Seq(Event)]
  BY Alone, Constants DEF RecordInv, RecordTyped
<1>3. left(r) = noteOns - 1
  BY <1>1, <1>2
<1>4. tied = IF noteOns > 1 THEN {} ELSE {r}
  <2>1. tied = {t \in {r} : left(t) <= 0 /\ \A u \in Before(t) : left(u) > 0}
    BY <1>1
  <2> HIDE DEF left
  <2>2. (left(r) <= 0) <=> ~(noteOns > 1)
    BY <1>2, <1>3
  <2> QED
    BY <1>1, <2>1, <2>2
<1>5. /\ k \in keys /\ keys' = keys \ {k}
      /\ noteOns' = IF noteOns > Cardinality(Recording) THEN noteOns - Cardinality(Recording) ELSE
                    IF Recording = {} THEN noteOns ELSE 0
      /\ UNCHANGED <<mode, positionVars, stepCount, transpose>>
  BY DEF KeyRelease
<1>6. IF \E t \in tied : Len(events[t]) + addTies > MaxEvents
      THEN dead' = TRUE /\ UNCHANGED <<events, addTies>>
      ELSE /\ events' = [t \in Tracks |->
                IF t \in tied THEN events[t] \o [i \in 1 .. addTies |-> Tie] ELSE events[t]]
           /\ addTies' = IF tied = {} THEN addTies ELSE 0
           /\ UNCHANGED dead
  BY DEF KeyRelease
<1> HIDE DEF tied
<1>7. ~ \E t \in tied : Len(events[t]) + addTies > MaxEvents
  <2>1. ~(Len(events[r]) + addTies > MaxEvents)
    BY <1>1, <1>2, Constants
  <2> QED
    BY <1>4, <2>1
<1>8. /\ events' = [t \in Tracks |->
           IF t \in tied THEN events[t] \o [i \in 1 .. addTies |-> Tie] ELSE events[t]]
      /\ addTies' = IF tied = {} THEN addTies ELSE 0
      /\ dead' = dead
  BY <1>6, <1>7
<1>9. addTies' = IF noteOns > 1 THEN addTies ELSE 0
  BY <1>4, <1>8
<1>10. events' = [t \in Tracks |->
         IF t = r THEN IF noteOns > 1 THEN events[r]
                       ELSE events[r] \o [i \in 1 .. addTies |-> Tie]
         ELSE events[t]]
  BY <1>4, <1>8
<1>11. noteOns' = IF noteOns > 1 THEN noteOns - 1 ELSE 0
  BY <1>1, <1>5
<1> QED
  BY <1>5, <1>8, <1>9, <1>10, <1>11

LEMMA ReleaseRecords ==
  ASSUME RecordInv, NEW r \in Recording, NEW k \in Keys, KeyRelease(k)
  PROVE  RecordInv'
<1> DEFINE longer == events[r] \o [i \in 1 .. addTies |-> Tie]
           ev     == IF noteOns > 1 THEN events[r] ELSE longer
           ties   == IF noteOns > 1 THEN addTies ELSE 0
           n      == stepCount[r]
<1>1. /\ events[r] \in Seq(Event) /\ stepCount[r] = Steps(events[r]) + addTies
      /\ Len(events[r]) \in Nat /\ Len(events[r]) + addTies <= MaxEvents
      /\ Steps(events[r]) \in 0 .. Len(events[r]) /\ r \in Tracks
  BY Alone
<1>2. noteOns \in 0 .. MaxNoteOns /\ addTies \in 0 .. MaxEvents
  BY DEF RecordInv, RecordTyped
<1>3. /\ UNCHANGED <<mode, stepCount, transpose>> /\ keys' = keys \ {k}
      /\ noteOns' = IF noteOns > 1 THEN noteOns - 1 ELSE 0
      /\ addTies' = ties
      /\ events' = [t \in Tracks |-> IF t = r THEN ev ELSE events[t]]
  BY ReleaseRecorded
<1>4. longer \in Seq(Event) /\ Len(longer) = Len(events[r]) + addTies
      /\ Steps(longer) = Steps(events[r]) + addTies
  <2>1. addTies \in Nat
    BY <1>2, Constants
  <2> QED
    BY <1>1, <2>1, TiesSteps
<1> HIDE DEF longer
<1>5. ev \in Seq(Event) /\ Len(ev) + ties <= MaxEvents /\ n = Steps(ev) + ties
      /\ n \in 0 .. MaxEvents /\ ties \in 0 .. MaxEvents
  BY <1>1, <1>2, <1>4, Constants
<1>6. stepCount \in [Tracks -> 0 .. MaxEvents] /\ mode \in [Tracks -> Modes] /\ keys \subseteq Keys
  BY DEF RecordInv, RecordTyped
<1>7. stepCount' = [t \in Tracks |-> IF t = r THEN n ELSE stepCount[t]]
  BY <1>3, <1>6
<1> HIDE DEF ev, ties, n
<1>8. mode' \in [Tracks -> Modes] /\ Recording' = Recording /\ keys' \subseteq Keys
      /\ UNCHANGED transpose
  BY <1>3, <1>6 DEF Recording
<1>9. noteOns' \in 0 .. MaxNoteOns
  BY <1>2, <1>3, Constants
<1>10. Len(ev) + addTies' <= MaxEvents /\ n = Steps(ev) + addTies' /\ addTies' \in 0 .. MaxEvents
  BY <1>3, <1>5
<1>11. events' = [t \in Tracks |-> IF t = r THEN ev ELSE events[t]]
  BY <1>3
<1> QED
  BY <1>5, <1>7, <1>8, <1>9, <1>10, <1>11, RecorderRecords

LEMMA ClearRecords ==
  ASSUME RecordInv, NEW r \in Recording, Clear
  PROVE  RecordInv'
<1>1. /\ events' = [t \in Tracks |-> IF t \in Recording THEN <<>> ELSE events[t]]
      /\ stepCount' = [t \in Tracks |-> IF t \in Recording THEN 0 ELSE stepCount[t]]
      /\ addTies' = 0 /\ UNCHANGED <<mode, transpose, noteOns, keys>>
  BY DEF Clear, positionVars
<1>2. Recording = {r}
  BY Alone
<1>3. /\ events' = [t \in Tracks |-> IF t = r THEN <<>> ELSE events[t]]
      /\ stepCount' = [t \in Tracks |-> IF t = r THEN 0 ELSE stepCount[t]]
  BY <1>1, <1>2
<1>4. <<>> \in Seq(Event) /\ Len(<<>>) = 0
  BY EmptySeq
<1> DEFINE ev == <<>>
           n  == 0
<1>5. ev \in Seq(Event) /\ Len(ev) = 0 /\ Steps(ev) = 0
  <2>1. ev \in Seq(Event) /\ Len(ev) = 0
    BY <1>4
  <2> HIDE DEF ev
  <2>2. Steps(ev) \in 0 .. Len(ev)
    BY <2>1, StepsTyped
  <2> QED
    BY <2>1, <2>2
<1>6. mode' \in [Tracks -> Modes] /\ Recording' = Recording /\ keys' \subseteq Keys
      /\ noteOns' \in 0 .. MaxNoteOns
  BY <1>1 DEF Recording, RecordInv, RecordTyped
<1>8. events' = [t \in Tracks |-> IF t = r THEN ev ELSE events[t]]
  BY <1>3
<1> HIDE DEF ev
<1>7. n \in 0 .. MaxEvents /\ Len(ev) + addTies' <= MaxEvents /\ n = Steps(ev) + addTies'
      /\ addTies' \in 0 .. MaxEvents
  BY <1>1, <1>5, Constants
<1>9. stepCount' = [t \in Tracks |-> IF t = r THEN n ELSE stepCount[t]] /\ UNCHANGED transpose
  BY <1>1, <1>3
<1> HIDE DEF n
<1> QED
  BY <1>5, <1>6, <1>7, <1>8, <1>9, RecorderRecords

\* Undo takes a pending tie, or else the last step.
LEMMA UndoRecorded ==
  ASSUME RecordInv, NEW r \in Recording, Undo
  PROVE  /\ UNCHANGED <<mode, transpose, noteOns, keys>>
         /\ keys # {} /\ addTies = 0 => "edit" \in Stimuli
         /\ addTies' = IF stepCount[r] > 0 /\ addTies > 0 THEN addTies - 1 ELSE addTies
         /\ events' = [t \in Tracks |->
              IF t = r THEN IF stepCount[r] > 0 /\ addTies = 0 THEN WithoutLastStep(events[r])
                            ELSE events[r]
              ELSE events[t]]
         /\ stepCount' = [t \in Tracks |->
              IF t = r THEN IF stepCount[r] > 0 THEN stepCount[r] - 1 ELSE stepCount[r]
              ELSE stepCount[t]]
<1> DEFINE tiesAt(t) == addTies - Cardinality(Undoable \cap Before(t))
<1>1. Recording = {r} /\ Before(r) = {} /\ r \in Tracks
  BY Alone
<1>2. addTies \in Nat /\ events \in [Tracks -> Seq(Event)] /\ stepCount \in [Tracks -> 0 .. MaxEvents]
  BY Constants DEF RecordInv, RecordTyped
<1>3. Undoable = IF stepCount[r] > 0 THEN {r} ELSE {}
  BY <1>1 DEF Undoable
<1>4. Cardinality(Undoable \cap Before(r)) = 0
  <2>1. Undoable \cap Before(r) = {}
    BY <1>1
  <2> QED
    BY <2>1, FS_EmptySet
<1>5. Cardinality({r}) = 1
  BY FS_Singleton
<1>6. tiesAt(r) = addTies
  BY <1>2, <1>4
<1>7. /\ stepCount' = [t \in Tracks |-> IF t \in Undoable THEN stepCount[t] - 1 ELSE stepCount[t]]
      /\ events' = [t \in Tracks |->
           IF t \in Undoable /\ tiesAt(t) <= 0 THEN WithoutLastStep(events[t]) ELSE events[t]]
      /\ addTies' = IF addTies > Cardinality(Undoable) THEN addTies - Cardinality(Undoable) ELSE
                    IF Undoable = {} THEN addTies ELSE 0
      /\ UNCHANGED <<mode, transpose, noteOns, keys>>
      /\ keys # {} /\ addTies = 0 => "edit" \in Stimuli
  BY DEF Undo
<1> HIDE DEF tiesAt
<1>8. addTies' = IF stepCount[r] > 0 /\ addTies > 0 THEN addTies - 1 ELSE addTies
  <2>1. CASE stepCount[r] > 0
    <3>1. Undoable = {r} /\ Undoable # {} /\ Cardinality(Undoable) = 1
      BY <1>3, <1>5, <2>1
    <3>2. addTies' = IF addTies > 1 THEN addTies - 1 ELSE 0
      BY <1>7, <3>1
    <3> QED
      BY <1>2, <2>1, <3>2
  <2>2. CASE ~(stepCount[r] > 0)
    <3>1. Undoable = {} /\ Cardinality(Undoable) = 0
      BY <1>3, <2>2, FS_EmptySet
    <3>2. addTies' = IF addTies > 0 THEN addTies - 0 ELSE addTies
      BY <1>7, <3>1
    <3> QED
      BY <1>2, <2>2, <3>2
  <2> QED
    BY <2>1, <2>2
<1>9. (tiesAt(r) <= 0) <=> (addTies = 0)
  BY <1>2, <1>6
<1>10. \A t \in Tracks : t \in Undoable <=> (t = r /\ stepCount[r] > 0)
  BY <1>3
<1>11. /\ events' = [t \in Tracks |->
            IF t = r THEN IF stepCount[r] > 0 /\ addTies = 0 THEN WithoutLastStep(events[r])
                          ELSE events[r]
            ELSE events[t]]
       /\ stepCount' = [t \in Tracks |->
            IF t = r THEN IF stepCount[r] > 0 THEN stepCount[r] - 1 ELSE stepCount[r]
            ELSE stepCount[t]]
  BY <1>7, <1>9, <1>10
<1> QED
  BY <1>7, <1>8, <1>11

LEMMA UndoRecords ==
  ASSUME RecordInv, NEW r \in Recording, Undo
  PROVE  RecordInv'
<1> DEFINE cut  == WithoutLastStep(events[r])
           ev   == IF stepCount[r] > 0 /\ addTies = 0 THEN cut ELSE events[r]
           ties == IF stepCount[r] > 0 /\ addTies > 0 THEN addTies - 1 ELSE addTies
           n    == IF stepCount[r] > 0 THEN stepCount[r] - 1 ELSE stepCount[r]
<1>1. /\ events[r] \in Seq(Event) /\ stepCount[r] = Steps(events[r]) + addTies
      /\ Len(events[r]) \in Nat /\ Len(events[r]) + addTies <= MaxEvents
      /\ Steps(events[r]) \in 0 .. Len(events[r]) /\ r \in Tracks
  BY Alone
<1>2. addTies \in 0 .. MaxEvents /\ stepCount[r] \in 0 .. MaxEvents
  BY <1>1 DEF RecordInv, RecordTyped
<1>3. /\ UNCHANGED <<mode, transpose, noteOns, keys>> /\ addTies' = ties
      /\ events' = [t \in Tracks |-> IF t = r THEN ev ELSE events[t]]
      /\ stepCount' = [t \in Tracks |-> IF t = r THEN n ELSE stepCount[t]]
  BY UndoRecorded
<1>4. /\ cut \in Seq(Event) /\ Len(cut) <= Len(events[r]) /\ Len(cut) \in Nat
      /\ Steps(events[r]) > 0 => Steps(cut) = Steps(events[r]) - 1
  BY <1>1, UndoSteps, LenTyped
<1> HIDE DEF cut
<1>5. ev \in Seq(Event) /\ Len(ev) + ties <= MaxEvents /\ n = Steps(ev) + ties
      /\ n \in 0 .. MaxEvents /\ ties \in 0 .. MaxEvents
  <2>1. Steps(events[r]) \in Nat /\ MaxEvents \in Nat /\ addTies \in Nat /\ stepCount[r] \in Nat
        /\ stepCount[r] <= MaxEvents
    BY <1>1, <1>2, Constants
  <2>2. CASE ~(stepCount[r] > 0)
    BY <1>1, <2>1, <2>2
  <2>3. CASE stepCount[r] > 0 /\ addTies > 0
    BY <1>1, <2>1, <2>3
  <2>4. CASE stepCount[r] > 0 /\ addTies = 0
    <3>1. Steps(events[r]) > 0 /\ ev = cut /\ ties = 0 /\ n = Steps(cut)
      BY <1>1, <1>4, <2>1, <2>4
    <3> HIDE DEF ev, ties
    <3>2. n = stepCount[r] - 1
      BY <2>4
    <3> HIDE DEF n
    <3> QED
      BY <1>1, <1>4, <2>1, <2>4, <3>1, <3>2
  <2>5. addTies > 0 \/ addTies = 0
    BY <2>1
  <2> HIDE DEF ev, ties, n
  <2> QED
    BY <2>2, <2>3, <2>4, <2>5
<1>6. mode' \in [Tracks -> Modes] /\ Recording' = Recording /\ keys' \subseteq Keys
      /\ noteOns' \in 0 .. MaxNoteOns /\ UNCHANGED transpose
  BY <1>3 DEF Recording, RecordInv, RecordTyped
<1> HIDE DEF ev, ties, n
<1>7. Len(ev) + addTies' <= MaxEvents /\ n = Steps(ev) + addTies' /\ addTies' \in 0 .. MaxEvents
  BY <1>3, <1>5
<1> QED
  BY <1>3, <1>5, <1>6, <1>7, RecorderRecords

\* Step adds a rest, or a pending tie if a key is down, when there is space.
LEMMA StepRecorded ==
  ASSUME RecordInv, NEW r \in Recording, Step
  PROVE  /\ UNCHANGED <<mode, transpose, noteOns, keys>>
         /\ addTies' = IF Len(events[r]) + addTies < MaxEvents /\ noteOns # 0 THEN addTies + 1
                       ELSE addTies
         /\ events' = [t \in Tracks |->
              IF t = r THEN IF Len(events[r]) + addTies < MaxEvents /\ noteOns = 0
                            THEN Append(events[r], Rest)
                            ELSE events[r]
              ELSE events[t]]
         /\ stepCount' = [t \in Tracks |->
              IF t = r THEN IF Len(events[r]) + addTies < MaxEvents THEN stepCount[r] + 1
                            ELSE stepCount[r]
              ELSE stepCount[t]]
<1> DEFINE tied(t)  == IF noteOns = 0 THEN 0
                       ELSE Cardinality({u \in Before(t) : SpaceAvail(u, addTies)})
           spacious == {t \in Recording : SpaceAvail(t, addTies + tied(t))}
<1>1. Recording = {r} /\ Before(r) = {} /\ r \in Tracks
  BY Alone
<1>2. addTies \in Nat /\ events \in [Tracks -> Seq(Event)] /\ stepCount \in [Tracks -> 0 .. MaxEvents]
  BY Constants DEF RecordInv, RecordTyped
<1>3. tied(r) = 0
  <2>1. {u \in Before(r) : SpaceAvail(u, addTies)} = {}
    BY <1>1
  <2> QED
    BY <2>1, FS_EmptySet
<1>4. /\ stepCount' = [t \in Tracks |-> IF t \in spacious THEN stepCount[t] + 1 ELSE stepCount[t]]
      /\ IF noteOns = 0
         THEN /\ events' = [t \in Tracks |->
                   IF t \in spacious THEN Append(events[t], Rest) ELSE events[t]]
              /\ UNCHANGED addTies
         ELSE /\ addTies' = addTies + Cardinality(spacious)
              /\ UNCHANGED events
      /\ UNCHANGED <<mode, transpose, noteOns, keys>>
  BY DEF Step
<1>5. spacious = IF Len(events[r]) + addTies < MaxEvents THEN {r} ELSE {}
  <2>1. spacious = {t \in {r} : SpaceAvail(t, addTies + tied(t))}
    BY <1>1
  <2> HIDE DEF tied
  <2>2. addTies + tied(r) = addTies
    BY <1>2, <1>3
  <2>3. SpaceAvail(r, addTies + tied(r)) <=> (Len(events[r]) + addTies < MaxEvents)
    BY <2>2 DEF SpaceAvail
  <2> HIDE DEF spacious
  <2>4. \A t : t \in spacious <=> (t = r /\ SpaceAvail(r, addTies + tied(r)))
    BY <2>1
  <2> QED
    BY <2>3, <2>4
<1> HIDE DEF spacious
<1>6. Cardinality(spacious) = IF Len(events[r]) + addTies < MaxEvents THEN 1 ELSE 0
  BY <1>5, FS_EmptySet, FS_Singleton
<1>7. stepCount' = [t \in Tracks |->
         IF t = r THEN IF Len(events[r]) + addTies < MaxEvents THEN stepCount[r] + 1
                       ELSE stepCount[r]
         ELSE stepCount[t]]
  BY <1>4, <1>5
<1>8. CASE noteOns = 0
  <2>1. addTies' = addTies /\ events' = [t \in Tracks |->
                   IF t \in spacious THEN Append(events[t], Rest) ELSE events[t]]
    BY <1>4, <1>8
  <2>2. events' = [t \in Tracks |->
              IF t = r THEN IF Len(events[r]) + addTies < MaxEvents /\ noteOns = 0
                            THEN Append(events[r], Rest)
                            ELSE events[r]
              ELSE events[t]]
    BY <1>5, <1>8, <2>1
  <2> QED
    BY <1>4, <1>7, <1>8, <2>1, <2>2
<1>9. CASE noteOns # 0
  <2>1. addTies' = addTies + Cardinality(spacious) /\ events' = events
    BY <1>4, <1>9
  <2>2. events' = [t \in Tracks |->
              IF t = r THEN IF Len(events[r]) + addTies < MaxEvents /\ noteOns = 0
                            THEN Append(events[r], Rest)
                            ELSE events[r]
              ELSE events[t]]
    BY <1>2, <1>9, <2>1
  <2>3. addTies' = IF Len(events[r]) + addTies < MaxEvents /\ noteOns # 0 THEN addTies + 1
                   ELSE addTies
    BY <1>2, <1>6, <1>9, <2>1
  <2> QED
    BY <1>4, <1>7, <2>2, <2>3
<1> QED
  BY <1>8, <1>9

LEMMA StepRecords ==
  ASSUME RecordInv, NEW r \in Recording, Step
  PROVE  RecordInv'
<1> DEFINE room   == Len(events[r]) + addTies < MaxEvents
           longer == Append(events[r], Rest)
           ev     == IF room /\ noteOns = 0 THEN longer ELSE events[r]
           ties   == IF room /\ noteOns # 0 THEN addTies + 1 ELSE addTies
           n      == IF room THEN stepCount[r] + 1 ELSE stepCount[r]
<1>1. /\ events[r] \in Seq(Event) /\ stepCount[r] = Steps(events[r]) + addTies
      /\ Len(events[r]) \in Nat /\ Len(events[r]) + addTies <= MaxEvents
      /\ Steps(events[r]) \in 0 .. Len(events[r]) /\ r \in Tracks
  BY Alone
<1>2. /\ UNCHANGED <<mode, transpose, noteOns, keys>> /\ addTies' = ties
      /\ events' = [t \in Tracks |-> IF t = r THEN ev ELSE events[t]]
      /\ stepCount' = [t \in Tracks |-> IF t = r THEN n ELSE stepCount[t]]
  BY StepRecorded
<1>3. /\ longer \in Seq(Event) /\ Len(longer) = Len(events[r]) + 1
      /\ Steps(longer) = Steps(events[r]) + 1
  <2>1. Rest \in Event /\ ~Rest.cont
    BY EventsMade
  <2>2. /\ events[r] \o <<Rest>> \in Seq(Event) /\ Append(events[r], Rest) = events[r] \o <<Rest>>
        /\ Len(events[r] \o <<Rest>>) = Len(events[r]) + 1
        /\ Steps(events[r] \o <<Rest>>) = IF Rest.cont THEN Steps(events[r]) ELSE Steps(events[r]) + 1
    BY <1>1, <2>1, AppendSteps
  <2> QED
    BY <2>1, <2>2
<1>4. Steps(events[r]) \in Nat /\ MaxEvents \in Nat /\ addTies \in Nat
      /\ Steps(events[r]) <= Len(events[r])
  BY <1>1, Constants DEF RecordInv, RecordTyped
<1> HIDE DEF longer
<1>5. ev \in Seq(Event) /\ Len(ev) + ties <= MaxEvents /\ n = Steps(ev) + ties
      /\ n \in 0 .. MaxEvents /\ ties \in 0 .. MaxEvents
  <2>1. CASE ~room
    BY <1>1, <1>4, <2>1
  <2>2. CASE room /\ noteOns = 0
    <3>1. ev = longer /\ ties = addTies /\ n = stepCount[r] + 1
      BY <2>2
    <3>2. Len(events[r]) + addTies < MaxEvents
      BY <2>2
    <3> HIDE DEF ev, ties, n, room
    <3>3. Len(ev) + ties <= MaxEvents /\ ties \in 0 .. MaxEvents
      BY <1>1, <1>3, <1>4, <3>1, <3>2
    <3>4. n = Steps(ev) + ties /\ n \in 0 .. MaxEvents
      BY <1>1, <1>3, <1>4, <3>1, <3>2
    <3> QED
      BY <1>3, <3>1, <3>3, <3>4
  <2>3. CASE room /\ noteOns # 0
    <3>1. ev = events[r] /\ ties = addTies + 1 /\ n = stepCount[r] + 1
      BY <2>3
    <3>2. Len(events[r]) + addTies < MaxEvents
      BY <2>3
    <3> HIDE DEF ev, ties, n, room
    <3>5. Len(ev) = Len(events[r]) /\ Len(events[r]) \in Nat
      BY <1>1, <3>1
    <3>3. Len(ev) + ties <= MaxEvents /\ ties \in 0 .. MaxEvents
      <4> DEFINE L == Len(events[r])
      <4>1. L \in Nat /\ L + addTies < MaxEvents /\ addTies \in Nat /\ MaxEvents \in Nat
        BY <1>4, <3>2, <3>5
      <4> HIDE DEF L
      <4>2. L + (addTies + 1) <= MaxEvents /\ addTies + 1 \in 0 .. MaxEvents
        BY <4>1
      <4> QED
        BY <3>1, <3>5, <4>2 DEF L
    <3>4. n = Steps(ev) + ties /\ n \in 0 .. MaxEvents
      BY <1>1, <1>4, <3>1, <3>2
    <3> QED
      BY <1>1, <3>1, <3>3, <3>4
  <2> HIDE DEF ev, ties, n, room
  <2> QED
    BY <2>1, <2>2, <2>3
<1>6. mode' \in [Tracks -> Modes] /\ Recording' = Recording /\ keys' \subseteq Keys
      /\ noteOns' \in 0 .. MaxNoteOns /\ UNCHANGED transpose
  BY <1>2 DEF Recording, RecordInv, RecordTyped
<1> HIDE DEF ev, ties, n
<1>7. Len(ev) + addTies' <= MaxEvents /\ n = Steps(ev) + addTies' /\ addTies' \in 0 .. MaxEvents
  BY <1>2, <1>5
<1> QED
  BY <1>2, <1>5, <1>6, <1>7, RecorderRecords

\* A recording starts with the sequence that the track has and nothing pending.
LEMMA StartRecordingRecords ==
  ASSUME RecordInv, OneRecorder, NEW t \in Tracks, StartRecording(t)
  PROVE  RecordInv'
<1>1. /\ Recording = {} /\ addTies' = 0
      /\ mode' = [mode EXCEPT ![t] = "recording"]
      /\ stepCount' = [stepCount EXCEPT ![t] = Steps(events[t])]
      /\ UNCHANGED <<events, transpose, noteOns, keys>>
  BY DEF StartRecording, OneRecorder
<1>2. /\ mode \in [Tracks -> Modes] /\ stepCount \in [Tracks -> 0 .. MaxEvents]
      /\ Steps(events[t]) \in 0 .. MaxEvents
      /\ events[t] \in Seq(Event) /\ Len(events[t]) <= MaxEvents
  BY StoredSteps DEF RecordInv, RecordTyped
<1>3. mode' \in [Tracks -> Modes] /\ stepCount' \in [Tracks -> 0 .. MaxEvents]
      /\ stepCount'[t] = Steps(events[t])
  BY <1>1, <1>2 DEF Modes
<1>4. Recording' \subseteq {t}
  BY <1>1, <1>2 DEF Recording
<1>5. RecordTyped'
  BY <1>1, <1>3, Constants DEF RecordInv, RecordTyped
<1>6. OneRecords'
  BY <1>4 DEF OneRecords
<1>7. Steps(events[t]) = Steps(events[t]) + 0 /\ Len(events[t]) + 0 = Len(events[t])
  BY <1>2, LenTyped
<1>8. StepsCounted' /\ TiesFit'
  BY <1>1, <1>2, <1>3, <1>4, <1>7 DEF StepsCounted, TiesFit
<1> QED
  BY <1>5, <1>6, <1>8 DEF RecordInv

\* The buttons of a track that leave the recording alone, or end it.
LEMMA StartRecords ==
  ASSUME RecordInv, NEW t \in Tracks, NEW early \in SUBSET {t}, Start(t, early)
  PROVE  RecordInv'
<1>1. StartPlaying({t}, early) /\ {t} \in SUBSET Tracks /\ early \in SUBSET Tracks
  BY DEF Start
<1>2. mode' \in [Tracks -> Modes] /\ Recording' = Recording \ {t}
  BY <1>1, ModesPlaying
<1>3. /\ stepCount' = IF mode[t] = "off" THEN [stepCount EXCEPT ![t] = Steps(events[t])]
                      ELSE stepCount
      /\ UNCHANGED <<events, transpose, addTies, noteOns, keys>>
  BY DEF Start, entryVars
<1>4. stepCount \in [Tracks -> 0 .. MaxEvents] /\ Steps(events[t]) \in 0 .. MaxEvents
  BY StoredSteps DEF RecordInv, RecordTyped
<1>5. stepCount' \in [Tracks -> 0 .. MaxEvents] /\ \A u \in Recording' : stepCount'[u] = stepCount[u]
  BY <1>2, <1>3, <1>4 DEF Recording
<1> QED
  BY <1>2, <1>3, <1>5, OthersRecord DEF RecordInv, RecordTyped

LEMMA WaitRecords ==
  ASSUME RecordInv, NEW t \in Tracks, Wait(t)
  PROVE  RecordInv'
<1>1. /\ mode[t] = "off" /\ mode' = [mode EXCEPT ![t] = "waiting"]
      /\ stepCount' = [stepCount EXCEPT ![t] = Steps(events[t])]
      /\ UNCHANGED <<events, transpose, addTies, noteOns, keys>>
  BY DEF Wait, entryVars
<1>2. /\ mode \in [Tracks -> Modes] /\ stepCount \in [Tracks -> 0 .. MaxEvents]
      /\ Steps(events[t]) \in 0 .. MaxEvents
  BY StoredSteps DEF RecordInv, RecordTyped
<1>3. mode' \in [Tracks -> Modes] /\ Recording' \subseteq Recording
  BY <1>1, <1>2 DEF Modes, Recording
<1>4. stepCount' \in [Tracks -> 0 .. MaxEvents] /\ \A u \in Recording' : stepCount'[u] = stepCount[u]
  BY <1>1, <1>2, <1>3 DEF Recording
<1> QED
  BY <1>1, <1>3, <1>4, OthersRecord DEF RecordInv, RecordTyped

LEMMA StopRecords ==
  ASSUME RecordInv, NEW t \in Tracks, Stop(t)
  PROVE  RecordInv'
<1>1. /\ mode' = mode \/ mode' = [mode EXCEPT ![t] = "off"]
      /\ UNCHANGED <<events, stepCount, transpose, addTies, noteOns, keys>>
  BY DEF Stop, entryVars
<1>2. mode \in [Tracks -> Modes] /\ stepCount \in [Tracks -> 0 .. MaxEvents]
  BY DEF RecordInv, RecordTyped
<1>3. mode' \in [Tracks -> Modes] /\ Recording' \subseteq Recording
  BY <1>1, <1>2 DEF Modes, Recording
<1> QED
  BY <1>1, <1>2, <1>3, OthersRecord DEF RecordInv, RecordTyped

\* The steps that change nothing of a recording: the beats of the clock, the
\* MIDI bytes, the transposition and the keys that go nowhere.
LEMMA IdleRecords ==
  ASSUME RecordInv, UNCHANGED <<mode, events, stepCount, addTies, noteOns>>,
         transpose' \in Transposes, keys' \subseteq Keys
  PROVE  RecordInv'
<1>1. mode' \in [Tracks -> Modes] /\ stepCount' \in [Tracks -> 0 .. MaxEvents] /\ Recording' = Recording
  BY DEF RecordInv, RecordTyped, Recording
<1> QED
  BY <1>1, OthersRecord

\* Without a recording the keys only start the tracks that wait.
LEMMA PressIdleRecords ==
  ASSUME RecordInv, Recording = {}, NEW k \in Keys, NEW early \in SUBSET Tracks,
         KeyPress(k, early)
  PROVE  /\ RecordInv' /\ Recording' = {} /\ keys' = keys \cup {k}
         /\ noteOns' = noteOns /\ addTies' = addTies /\ events' = events
<1> DEFINE waiting == {t \in Tracks : mode[t] = "waiting"}
<1>1. StartPlaying(waiting, early) /\ waiting \in SUBSET Tracks
  BY DEF KeyPress
<1>2. mode' \in [Tracks -> Modes] /\ Recording' = Recording \ waiting
  BY <1>1, ModesPlaying
<1>3. noteOns \in Nat /\ events \in [Tracks -> Seq(Event)] /\ stepCount \in [Tracks -> 0 .. MaxEvents]
  BY Constants DEF RecordInv, RecordTyped
<1>4. noteOns' = noteOns
  BY <1>3, FS_EmptySet DEF KeyPress
<1>5. events' = events /\ stepCount' = stepCount
  BY <1>3 DEF KeyPress
<1>6. UNCHANGED <<transpose, addTies>> /\ keys' = keys \cup {k}
  BY DEF KeyPress
<1>7. transpose' \in Transposes /\ keys' \subseteq Keys
  BY <1>6 DEF RecordInv, RecordTyped
<1>8. RecordInv'
  BY <1>2, <1>3, <1>4, <1>5, <1>6, <1>7, OthersRecord
<1> QED
  BY <1>2, <1>4, <1>5, <1>6, <1>8

LEMMA ReleaseIdleRecords ==
  ASSUME RecordInv, Recording = {}, NEW k \in Keys, KeyRelease(k)
  PROVE  /\ RecordInv' /\ Recording' = {} /\ keys' = keys \ {k} /\ dead' = dead
         /\ noteOns' = noteOns /\ addTies' = addTies /\ events' = events /\ mode' = mode
<1>1. events \in [Tracks -> Seq(Event)] /\ noteOns \in Nat
  BY Constants DEF RecordInv, RecordTyped
<1>2. noteOns' = noteOns
  <2>1. noteOns' = IF noteOns > 0 THEN noteOns - 0 ELSE noteOns
    BY FS_EmptySet DEF KeyRelease
  <2> QED
    BY <1>1, <2>1
<1>3. /\ keys' = keys \ {k} /\ UNCHANGED <<mode, stepCount, transpose>>
  BY DEF KeyRelease
<1>4. events' = events /\ addTies' = addTies /\ dead' = dead
  BY <1>1 DEF KeyRelease
<1>5. RecordInv'
  BY <1>2, <1>3, <1>4, IdleRecords DEF RecordInv, RecordTyped
<1> QED
  BY <1>2, <1>3, <1>4, <1>5 DEF Recording

LEMMA NextRecords == ASSUME RecordInv, OneRecorder, [Next]_vars PROVE RecordInv'
<1> USE DEF positionVars, entryVars
<1>1. CASE Update
  BY <1>1, IdleRecords DEF Update, RecordInv, RecordTyped
<1>2. CASE MidiStart
  BY <1>2, IdleRecords DEF MidiStart, RecordInv, RecordTyped
<1>3. CASE MidiStop
  BY <1>3, IdleRecords DEF MidiStop, RecordInv, RecordTyped
<1>4. CASE Clear
  <2>1. Recording # {}
    BY <1>4 DEF Clear
  <2> QED
    BY <1>4, <2>1, ClearRecords
<1>5. CASE Undo
  <2>1. Recording # {}
    BY <1>5 DEF Undo
  <2> QED
    BY <1>5, <2>1, UndoRecords
<1>6. CASE Step
  <2>1. Recording # {}
    BY <1>6 DEF Step
  <2> QED
    BY <1>6, <2>1, StepRecords
<1>7. ASSUME NEW x \in Transposes, SetTranspose(x) PROVE RecordInv'
  BY <1>7, IdleRecords DEF SetTranspose, RecordInv, RecordTyped
<1>8. ASSUME NEW t \in Tracks, TrackButton(t) PROVE RecordInv'
  BY <1>8, StartRecords, WaitRecords, StopRecords, StartRecordingRecords DEF TrackButton
<1>9. ASSUME NEW k \in Keys, Key(k) PROVE RecordInv'
  <2>1. ASSUME NEW early \in SUBSET Tracks, KeyPress(k, early) PROVE RecordInv'
    BY <2>1, PressRecords, PressIdleRecords
  <2>2. CASE KeyRelease(k)
    BY <2>2, ReleaseRecords, ReleaseIdleRecords
  <2>3. CASE KeyReleaseShifted(k)
    <3>1. /\ UNCHANGED <<mode, events, stepCount, addTies, noteOns, transpose>>
          /\ keys' = keys \ {k}
      BY <2>3 DEF KeyReleaseShifted
    <3> QED
      BY <3>1, IdleRecords DEF RecordInv, RecordTyped
  <2> QED
    BY <1>9, <2>1, <2>2, <2>3 DEF Key
<1>10. CASE UNCHANGED vars
  BY <1>10, IdleRecords DEF vars, RecordInv, RecordTyped
<1> QED
  BY <1>1, <1>2, <1>3, <1>4, <1>5, <1>6, <1>7, <1>8, <1>9, <1>10 DEF Next

LEMMA SeqRecordInv ==
  ASSUME OneRecorder
  PROVE  Spec => []RecordInv
<1>1. Init => RecordInv
  BY InitRecords
<1>2. RecordInv /\ [Next]_vars => RecordInv'
  BY NextRecords
<1> QED
  BY <1>1, <1>2, PTL DEF Spec

\* The count the display shows is the length of the recorded sequence, rests
\* and pending ties included, through chords, undo and erasure with keys down.
THEOREM SeqStepsCounted ==
  ASSUME OneRecorder
  PROVE  Spec => []StepsCounted
<1>1. RecordInv => StepsCounted
  BY DEF RecordInv
<1> QED
  BY <1>1, SeqRecordInv, PTL

\* There is space for the pending ties whenever the keys go up, so the ties are
\* never written past the track.
THEOREM SeqTiesFit ==
  ASSUME OneRecorder
  PROVE  Spec => []TiesFit
<1>1. RecordInv => TiesFit
  BY DEF RecordInv
<1> QED
  BY <1>1, SeqRecordInv, PTL

-----------------------------------------------------------------------------
(* Well formed sequences. A continuation goes into the track only after a   *)
(* note of its step: while a key is counted as down the last event of the   *)
(* recording is a note, or the track is full and takes nothing more.        *)

\* The key count is of keys that are down, and of a recording.
KeysCounted ==
  /\ Recording = {} => noteOns = 0
  /\ noteOns <= Cardinality(keys)

\* Ties wait for keys to go up.
TiesHeld == Recording # {} /\ noteOns = 0 => addTies = 0

\* What a continuation would continue.
LastIsNote(ev) == Len(ev) = MaxEvents \/ (ev # <<>> /\ ev[Len(ev)].kind = "note")

NotesHeld == \A t \in Recording : noteOns > 0 => LastIsNote(events[t])

FormInv == SequencesWellFormed /\ KeysCounted /\ TiesHeld /\ NotesHeld

LEMMA KeysFinite ==
  ASSUME RecordInv
  PROVE  IsFiniteSet(keys) /\ Cardinality(keys) \in Nat /\ noteOns \in Nat /\ addTies \in Nat
<1>1. Keys \in SUBSET (-36 .. 91)
  BY KeysAssumption
<1>2. IsFiniteSet(-36 .. 91)
  <2>1. -36 \in Int /\ 91 \in Int
    OBVIOUS
  <2> QED
    BY <2>1, FS_Interval
<1>3. keys \in SUBSET (-36 .. 91)
  BY <1>1 DEF RecordInv, RecordTyped
<1>4. IsFiniteSet(keys)
  BY <1>2, <1>3, FS_Subset
<1>5. noteOns \in 0 .. MaxNoteOns /\ addTies \in 0 .. MaxEvents
  BY DEF RecordInv, RecordTyped
<1>6. noteOns \in Nat /\ addTies \in Nat
  BY <1>5, Constants
<1>7. Cardinality(keys) \in Nat
  BY <1>4, FS_CardinalityType
<1> QED
  BY <1>4, <1>6, <1>7

\* With no key down none is counted.
LEMMA KeysUpCountNone ==
  ASSUME RecordInv, FormInv, keys = {}
  PROVE  noteOns = 0
<1>1. Cardinality(keys) = 0
  BY FS_EmptySet
<1>2. noteOns <= 0 /\ noteOns \in Nat
  BY <1>1, KeysFinite DEF FormInv, KeysCounted
<1> QED
  BY <1>2

LEMMA InitForm == Init => FormInv
<1> SUFFICES ASSUME Init PROVE FormInv
  OBVIOUS
<1>1. events \in [Tracks -> Stored] /\ noteOns = 0 /\ keys = {} /\ addTies = 0
  BY DEF Init
<1>2. SequencesWellFormed
  BY <1>1, StoredAssumption DEF SequencesWellFormed
<1>3. Cardinality(keys) = 0
  BY <1>1, FS_EmptySet
<1> QED
  BY <1>1, <1>2, <1>3 DEF FormInv, KeysCounted, TiesHeld, NotesHeld

\* A step that leaves the sequences and what is pending alone.
LEMMA OthersForm ==
  ASSUME FormInv, UNCHANGED <<events, addTies, noteOns, keys>>, Recording' \subseteq Recording,
         Recording' = Recording \/ noteOns = 0
  PROVE  FormInv'
<1>1. SequencesWellFormed'
  BY DEF FormInv, SequencesWellFormed
<1>2. KeysCounted' /\ TiesHeld' /\ NotesHeld'
  BY DEF FormInv, KeysCounted, TiesHeld, NotesHeld
<1> QED
  BY <1>1, <1>2 DEF FormInv

\* A step of the track that records.
LEMMA RecorderForm ==
  ASSUME RecordInv, FormInv, NEW r \in Recording, Recording' = Recording,
         NEW ev, WellFormed(ev), noteOns' <= Cardinality(keys)',
         noteOns' = 0 => addTies' = 0, noteOns' > 0 => LastIsNote(ev),
         events' = [t \in Tracks |-> IF t = r THEN ev ELSE events[t]]
  PROVE  FormInv'
<1>1. Recording = {r} /\ r \in Tracks
  BY Alone
<1>2. SequencesWellFormed'
  BY DEF FormInv, SequencesWellFormed
<1>3. events'[r] = ev
  BY <1>1
<1>4. KeysCounted' /\ TiesHeld' /\ NotesHeld'
  BY <1>1, <1>3 DEF KeysCounted, TiesHeld, NotesHeld
<1> QED
  BY <1>2, <1>4 DEF FormInv

LEMMA CountedMore ==
  ASSUME RecordInv, FormInv, NEW k \in Keys
  PROVE  /\ k \notin keys => noteOns + 1 <= Cardinality(keys \cup {k})
         /\ k \in keys /\ noteOns > 1 => noteOns - 1 <= Cardinality(keys \ {k})
         /\ 0 <= Cardinality(keys \ {k}) /\ noteOns <= Cardinality(keys \cup {k})
<1>1. IsFiniteSet(keys) /\ Cardinality(keys) \in Nat /\ noteOns \in Nat /\ noteOns <= Cardinality(keys)
  BY KeysFinite DEF FormInv, KeysCounted
<1>2. Cardinality(keys \cup {k}) = IF k \in keys THEN Cardinality(keys) ELSE Cardinality(keys) + 1
  BY <1>1, FS_AddElement
<1>3. /\ IsFiniteSet(keys \ {k})
      /\ Cardinality(keys \ {k}) = IF k \in keys THEN Cardinality(keys) - 1 ELSE Cardinality(keys)
  BY <1>1, FS_RemoveElement
<1>4. Cardinality(keys \ {k}) \in Nat
  BY <1>3, FS_CardinalityType
<1> QED
  BY <1>1, <1>2, <1>3, <1>4

\* A key that goes down while another is counted continues a note, or the
\* track has no space for it.
LEMMA PressForm ==
  ASSUME RecordInv, FormInv, OneRecorder, NEW r \in Recording, NEW k \in Keys,
         NEW early \in SUBSET Tracks, KeyPress(k, early)
  PROVE  FormInv'
<1> DEFINE old == events[r]
           ev  == old \o Added(r, k)
<1>1. /\ Recording' = Recording /\ noteOns' = noteOns + 1
      /\ keys' = keys \cup {k} /\ k \notin keys /\ UNCHANGED <<transpose, addTies>>
      /\ events' = [t \in Tracks |-> IF t = r THEN ev ELSE events[t]]
  BY PressRecorded
<1>2. /\ old \in Seq(Event) /\ Len(old) \in Nat /\ r \in Tracks
      /\ Len(old) + addTies <= MaxEvents
  BY Alone
<1>3. WellFormed(old)
  BY <1>2 DEF FormInv, SequencesWellFormed
<1>4. noteOns \in Nat /\ addTies \in Nat /\ MaxEvents \in Nat
  BY KeysFinite, Constants
<1>5. noteOns' <= Cardinality(keys)'
  BY <1>1, CountedMore
<1>6. noteOns = 0 => addTies = 0
  BY DEF FormInv, TiesHeld
<1>7. noteOns > 0 => LastIsNote(old)
  BY DEF FormInv, NotesHeld
<1>8. WellFormed(ev) /\ LastIsNote(ev)
  <2>1. CASE Added(r, k) = <<>> /\ (noteOns = 0 => Len(old) + addTies = MaxEvents)
    <3>1. ev = old
      BY <1>2, <2>1, ConcatEmptySeq
    <3>2. noteOns = 0 => Len(old) = MaxEvents
      BY <1>2, <1>4, <1>6, <2>1
    <3>3. noteOns = 0 \/ noteOns > 0
      BY <1>4
    <3>4. LastIsNote(old)
      BY <1>7, <3>2, <3>3 DEF LastIsNote
    <3> QED
      BY <1>3, <3>1, <3>4
  <2>2. CASE Added(r, k) = <<Note(Coded(k), noteOns # 0)>> /\ Len(old) + addTies < MaxEvents
    <3> DEFINE e == Note(Coded(k), noteOns # 0)
    <3>1. Coded(k) \in 0 .. 63 /\ (noteOns # 0) \in BOOLEAN
      BY CodedTyped
    <3>2. e \in Event /\ e.kind = "note" /\ e.cont = (noteOns # 0)
      BY <3>1, NoteMade
    <3>3. e.cont => noteOns # 0
      BY <3>2
    <3> HIDE DEF e
    <3>4. ev = old \o <<e>>
      BY <2>2 DEF e
    <3>5. /\ ev \in Seq(Event) /\ Len(ev) = Len(old) + 1 /\ ev[Len(old) + 1] = e
          /\ \A i \in 1 .. Len(old) : ev[i] = old[i]
      BY <1>2, <3>2, <3>4, AppendSteps
    <3>6. e.cont => old # <<>> /\ old[Len(old)].kind = "note"
      <4>1. SUFFICES ASSUME e.cont PROVE old # <<>> /\ old[Len(old)].kind = "note"
        OBVIOUS
      <4>2. noteOns > 0
        BY <1>4, <3>3, <4>1
      <4>3. Len(old) # MaxEvents
        BY <1>2, <1>4, <2>2
      <4> QED
        BY <1>7, <4>2, <4>3 DEF LastIsNote
    <3> HIDE DEF ev
    <3>7. \A i \in Len(old) + 1 .. Len(ev) : i = Len(old) + 1
      BY <1>2, <3>5
    <3>8. Len(old) <= Len(ev)
      BY <1>2, <3>5
    <3> HIDE DEF old
    <3>9. WellFormed(ev)
      BY <1>2, <1>3, <3>2, <3>5, <3>6, <3>7, <3>8, LongerWellFormed
    <3>10. ev # <<>>
      BY <1>2, <3>5, EmptySeq
    <3>11. ev[Len(ev)].kind = "note"
      BY <3>2, <3>5
    <3> QED
      BY <3>9, <3>10, <3>11 DEF LastIsNote
  <2> QED
    BY <2>1, <2>2, AddedCases
<1>9. noteOns' # 0
  BY <1>1, <1>4
<1> HIDE DEF ev, old
<1> QED
  BY <1>1, <1>5, <1>8, <1>9, RecorderForm

\* The ties that the last key leaves behind begin steps of their own.
LEMMA ReleaseForm ==
  ASSUME RecordInv, FormInv, NEW r \in Recording, NEW k \in Keys, KeyRelease(k)
  PROVE  FormInv'
<1> DEFINE old    == events[r]
           longer == old \o [i \in 1 .. addTies |-> Tie]
           ev     == IF noteOns > 1 THEN old ELSE longer
<1>1. /\ mode' = mode /\ keys' = keys \ {k} /\ k \in keys
      /\ noteOns' = IF noteOns > 1 THEN noteOns - 1 ELSE 0
      /\ addTies' = IF noteOns > 1 THEN addTies ELSE 0
      /\ events' = [t \in Tracks |-> IF t = r THEN ev ELSE events[t]]
  BY ReleaseRecorded
<1>2. old \in Seq(Event) /\ Len(old) \in Nat /\ r \in Tracks
  BY Alone
<1>3. WellFormed(old)
  BY <1>2 DEF FormInv, SequencesWellFormed
<1>4. noteOns \in Nat /\ addTies \in Nat
  BY KeysFinite
<1>5. WellFormed(longer)
  <2>1. /\ longer \in Seq(Event) /\ Len(longer) = Len(old) + addTies
        /\ \A i \in 1 .. Len(old) : longer[i] = old[i]
        /\ \A i \in Len(old) + 1 .. Len(old) + addTies : longer[i] = Tie
    BY <1>2, <1>4, TiesSteps
  <2> HIDE DEF longer, old
  <2>2. Len(old) <= Len(longer)
    BY <1>2, <1>4, <2>1
  <2>3. \A i \in Len(old) + 1 .. Len(longer) : ~longer[i].cont
    BY <2>1, EventsMade
  <2> QED
    BY <1>2, <1>3, <2>1, <2>2, <2>3, LongerWellFormed
<1>6. WellFormed(ev)
  BY <1>3, <1>5
<1>7. noteOns' <= Cardinality(keys)'
  BY <1>1, CountedMore
<1>8. noteOns' = 0 => addTies' = 0
  BY <1>1, <1>4
<1>9. noteOns' > 0 => LastIsNote(ev)
  <2>1. noteOns > 1 => LastIsNote(old)
    BY <1>4 DEF FormInv, NotesHeld
  <2> HIDE DEF old, longer
  <2> QED
    BY <1>1, <2>1
<1>10. Recording' = Recording
  BY <1>1 DEF Recording
<1> HIDE DEF ev
<1> QED
  BY <1>1, <1>6, <1>7, <1>8, <1>9, <1>10, RecorderForm

LEMMA ClearForm ==
  ASSUME RecordInv, FormInv, KeysUp, NEW r \in Recording, Clear
  PROVE  FormInv'
<1> DEFINE ev == <<>>
<1>1. /\ events' = [t \in Tracks |-> IF t \in Recording THEN <<>> ELSE events[t]]
      /\ addTies' = 0 /\ UNCHANGED <<mode, noteOns, keys>> /\ keys = {}
  BY DEF Clear, KeysUp
<1>2. events' = [t \in Tracks |-> IF t = r THEN ev ELSE events[t]]
  BY <1>1, Alone
<1>3. noteOns = 0
  BY <1>1, KeysUpCountNone
<1>4. WellFormed(ev)
  BY DEF WellFormed
<1>5. noteOns' <= Cardinality(keys)' /\ ~(noteOns' > 0)
  BY <1>1, <1>3, FS_EmptySet
<1>6. Recording' = Recording
  BY <1>1 DEF Recording
<1> HIDE DEF ev
<1> QED
  BY <1>1, <1>2, <1>4, <1>5, <1>6, RecorderForm

LEMMA UndoForm ==
  ASSUME RecordInv, FormInv, KeysUp, NEW r \in Recording, Undo
  PROVE  FormInv'
<1> DEFINE old == events[r]
           cut == WithoutLastStep(old)
           ev  == IF stepCount[r] > 0 /\ addTies = 0 THEN cut ELSE old
<1>1. /\ UNCHANGED <<mode, noteOns, keys>> /\ (addTies = 0 => keys = {})
      /\ addTies' = IF stepCount[r] > 0 /\ addTies > 0 THEN addTies - 1 ELSE addTies
      /\ events' = [t \in Tracks |-> IF t = r THEN ev ELSE events[t]]
  BY UndoRecorded DEF KeysUp
<1>2. old \in Seq(Event) /\ r \in Tracks
  BY Alone
<1>3. WellFormed(old)
  BY <1>2 DEF FormInv, SequencesWellFormed
<1>4. WellFormed(cut)
  BY <1>2, <1>3, UndoSteps, PrefixWellFormed
<1>5. WellFormed(ev)
  BY <1>3, <1>4
<1>6. noteOns \in Nat /\ addTies \in Nat /\ noteOns <= Cardinality(keys)
  BY KeysFinite DEF FormInv, KeysCounted
<1>7. addTies = 0 => noteOns = 0
  BY <1>1, KeysUpCountNone
<1>8. noteOns = 0 => addTies = 0
  BY DEF FormInv, TiesHeld
<1>9. noteOns' = 0 => addTies' = 0
  BY <1>1, <1>6, <1>8
<1>10. noteOns' > 0 => LastIsNote(ev)
  <2>1. noteOns > 0 => LastIsNote(old)
    BY DEF FormInv, NotesHeld
  <2>2. noteOns > 0 => addTies # 0
    BY <1>6, <1>7
  <2> HIDE DEF old, cut
  <2> QED
    BY <1>1, <2>1, <2>2
<1>11. Recording' = Recording /\ noteOns' <= Cardinality(keys)'
  BY <1>1, <1>6 DEF Recording
<1> HIDE DEF ev
<1> QED
  BY <1>1, <1>5, <1>9, <1>10, <1>11, RecorderForm

LEMMA StepForm ==
  ASSUME RecordInv, FormInv, NEW r \in Recording, Step
  PROVE  FormInv'
<1> DEFINE old    == events[r]
           room   == Len(old) + addTies < MaxEvents
           longer == Append(old, Rest)
           ev     == IF room /\ noteOns = 0 THEN longer ELSE old
<1>1. /\ UNCHANGED <<mode, noteOns, keys>>
      /\ addTies' = IF room /\ noteOns # 0 THEN addTies + 1 ELSE addTies
      /\ events' = [t \in Tracks |-> IF t = r THEN ev ELSE events[t]]
  BY StepRecorded
<1>2. old \in Seq(Event) /\ Len(old) \in Nat /\ r \in Tracks
  BY Alone
<1>3. WellFormed(old)
  BY <1>2 DEF FormInv, SequencesWellFormed
<1>4. WellFormed(longer)
  <2>1. Rest \in Event /\ ~Rest.cont
    BY EventsMade
  <2>2. /\ longer \in Seq(Event) /\ Len(longer) = Len(old) + 1 /\ longer[Len(old) + 1] = Rest
        /\ \A i \in 1 .. Len(old) : longer[i] = old[i]
    BY <1>2, <2>1, AppendProperties
  <2> HIDE DEF longer, old
  <2>3. \A i \in Len(old) + 1 .. Len(longer) : i = Len(old) + 1
    BY <1>2, <2>2
  <2>4. Len(old) <= Len(longer)
    BY <1>2, <2>2
  <2> QED
    BY <1>2, <1>3, <2>1, <2>2, <2>3, <2>4, LongerWellFormed
<1>5. WellFormed(ev)
  BY <1>3, <1>4
<1>6. noteOns \in Nat /\ noteOns <= Cardinality(keys)
  BY KeysFinite DEF FormInv, KeysCounted
<1>7. noteOns = 0 => addTies = 0
  BY DEF FormInv, TiesHeld
<1>8. noteOns' = 0 => addTies' = 0
  BY <1>1, <1>7
<1>9. noteOns' > 0 => LastIsNote(ev)
  <2>1. noteOns > 0 => LastIsNote(old) /\ noteOns # 0
    BY <1>6 DEF FormInv, NotesHeld
  <2> HIDE DEF old, longer
  <2> QED
    BY <1>1, <2>1
<1>10. Recording' = Recording /\ noteOns' <= Cardinality(keys)'
  BY <1>1, <1>6 DEF Recording
<1> HIDE DEF ev
<1> QED
  BY <1>1, <1>5, <1>8, <1>9, <1>10, RecorderForm

\* Starting, waiting and stopping leave the sequences alone, and a recording
\* ends with the keys up.
LEMMA ButtonForm ==
  ASSUME RecordInv, FormInv, OneRecorder, KeysUp, NEW t \in Tracks, TrackButton(t)
  PROVE  FormInv'
<1> USE DEF positionVars, entryVars
<1>0. mode \in [Tracks -> Modes]
  BY DEF RecordInv, RecordTyped
<1>1. ASSUME NEW early \in SUBSET {t}, Start(t, early) PROVE FormInv'
  <2>1. StartPlaying({t}, early) /\ {t} \in SUBSET Tracks /\ early \in SUBSET Tracks
    BY <1>1 DEF Start
  <2>2. Recording' = Recording \ {t}
    BY <2>1, ModesPlaying
  <2>3. /\ UNCHANGED <<events, addTies, noteOns, keys>>
        /\ mode[t] = "recording" => keys = {}
    BY <1>1 DEF Start, KeysUp
  <2>4. Recording' = Recording \/ noteOns = 0
    <3>1. CASE mode[t] = "recording"
      BY <2>3, <3>1, KeysUpCountNone
    <3>2. CASE mode[t] # "recording"
      BY <2>2, <3>2 DEF Recording
    <3> QED
      BY <3>1, <3>2
  <2> QED
    BY <2>2, <2>3, <2>4, OthersForm
<1>2. CASE Wait(t)
  <2>1. /\ UNCHANGED <<events, addTies, noteOns, keys>>
        /\ mode[t] = "off" /\ mode' = [mode EXCEPT ![t] = "waiting"]
    BY <1>2 DEF Wait
  <2>2. Recording' = Recording
    BY <1>0, <2>1 DEF Recording
  <2> QED
    BY <2>1, <2>2, OthersForm
<1>3. CASE Stop(t)
  <2>1. /\ UNCHANGED <<events, addTies, noteOns, keys>> /\ mode[t] = "playing"
        /\ mode' = mode \/ mode' = [mode EXCEPT ![t] = "off"]
    BY <1>3 DEF Stop
  <2>2. Recording' = Recording
    BY <1>0, <2>1 DEF Recording
  <2> QED
    BY <2>1, <2>2, OthersForm
<1>4. CASE StartRecording(t)
  <2>1. /\ Recording = {} /\ addTies' = 0 /\ UNCHANGED <<events, noteOns, keys>>
    BY <1>4 DEF StartRecording, OneRecorder
  <2>2. noteOns' = 0 /\ noteOns' <= Cardinality(keys)'
    BY <2>1 DEF FormInv, KeysCounted
  <2>3. SequencesWellFormed'
    BY <2>1 DEF FormInv, SequencesWellFormed
  <2>4. KeysCounted' /\ TiesHeld' /\ NotesHeld'
    BY <2>1, <2>2 DEF KeysCounted, TiesHeld, NotesHeld
  <2> QED
    BY <2>3, <2>4 DEF FormInv
<1> QED
  BY <1>1, <1>2, <1>3, <1>4 DEF TrackButton

\* A key that no recording takes.
LEMMA KeyIdleForm ==
  ASSUME RecordInv, FormInv, Recording = {}, Recording' = {}, NEW k \in Keys,
         keys' = keys \cup {k} \/ keys' = keys \ {k},
         UNCHANGED <<events, noteOns>>
  PROVE  FormInv'
<1>1. noteOns = 0
  BY DEF FormInv, KeysCounted
<1>2. noteOns' <= Cardinality(keys)'
  BY <1>1, CountedMore
<1>3. SequencesWellFormed'
  BY DEF FormInv, SequencesWellFormed
<1> QED
  BY <1>1, <1>2, <1>3 DEF FormInv, KeysCounted, TiesHeld, NotesHeld

LEMMA NextForm ==
  ASSUME RecordInv, FormInv, OneRecorder, KeysUp, [Next]_vars
  PROVE  FormInv'
<1> USE DEF positionVars, entryVars
<1>1. CASE Update
  BY <1>1, OthersForm DEF Update, Recording
<1>2. CASE MidiStart
  BY <1>2, OthersForm DEF MidiStart, Recording
<1>3. CASE MidiStop
  BY <1>3, OthersForm DEF MidiStop, Recording
<1>4. CASE Clear
  <2>1. Recording # {}
    BY <1>4 DEF Clear
  <2> QED
    BY <1>4, <2>1, ClearForm
<1>5. CASE Undo
  <2>1. Recording # {}
    BY <1>5 DEF Undo
  <2> QED
    BY <1>5, <2>1, UndoForm
<1>6. CASE Step
  <2>1. Recording # {}
    BY <1>6 DEF Step
  <2> QED
    BY <1>6, <2>1, StepForm
<1>7. ASSUME NEW x \in Transposes, SetTranspose(x) PROVE FormInv'
  BY <1>7, OthersForm DEF SetTranspose, Recording
<1>8. ASSUME NEW t \in Tracks, TrackButton(t) PROVE FormInv'
  BY <1>8, ButtonForm
<1>9. ASSUME NEW k \in Keys, Key(k) PROVE FormInv'
  <2>1. ASSUME NEW early \in SUBSET Tracks, KeyPress(k, early) PROVE FormInv'
    <3>1. CASE Recording = {}
      BY <2>1, <3>1, PressIdleRecords, KeyIdleForm
    <3>2. CASE Recording # {}
      BY <2>1, <3>2, PressForm
    <3> QED
      BY <3>1, <3>2
  <2>2. CASE KeyRelease(k)
    <3>1. CASE Recording = {}
      BY <2>2, <3>1, ReleaseIdleRecords, KeyIdleForm
    <3>2. CASE Recording # {}
      BY <2>2, <3>2, ReleaseForm
    <3> QED
      BY <3>1, <3>2
  <2>3. ~KeyReleaseShifted(k)
    BY DEF KeyReleaseShifted, KeysUp
  <2> QED
    BY <1>9, <2>1, <2>2, <2>3 DEF Key
<1>10. CASE UNCHANGED vars
  BY <1>10, OthersForm DEF vars, Recording
<1> QED
  BY <1>1, <1>2, <1>3, <1>4, <1>5, <1>6, <1>7, <1>8, <1>9, <1>10 DEF Next

\* No track of a well formed sequence is all continuations.
LEMMA FormEnds ==
  ASSUME RecordInv, FormInv, NEW t \in Tracks, events[t] # <<>>
  PROVE  ~Endless(events[t])
<1>1. events[t] \in Seq(Event) /\ WellFormed(events[t])
  BY DEF RecordInv, RecordTyped, FormInv, SequencesWellFormed
<1> QED
  BY <1>1, WellFormedEnds

\* No loop over the continuations of a step runs for ever, and nothing is
\* written past a track: the interrupt always returns.
LEMMA PlayStepsReturns ==
  ASSUME RecordInv, FormInv, NEW S \in SUBSET Tracks, NEW i, NEW p, PlaySteps(S, i, p)
  PROVE  dead' = dead
<1> DEFINE active == {t \in S : events[t] # <<>>}
<1>1. ~ \E t \in active : Endless(events[t])
  BY FormEnds
<1> QED
  BY <1>1 DEF PlaySteps

LEMMA SilenceReturns ==
  ASSUME RecordInv, FormInv, NEW prev, Silence(prev)
  PROVE  dead' = dead
<1> DEFINE playing == {t \in Tracks : mode[t] = "playing"}
<1>1. ~ \E t \in playing : Finishes(t, prevEventIndex[t]) /\ Endless(events[t])
  BY FormEnds DEF Finishes
<1> QED
  BY <1>1 DEF Silence

LEMMA NextReturns ==
  ASSUME RecordInv, FormInv, [Next]_vars
  PROVE  dead' = dead
<1> USE DEF positionVars, entryVars
<1>1. CASE Update
  <2>1. {t \in Tracks : mode[t] = "playing"} \in SUBSET Tracks
    OBVIOUS
  <2> QED
    BY <1>1, <2>1, PlayStepsReturns DEF Update
<1>2. CASE MidiStart
  BY <1>2, SilenceReturns DEF MidiStart
<1>3. CASE MidiStop
  BY <1>3, SilenceReturns DEF MidiStop
<1>4. CASE Clear \/ Undo \/ Step
  BY <1>4 DEF Clear, Undo, Step
<1>5. ASSUME NEW x \in Transposes, SetTranspose(x) PROVE dead' = dead
  BY <1>5 DEF SetTranspose
<1>6. ASSUME NEW t \in Tracks, TrackButton(t) PROVE dead' = dead
  <2>1. ASSUME NEW early \in SUBSET {t}, Start(t, early) PROVE dead' = dead
    <3>1. early \in SUBSET Tracks
      OBVIOUS
    <3> QED
      BY <2>1, <3>1, PlayStepsReturns DEF Start, StartPlaying
  <2>2. CASE Wait(t) \/ StartRecording(t)
    BY <2>2 DEF Wait, StartRecording
  <2>3. CASE Stop(t)
    <3>1. ~(Finishes(t, prevEventIndex[t]) /\ Endless(events[t]))
      BY FormEnds DEF Finishes
    <3> QED
      BY <2>3, <3>1 DEF Stop
  <2> QED
    BY <1>6, <2>1, <2>2, <2>3 DEF TrackButton
<1>7. ASSUME NEW k \in Keys, Key(k) PROVE dead' = dead
  <2>1. ASSUME NEW early \in SUBSET Tracks, KeyPress(k, early) PROVE dead' = dead
    BY <2>1, PlayStepsReturns DEF KeyPress, StartPlaying
  <2>2. CASE KeyRelease(k)
    BY <2>2, ReleaseRecorded, ReleaseIdleRecords
  <2>3. CASE KeyReleaseShifted(k)
    BY <2>3 DEF KeyReleaseShifted
  <2> QED
    BY <1>7, <2>1, <2>2, <2>3 DEF Key
<1>8. CASE UNCHANGED vars
  BY <1>8 DEF vars
<1> QED
  BY <1>1, <1>2, <1>3, <1>4, <1>5, <1>6, <1>7, <1>8 DEF Next

LEMMA SeqFormInv ==
  ASSUME OneRecorder, KeysUp
  PROVE  Spec => [](RecordInv /\ FormInv /\ ~dead)
<1> DEFINE Inv == RecordInv /\ FormInv /\ ~dead
<1>1. Init => Inv
  BY InitRecords, InitForm DEF Init
<1>2. Inv /\ [Next]_vars => Inv'
  BY NextRecords, NextForm, NextReturns
<1> QED
  BY <1>1, <1>2, PTL DEF Spec

\* Every stored and recorded sequence is well formed: a continuation follows a
\* note, whatever keys, rests, ties and erasures made it.
THEOREM SeqSequencesWellFormed ==
  ASSUME OneRecorder, KeysUp
  PROVE  Spec => []SequencesWellFormed
<1>1. RecordInv /\ FormInv /\ ~dead => SequencesWellFormed
  BY DEF FormInv
<1> QED
  BY <1>1, SeqFormInv, PTL

\* The timer interrupt always comes back from the sequencer: no loop over the
\* continuations of a step runs for ever, and no tie is written past a track.
THEOREM SeqAlwaysReturns ==
  ASSUME OneRecorder, KeysUp
  PROVE  Spec => [](~dead)
<1>1. RecordInv /\ FormInv /\ ~dead => ~dead
  OBVIOUS
<1> QED
  BY <1>1, SeqFormInv, PTL

-----------------------------------------------------------------------------
(* Where the tracks stand and what they sound                               *)

Indexes == 0 .. MaxEvents - 1

PlayTyped ==
  /\ eventIndex \in [Tracks -> Indexes]
  /\ prevEventIndex \in [Tracks -> Indexes \cup {-1}]
  /\ previousTranspose \in [Tracks -> Transposes]
  /\ sounding \in [Tracks -> SUBSET Pitches]
  /\ dead \in BOOLEAN

\* Positions i and p are in the sequence.
Inside(ev, i, p) == ev # <<>> => i < Len(ev) /\ p < Len(ev)

\* A playing track stands in its sequence, until an endless loop.
InTrack ==
  ~dead => \A t \in Tracks :
    mode[t] = "playing" => Inside(events[t], eventIndex[t], prevEventIndex[t])

\* The pitches that finishPreviousNotes turns off from position p, of notes
\* turned on with transposition x.
TurnedOff(ev, p, x) ==
  IF ev # <<>> /\ p >= 0 /\ At(ev, p).kind = "note" /\ ~Endless(ev)
  THEN {n + x : n \in StepNotes(ev, p)} ELSE {}

LEMMA IndexesTyped ==
  /\ 0 \in Indexes /\ -1 \in Indexes \cup {-1} /\ Indexes \subseteq Nat
  /\ Indexes \cup {-1} \subseteq Int /\ \A p \in Indexes \cup {-1} : p >= 0 => p \in Indexes
  /\ Indexes \cup {-1} = -1 .. MaxEvents - 1
BY Constants DEF Indexes

LEMMA PositionInside ==
  ASSUME NEW ev \in Seq(Event), Len(ev) <= MaxEvents, ev # <<>>, NEW i \in Nat, i < Len(ev)
  PROVE  /\ i \in 0 .. Len(ev) - 1 /\ i \in Indexes
         /\ ~Endless(ev) => /\ (i + StepLength(ev, i)) % Len(ev) \in Indexes
                            /\ (i + StepLength(ev, i)) % Len(ev) < Len(ev)
<1>1. Len(ev) \in Nat /\ MaxEvents \in Nat
  BY LenTyped, Constants
<1>2. i \in 0 .. Len(ev) - 1 /\ i \in Indexes
  BY <1>1 DEF Indexes
<1>3. ASSUME ~Endless(ev)
      PROVE  /\ (i + StepLength(ev, i)) % Len(ev) \in Indexes
             /\ (i + StepLength(ev, i)) % Len(ev) < Len(ev)
  <2> DEFINE j == (i + StepLength(ev, i)) % Len(ev)
  <2>1. j \in 0 .. Len(ev) - 1
    BY <1>2, <1>3, StepEnds
  <2> HIDE DEF j
  <2>2. j \in Indexes /\ j < Len(ev)
    BY <1>1, <2>1 DEF Indexes
  <2> QED
    BY <2>2 DEF j
<1> QED
  BY <1>2, <1>3

\* finishPreviousNotes leaves the position in the sequence.
LEMMA AfterFinishInside ==
  ASSUME RecordTyped, NEW t \in Tracks, NEW p \in Indexes \cup {-1},
         events[t] # <<>> => p < Len(events[t]),
         Finishes(t, p) => ~Endless(events[t])
  PROVE  /\ AfterFinish(t, p) \in Indexes \cup {-1}
         /\ events[t] # <<>> => AfterFinish(t, p) < Len(events[t])
<1>1. CASE Finishes(t, p)
  <2>1. events[t] # <<>> /\ p \in Nat /\ ~Endless(events[t])
        /\ AfterFinish(t, p) = (p + StepLength(events[t], p)) % Len(events[t])
    BY <1>1, IndexesTyped DEF Finishes, AfterFinish
  <2>2. events[t] \in Seq(Event) /\ Len(events[t]) <= MaxEvents /\ p < Len(events[t])
    BY <2>1 DEF RecordTyped
  <2> QED
    BY <2>1, <2>2, PositionInside
<1>2. CASE ~Finishes(t, p)
  BY <1>2 DEF AfterFinish
<1> QED
  BY <1>1, <1>2

\* playStep: the types, and that the tracks that play stay in their sequences.
LEMMA PlayStepsTyped ==
  ASSUME RecordTyped, PlayTyped, NEW S \in SUBSET Tracks,
         NEW i \in [Tracks -> Indexes], NEW p \in [Tracks -> Indexes \cup {-1}],
         \A t \in S : Inside(events[t], i[t], p[t]), PlaySteps(S, i, p)
  PROVE  /\ PlayTyped'
         /\ ~dead' => /\ \A t \in S : Inside(events[t], eventIndex'[t], prevEventIndex'[t])
                      /\ \A t \in Tracks \ S : eventIndex'[t] = i[t] /\ prevEventIndex'[t] = p[t]
<1> DEFINE active   == {t \in S : events[t] # <<>>}
           kind(t)  == At(events[t], i[t]).kind
           ended(t) == IF kind(t) = "tie" THEN {} ELSE Finished(t, p[t])
<1>0. transpose \in Transposes
  BY DEF RecordTyped
<1>1. CASE \E t \in active : Endless(events[t])
  <2>1. dead' = TRUE /\ UNCHANGED positionVars
    BY <1>1 DEF PlaySteps
  <2> QED
    BY <2>1 DEF PlayTyped, positionVars
<1>2. CASE ~ \E t \in active : Endless(events[t])
  <2>1. /\ eventIndex' = [t \in Tracks |->
             IF t \in active THEN (i[t] + StepLength(events[t], i[t])) % Len(events[t]) ELSE i[t]]
        /\ prevEventIndex' = [t \in Tracks |-> IF t \in active THEN AfterStep(t, i[t], p[t]) ELSE p[t]]
        /\ previousTranspose' = [t \in Tracks |->
             IF t \in active /\ kind(t) = "note" THEN transpose ELSE previousTranspose[t]]
        /\ sounding' = [t \in Tracks |->
             IF t \in active
             THEN (sounding[t] \ ended(t)) \cup {n + transpose : n \in StepNotes(events[t], i[t])}
             ELSE sounding[t]]
        /\ dead' = dead
    BY <1>2 DEF PlaySteps
  <2>2. ASSUME NEW t \in active
        PROVE  /\ events[t] \in Seq(Event) /\ Len(events[t]) <= MaxEvents /\ events[t] # <<>>
               /\ i[t] \in Nat /\ i[t] < Len(events[t]) /\ ~Endless(events[t])
               /\ p[t] \in Indexes \cup {-1} /\ p[t] < Len(events[t])
               /\ i[t] \in 0 .. Len(events[t]) - 1 /\ i[t] \in Indexes
    <3>1. t \in Tracks /\ events[t] # <<>> /\ ~Endless(events[t])
      BY <1>2
    <3>2. events[t] \in Seq(Event) /\ Len(events[t]) <= MaxEvents
      BY <3>1 DEF RecordTyped
    <3>3. i[t] < Len(events[t]) /\ p[t] < Len(events[t])
      BY <3>1 DEF Inside
    <3>4. i[t] \in Nat /\ p[t] \in Indexes \cup {-1}
      BY <3>1, IndexesTyped
    <3> QED
      BY <3>1, <3>2, <3>3, <3>4, PositionInside
  <2>3. ASSUME NEW t \in active
        PROVE  /\ (i[t] + StepLength(events[t], i[t])) % Len(events[t]) \in Indexes
               /\ (i[t] + StepLength(events[t], i[t])) % Len(events[t]) < Len(events[t])
    BY <2>2, PositionInside
  <2>4. ASSUME NEW t \in active
        PROVE  /\ AfterStep(t, i[t], p[t]) \in Indexes \cup {-1}
               /\ AfterStep(t, i[t], p[t]) < Len(events[t])
    <3>1. AfterFinish(t, p[t]) \in Indexes \cup {-1} /\ AfterFinish(t, p[t]) < Len(events[t])
      BY <2>2, AfterFinishInside
    <3> QED
      BY <2>2, <3>1 DEF AfterStep
  <2>5. eventIndex' \in [Tracks -> Indexes]
    BY <2>1, <2>3
  <2>6. prevEventIndex' \in [Tracks -> Indexes \cup {-1}]
    BY <2>1, <2>4
  <2>7. previousTranspose' \in [Tracks -> Transposes]
    BY <1>0, <2>1 DEF PlayTyped
  <2>8. sounding' \in [Tracks -> SUBSET Pitches]
    <3>1. ASSUME NEW t \in active
          PROVE  {n + transpose : n \in StepNotes(events[t], i[t])} \subseteq Pitches
      <4>1. StepNotes(events[t], i[t]) \subseteq 0 .. 63
        BY <2>2, StepNotesTyped
      <4>2. ASSUME NEW n \in StepNotes(events[t], i[t]) PROVE n + transpose \in Pitches
        <5>1. n \in 0 .. 63
          BY <4>1
        <5>2. \E k \in 0 .. 63 : \E x \in Transposes : n + transpose = k + x
          BY <1>0, <5>1, Zenon
        <5> HIDE DEF ended, active, kind
        <5> QED
          BY <5>2 DEF Pitches
      <4> QED
        BY <4>2
    <3>2. \A t \in Tracks : sounding[t] \subseteq Pitches
      BY DEF PlayTyped
    <3> HIDE DEF ended, active
    <3>3. \A t \in Tracks : (sounding[t] \ ended(t)) \subseteq Pitches
      BY <3>2
    <3> QED
      BY <2>1, <3>1, <3>2, <3>3
  <2>9. PlayTyped'
    BY <2>1, <2>5, <2>6, <2>7, <2>8 DEF PlayTyped
  <2>10. ASSUME NEW t \in S PROVE Inside(events[t], eventIndex'[t], prevEventIndex'[t])
    <3>1. CASE t \in active
      <4>1. eventIndex'[t] = (i[t] + StepLength(events[t], i[t])) % Len(events[t])
            /\ prevEventIndex'[t] = AfterStep(t, i[t], p[t])
        BY <2>1, <3>1
      <4> QED
        BY <2>3, <2>4, <3>1, <4>1 DEF Inside
    <3>2. CASE t \notin active
      BY <3>2 DEF Inside
    <3> QED
      BY <3>1, <3>2
  <2>11. ASSUME NEW t \in Tracks \ S PROVE eventIndex'[t] = i[t] /\ prevEventIndex'[t] = p[t]
    <3>1. t \notin active
      OBVIOUS
    <3> HIDE DEF active
    <3> QED
      BY <2>1, <3>1
  <2> QED
    BY <2>9, <2>10, <2>11
<1> QED
  BY <1>1, <1>2

\* playStep: what a track turned off before is what it turned on.
LEMMA PlayStepsSound ==
  ASSUME RecordTyped, PlayTyped, SequencesWellFormed, NEW S \in SUBSET Tracks,
         NEW i \in [Tracks -> Indexes], NEW p \in [Tracks -> Indexes \cup {-1}],
         \A t \in S : Inside(events[t], i[t], p[t]), PlaySteps(S, i, p), ~dead',
         \A t \in S : sounding[t] \subseteq TurnedOff(events[t], p[t], previousTranspose[t])
  PROVE  /\ \A t \in S :
              sounding'[t] \subseteq TurnedOff(events[t], prevEventIndex'[t], previousTranspose'[t])
         /\ \A t \in Tracks \ S : /\ sounding'[t] = sounding[t]
                                  /\ previousTranspose'[t] = previousTranspose[t]
<1> DEFINE active   == {t \in S : events[t] # <<>>}
           kind(t)  == At(events[t], i[t]).kind
           ended(t) == IF kind(t) = "tie" THEN {} ELSE Finished(t, p[t])
<1>1. ~ \E t \in active : Endless(events[t])
  BY DEF PlaySteps
<1>2. /\ prevEventIndex' = [t \in Tracks |-> IF t \in active THEN AfterStep(t, i[t], p[t]) ELSE p[t]]
      /\ previousTranspose' = [t \in Tracks |->
           IF t \in active /\ kind(t) = "note" THEN transpose ELSE previousTranspose[t]]
      /\ sounding' = [t \in Tracks |->
           IF t \in active
           THEN (sounding[t] \ ended(t)) \cup {n + transpose : n \in StepNotes(events[t], i[t])}
           ELSE sounding[t]]
  BY <1>1 DEF PlaySteps
<1>3. ASSUME NEW t \in S
      PROVE  sounding'[t] \subseteq TurnedOff(events[t], prevEventIndex'[t], previousTranspose'[t])
  <2>1. CASE t \notin active
    <3>1. sounding'[t] = sounding[t] /\ events[t] = <<>>
      BY <1>2, <2>1
    <3>2. sounding[t] = {}
      BY <3>1 DEF TurnedOff
    <3> QED
      BY <3>1, <3>2
  <2>2. CASE t \in active
    <3>1. t \in Tracks /\ events[t] # <<>> /\ ~Endless(events[t]) /\ events[t] \in Seq(Event)
          /\ WellFormed(events[t]) /\ Len(events[t]) <= MaxEvents
      BY <1>1, <2>2 DEF RecordTyped, SequencesWellFormed
    <3>2. i[t] \in Nat /\ i[t] < Len(events[t]) /\ i[t] >= 0
      BY <3>1, IndexesTyped DEF Inside
    <3>3. i[t] \in 0 .. Len(events[t]) - 1
      BY <3>1, <3>2, PositionInside
    <3>4. /\ prevEventIndex'[t] = AfterStep(t, i[t], p[t])
          /\ previousTranspose'[t] = IF kind(t) = "note" THEN transpose ELSE previousTranspose[t]
          /\ sounding'[t] = (sounding[t] \ ended(t))
                              \cup {n + transpose : n \in StepNotes(events[t], i[t])}
      BY <1>2, <2>2, <3>1
    <3>5. sounding[t] \subseteq Finished(t, p[t])
      BY <3>1 DEF TurnedOff, Finished, Finishes
    <3>6. kind(t) # "note" => {n + transpose : n \in StepNotes(events[t], i[t])} = {}
      BY <3>1, <3>3, SingleStep
    <3>7. CASE kind(t) = "note"
      <4>1. prevEventIndex'[t] = i[t] /\ previousTranspose'[t] = transpose
        BY <3>4, <3>7 DEF AfterStep
      <4>2. ended(t) = Finished(t, p[t])
        BY <3>7
      <4>3. sounding'[t] = {n + transpose : n \in StepNotes(events[t], i[t])}
        BY <3>4, <3>5, <4>2
      <4> QED
        BY <3>1, <3>2, <3>7, <4>1, <4>3 DEF TurnedOff
    <3>8. CASE kind(t) = "tie"
      <4>1. prevEventIndex'[t] = p[t] /\ previousTranspose'[t] = previousTranspose[t]
        BY <3>4, <3>8 DEF AfterStep
      <4>2. sounding'[t] = sounding[t]
        BY <3>4, <3>6, <3>8
      <4> QED
        BY <4>1, <4>2
    <3>9. CASE kind(t) # "note" /\ kind(t) # "tie"
      <4>1. ended(t) = Finished(t, p[t])
        BY <3>9
      <4>2. sounding'[t] = {}
        BY <3>4, <3>5, <3>6, <3>9, <4>1
      <4> QED
        BY <4>2
    <3> QED
      BY <3>7, <3>8, <3>9
  <2> QED
    BY <2>1, <2>2
<1>4. ASSUME NEW t \in Tracks \ S
      PROVE  sounding'[t] = sounding[t] /\ previousTranspose'[t] = previousTranspose[t]
  <2>1. t \notin active
    OBVIOUS
  <2> HIDE DEF active
  <2> QED
    BY <1>2, <2>1
<1> QED
  BY <1>3, <1>4

\* The notes that are on are those that finishPreviousNotes turns off.
Quiet ==
  \A t \in Tracks :
    sounding[t] \subseteq
      (IF mode[t] = "playing"
       THEN TurnedOff(events[t], prevEventIndex[t], previousTranspose[t]) ELSE {})

LEMMA QuietMeans == Quiet => NothingLeftOn
BY DEF Quiet, NothingLeftOn, TurnedOff, Finished, Finishes

LEMMA TurnedOffFinishes ==
  ASSUME NEW t \in Tracks, NEW p
  PROVE  TurnedOff(events[t], p, previousTranspose[t]) \subseteq Finished(t, p)
BY DEF TurnedOff, Finished, Finishes

LEMMA InitPlays == Init => PlayTyped /\ InTrack /\ Quiet
<1> SUFFICES ASSUME Init PROVE PlayTyped /\ InTrack /\ Quiet
  OBVIOUS
<1>1. PlayTyped
  BY IndexesTyped, Constants DEF Init, PlayTyped
<1>2. InTrack /\ Quiet
  BY DEF Init, InTrack, Quiet
<1> QED
  BY <1>1, <1>2

\* A step that neither plays nor starts or stops a track.
LEMMA OthersPlay ==
  ASSUME PlayTyped, InTrack, UNCHANGED positionVars, dead' = dead,
         \A t \in Tracks : mode'[t] = "playing" <=> mode[t] = "playing",
         \A t \in Tracks : mode[t] = "playing" => events'[t] = events[t]
  PROVE  PlayTyped' /\ InTrack' /\ (Quiet => Quiet')
<1>1. PlayTyped'
  BY DEF PlayTyped, positionVars
<1>2. InTrack'
  BY DEF InTrack, positionVars
<1>3. Quiet => Quiet'
  BY DEF Quiet, positionVars
<1> QED
  BY <1>1, <1>2, <1>3

\* Tracks that start stand at the beginning with nothing to finish, and some
\* play their first step at once.
LEMMA StartPlays ==
  ASSUME RecordInv, PlayTyped, InTrack, ~dead, NEW S \in SUBSET Tracks,
         NEW early \in SUBSET S, \A t \in S : mode[t] # "playing", StartPlaying(S, early),
         \A t \in Tracks : t \in S \/ mode[t] = "playing" => events'[t] = events[t]
  PROVE  /\ PlayTyped' /\ InTrack'
         /\ Quiet /\ SequencesWellFormed /\ ~dead' => Quiet'
<1> DEFINE i == [t \in Tracks |-> IF t \in S THEN 0 ELSE eventIndex[t]]
           p == [t \in Tracks |-> IF t \in S THEN -1 ELSE prevEventIndex[t]]
<1>1. PlaySteps(early, i, p) /\ early \in SUBSET Tracks
  BY DEF StartPlaying
<1>2. i \in [Tracks -> Indexes] /\ p \in [Tracks -> Indexes \cup {-1}]
  BY IndexesTyped DEF PlayTyped
<1>3. \A t \in S : i[t] = 0 /\ p[t] = -1
  OBVIOUS
<1>4. \A t \in Tracks \ S : i[t] = eventIndex[t] /\ p[t] = prevEventIndex[t]
  OBVIOUS
<1>5. \A t \in S : Inside(events[t], 0, -1)
  <2> TAKE t \in S
  <2>1. events[t] \in Seq(Event)
    BY DEF RecordInv, RecordTyped
  <2>2. events[t] # <<>> => Len(events[t]) > 0
    BY <2>1, LenTyped
  <2>3. events[t] # <<>> => 0 < Len(events[t]) /\ -1 < Len(events[t])
    BY <2>1, <2>2, LenTyped
  <2> QED
    BY <2>3 DEF Inside
<1>6. \A t \in Tracks : mode'[t] = IF t \in S THEN "playing" ELSE mode[t]
  BY <1>1, ModesPlaying
<1> HIDE DEF i, p
<1>7. \A t \in early : Inside(events[t], i[t], p[t])
  BY <1>3, <1>5
<1>8. /\ PlayTyped'
      /\ ~dead' => /\ \A t \in early : Inside(events[t], eventIndex'[t], prevEventIndex'[t])
                   /\ \A t \in Tracks \ early : eventIndex'[t] = i[t] /\ prevEventIndex'[t] = p[t]
  BY <1>1, <1>2, <1>7, PlayStepsTyped DEF RecordInv
<1>9. InTrack'
  <2> SUFFICES ASSUME ~dead', NEW t \in Tracks, mode'[t] = "playing"
               PROVE  Inside(events'[t], eventIndex'[t], prevEventIndex'[t])
    BY DEF InTrack
  <2>1. t \in S \/ mode[t] = "playing"
    BY <1>6
  <2>2. events'[t] = events[t]
    BY <2>1
  <2>3. CASE t \in early
    BY <1>8, <2>2, <2>3
  <2>4. CASE t \in S \ early
    BY <1>3, <1>5, <1>8, <2>2, <2>4
  <2>5. CASE t \notin S
    <3>1. eventIndex'[t] = eventIndex[t] /\ prevEventIndex'[t] = prevEventIndex[t]
      BY <1>4, <1>8, <2>5
    <3>2. Inside(events[t], eventIndex[t], prevEventIndex[t])
      BY <2>1, <2>5 DEF InTrack
    <3> QED
      BY <2>2, <3>1, <3>2
  <2> QED
    BY <2>3, <2>4, <2>5
<1>10. ASSUME Quiet, SequencesWellFormed, ~dead' PROVE Quiet'
  <2>1. \A t \in S : sounding[t] = {}
    BY <1>10 DEF Quiet
  <2>2. \A t \in early :
          sounding[t] \subseteq TurnedOff(events[t], p[t], previousTranspose[t])
    BY <2>1
  <2>3. /\ \A t \in early :
             sounding'[t] \subseteq TurnedOff(events[t], prevEventIndex'[t], previousTranspose'[t])
        /\ \A t \in Tracks \ early : /\ sounding'[t] = sounding[t]
                                     /\ previousTranspose'[t] = previousTranspose[t]
    BY <1>1, <1>2, <1>7, <1>10, <2>2, PlayStepsSound DEF RecordInv
  <2> SUFFICES ASSUME NEW t \in Tracks
               PROVE  sounding'[t] \subseteq
                        (IF mode'[t] = "playing"
                         THEN TurnedOff(events'[t], prevEventIndex'[t], previousTranspose'[t])
                         ELSE {})
    BY DEF Quiet
  <2>4. CASE t \in early
    BY <1>6, <2>3, <2>4
  <2>5. CASE t \in S \ early
    BY <2>1, <2>3, <2>5
  <2>6. CASE t \notin S
    <3>1. /\ sounding'[t] = sounding[t] /\ previousTranspose'[t] = previousTranspose[t]
          /\ prevEventIndex'[t] = prevEventIndex[t] /\ mode'[t] = mode[t]
      BY <1>4, <1>6, <1>8, <1>10, <2>3, <2>6
    <3>2. mode[t] = "playing" => events'[t] = events[t]
      OBVIOUS
    <3> QED
      BY <1>10, <3>1, <3>2 DEF Quiet
  <2> QED
    BY <2>4, <2>5, <2>6
<1> QED
  BY <1>8, <1>9, <1>10

\* A beat of the clock.
LEMMA UpdatePlays ==
  ASSUME RecordInv, PlayTyped, InTrack, ~dead, Update
  PROVE  /\ PlayTyped' /\ InTrack'
         /\ Quiet /\ SequencesWellFormed /\ ~dead' => Quiet'
<1> DEFINE playing == {t \in Tracks : mode[t] = "playing"}
<1>1. PlaySteps(playing, eventIndex, prevEventIndex) /\ playing \in SUBSET Tracks
      /\ UNCHANGED <<mode, events>>
  BY DEF Update
<1>2. eventIndex \in [Tracks -> Indexes] /\ prevEventIndex \in [Tracks -> Indexes \cup {-1}]
  BY DEF PlayTyped
<1>3. \A t \in playing : Inside(events[t], eventIndex[t], prevEventIndex[t])
  BY DEF InTrack
<1>4. \A t \in Tracks : t \in playing <=> mode[t] = "playing"
  OBVIOUS
<1> HIDE DEF playing
<1>5. /\ PlayTyped'
      /\ ~dead' => \A t \in playing : Inside(events[t], eventIndex'[t], prevEventIndex'[t])
  BY <1>1, <1>2, <1>3, PlayStepsTyped DEF RecordInv
<1>6. InTrack'
  BY <1>1, <1>4, <1>5 DEF InTrack
<1>7. ASSUME Quiet, SequencesWellFormed, ~dead' PROVE Quiet'
  <2>1. \A t \in playing :
          sounding[t] \subseteq TurnedOff(events[t], prevEventIndex[t], previousTranspose[t])
    BY <1>1, <1>4, <1>7 DEF Quiet
  <2>2. /\ \A t \in playing :
             sounding'[t] \subseteq TurnedOff(events[t], prevEventIndex'[t], previousTranspose'[t])
        /\ \A t \in Tracks \ playing : sounding'[t] = sounding[t]
    BY <1>1, <1>2, <1>3, <1>7, <2>1, PlayStepsSound DEF RecordInv
  <2>3. \A t \in Tracks \ playing : sounding[t] = {}
    BY <1>4, <1>7 DEF Quiet
  <2> QED
    BY <1>1, <1>4, <2>2, <2>3 DEF Quiet
<1> QED
  BY <1>5, <1>6, <1>7

LEMMA StopPlays ==
  ASSUME RecordInv, PlayTyped, InTrack, ~dead, NEW t \in Tracks, Stop(t)
  PROVE  PlayTyped' /\ InTrack' /\ (Quiet /\ ~dead' => Quiet')
<1>0. mode \in [Tracks -> Modes]
  BY DEF RecordInv, RecordTyped
<1>1. mode[t] = "playing" /\ UNCHANGED <<events, eventIndex, previousTranspose>>
  BY DEF Stop
<1>2. CASE Finishes(t, prevEventIndex[t]) /\ Endless(events[t])
  <2>1. dead' = TRUE /\ UNCHANGED <<mode, prevEventIndex, sounding>>
    BY <1>2 DEF Stop
  <2> QED
    BY <1>1, <2>1 DEF PlayTyped, InTrack
<1>3. CASE ~(Finishes(t, prevEventIndex[t]) /\ Endless(events[t]))
  <2>1. /\ mode' = [mode EXCEPT ![t] = "off"] /\ dead' = dead
        /\ sounding' = [sounding EXCEPT ![t] = @ \ Finished(t, prevEventIndex[t])]
        /\ prevEventIndex' = [prevEventIndex EXCEPT ![t] = AfterFinish(t, prevEventIndex[t])]
    BY <1>3 DEF Stop
  <2>2. prevEventIndex[t] \in Indexes \cup {-1}
        /\ (events[t] # <<>> => prevEventIndex[t] < Len(events[t]))
    BY <1>1 DEF PlayTyped, InTrack, Inside
  <2>3. AfterFinish(t, prevEventIndex[t]) \in Indexes \cup {-1}
    BY <1>3, <2>2, AfterFinishInside DEF RecordInv
  <2>4. PlayTyped'
    <3>1. prevEventIndex' \in [Tracks -> Indexes \cup {-1}]
      BY <2>1, <2>3 DEF PlayTyped
    <3>2. sounding' \in [Tracks -> SUBSET Pitches]
      BY <2>1 DEF PlayTyped
    <3> QED
      BY <1>1, <2>1, <3>1, <3>2 DEF PlayTyped
  <2>5. \A u \in Tracks : mode'[u] = IF u = t THEN "off" ELSE mode[u]
    BY <1>0, <2>1
  <2>6. \A u \in Tracks \ {t} : prevEventIndex'[u] = prevEventIndex[u] /\ sounding'[u] = sounding[u]
    BY <2>1 DEF PlayTyped
  <2>7. InTrack'
    BY <1>1, <2>1, <2>5, <2>6 DEF InTrack
  <2>8. ASSUME Quiet PROVE Quiet'
    <3>1. sounding[t] \subseteq Finished(t, prevEventIndex[t])
      BY <1>1, <2>8, TurnedOffFinishes DEF Quiet
    <3>2. sounding'[t] = {}
      BY <2>1, <3>1 DEF PlayTyped
    <3> QED
      BY <1>1, <2>5, <2>6, <2>8, <3>2 DEF Quiet
  <2> QED
    BY <2>4, <2>7, <2>8
<1> QED
  BY <1>2, <1>3

\* MIDI START and STOP leave nothing on and the tracks in their sequences.
LEMMA SilencePlays ==
  ASSUME RecordInv, PlayTyped, InTrack, ~dead,
         NEW prev \in [Tracks -> Indexes \cup {-1}], Silence(prev),
         UNCHANGED <<mode, events, previousTranspose>>,
         eventIndex' \in [Tracks -> Indexes],
         \A t \in Tracks : mode[t] = "playing" => Inside(events[t], eventIndex'[t], prev[t])
  PROVE  PlayTyped' /\ InTrack' /\ (Quiet /\ ~dead' => Quiet')
<1> DEFINE playing == {t \in Tracks : mode[t] = "playing"}
<1>1. CASE \E t \in playing : Finishes(t, prevEventIndex[t]) /\ Endless(events[t])
  <2>1. dead' = TRUE /\ UNCHANGED <<sounding, prevEventIndex>>
    BY <1>1 DEF Silence
  <2> QED
    BY <2>1 DEF PlayTyped, InTrack
<1>2. CASE ~ \E t \in playing : Finishes(t, prevEventIndex[t]) /\ Endless(events[t])
  <2>1. /\ sounding' = [t \in Tracks |->
             IF t \in playing THEN sounding[t] \ Finished(t, prevEventIndex[t]) ELSE sounding[t]]
        /\ prevEventIndex' = prev /\ dead' = dead
    BY <1>2 DEF Silence
  <2>2. sounding' \in [Tracks -> SUBSET Pitches]
    <3>1. \A t \in Tracks : sounding[t] \in SUBSET Pitches
                            /\ sounding[t] \ Finished(t, prevEventIndex[t]) \in SUBSET Pitches
      BY DEF PlayTyped
    <3> QED
      BY <2>1, <3>1
  <2>3. PlayTyped'
    BY <2>1, <2>2 DEF PlayTyped
  <2>4. InTrack'
    BY <2>1 DEF InTrack
  <2>5. ASSUME Quiet PROVE Quiet'
    <3>1. ASSUME NEW t \in Tracks PROVE sounding'[t] = {}
      <4>1. CASE t \in playing
        <5>1. sounding[t] \subseteq Finished(t, prevEventIndex[t])
          BY <2>5, <4>1, TurnedOffFinishes DEF Quiet
        <5> QED
          BY <2>1, <4>1, <5>1
      <4>2. CASE t \notin playing
        <5>1. sounding[t] = {}
          BY <2>5, <4>2 DEF Quiet
        <5> QED
          BY <2>1, <4>2, <5>1
      <4> QED
        BY <4>1, <4>2
    <3> QED
      BY <3>1 DEF Quiet
  <2> QED
    BY <2>3, <2>4, <2>5
<1> QED
  BY <1>1, <1>2

LEMMA MidiStartPlays ==
  ASSUME RecordInv, PlayTyped, InTrack, ~dead, MidiStart
  PROVE  PlayTyped' /\ InTrack' /\ (Quiet /\ ~dead' => Quiet')
<1> DEFINE prev == [t \in Tracks |-> -1]
<1>1. /\ Silence(prev) /\ eventIndex' = [t \in Tracks |-> 0]
      /\ UNCHANGED <<mode, events, previousTranspose>>
  BY DEF MidiStart
<1>2. prev \in [Tracks -> Indexes \cup {-1}] /\ eventIndex' \in [Tracks -> Indexes]
  BY <1>1, IndexesTyped
<1>3. \A t \in Tracks : prev[t] = -1 /\ eventIndex'[t] = 0
  BY <1>1
<1>4. ASSUME NEW t \in Tracks PROVE Inside(events[t], 0, -1)
  <2>1. events[t] \in Seq(Event)
    BY DEF RecordInv, RecordTyped
  <2>2. events[t] # <<>> => 0 < Len(events[t]) /\ -1 < Len(events[t])
    BY <2>1, LenTyped
  <2> QED
    BY <2>2 DEF Inside
<1> HIDE DEF prev
<1>5. \A t \in Tracks : Inside(events[t], eventIndex'[t], prev[t])
  BY <1>3, <1>4
<1> QED
  BY <1>1, <1>2, <1>5, SilencePlays

LEMMA MidiStopPlays ==
  ASSUME RecordInv, PlayTyped, InTrack, ~dead, MidiStop
  PROVE  PlayTyped' /\ InTrack' /\ (Quiet /\ ~dead' => Quiet')
<1> DEFINE prev == [t \in Tracks |->
              IF mode[t] = "playing" /\ ~Endless(events[t]) THEN AfterFinish(t, prevEventIndex[t])
              ELSE prevEventIndex[t]]
<1>1. /\ Silence(prev) /\ UNCHANGED <<mode, events, eventIndex, previousTranspose>>
  BY DEF MidiStop
<1>2. ASSUME NEW t \in Tracks
      PROVE  /\ prev[t] \in Indexes \cup {-1} /\ prevEventIndex[t] \in Indexes \cup {-1}
             /\ mode[t] = "playing" => Inside(events[t], eventIndex'[t], prev[t])
  <2>1. prevEventIndex[t] \in Indexes \cup {-1}
    BY DEF PlayTyped
  <2>2. mode[t] = "playing" => Inside(events[t], eventIndex[t], prevEventIndex[t])
    BY DEF InTrack
  <2>3. CASE mode[t] = "playing" /\ ~Endless(events[t])
    <3>1. prev[t] = AfterFinish(t, prevEventIndex[t])
      BY <2>3
    <3>2. /\ AfterFinish(t, prevEventIndex[t]) \in Indexes \cup {-1}
          /\ events[t] # <<>> => AfterFinish(t, prevEventIndex[t]) < Len(events[t])
      BY <2>1, <2>2, <2>3, AfterFinishInside DEF RecordInv, Inside
    <3> QED
      BY <1>1, <2>1, <2>2, <2>3, <3>1, <3>2 DEF Inside
  <2>4. CASE ~(mode[t] = "playing" /\ ~Endless(events[t]))
    <3>1. prev[t] = prevEventIndex[t]
      BY <2>4
    <3> QED
      BY <1>1, <2>1, <2>2, <3>1
  <2> QED
    BY <2>3, <2>4
<1>3. prev \in [Tracks -> Indexes \cup {-1}] /\ eventIndex' \in [Tracks -> Indexes]
  <2>1. DOMAIN prev = Tracks
    OBVIOUS
  <2>2. prev = [t \in Tracks |-> prev[t]]
    OBVIOUS
  <2> HIDE DEF prev
  <2> QED
    BY <1>1, <1>2, <2>2 DEF PlayTyped
<1> HIDE DEF prev
<1> QED
  BY <1>1, <1>2, <1>3, SilencePlays

\* The tracks that play are not the ones that record: recording leaves their
\* sequences and positions alone.
LEMMA RecorderPlays ==
  ASSUME RecordInv, PlayTyped, InTrack, NEW r \in Recording, NEW ev,
         UNCHANGED <<mode, positionVars>>, dead' = dead,
         events' = [t \in Tracks |-> IF t = r THEN ev ELSE events[t]]
  PROVE  PlayTyped' /\ InTrack' /\ (Quiet => Quiet')
<1>1. mode[r] # "playing"
  BY DEF Recording
<1>2. \A t \in Tracks : mode[t] = "playing" => events'[t] = events[t]
  BY <1>1
<1> QED
  BY <1>2, OthersPlay

LEMMA PressPlays ==
  ASSUME RecordInv, PlayTyped, InTrack, ~dead, NEW k \in Keys, NEW early \in SUBSET Tracks,
         KeyPress(k, early)
  PROVE  PlayTyped' /\ InTrack' /\ (Quiet /\ SequencesWellFormed /\ ~dead' => Quiet')
<1> DEFINE waiting == {t \in Tracks : mode[t] = "waiting"}
<1>1. /\ StartPlaying(waiting, early) /\ early \in SUBSET waiting
      /\ events' = [t \in Tracks |->
           IF t \in Recording THEN events[t] \o Added(t, k) ELSE events[t]]
  BY DEF KeyPress
<1>2. \A t \in Tracks : t \in waiting \/ mode[t] = "playing" => events'[t] = events[t]
  BY <1>1 DEF Recording
<1>3. waiting \in SUBSET Tracks /\ \A t \in waiting : mode[t] # "playing"
  OBVIOUS
<1> HIDE DEF waiting
<1> QED
  BY <1>1, <1>2, <1>3, StartPlays

LEMMA ReleasePlays ==
  ASSUME RecordInv, PlayTyped, InTrack, NEW k \in Keys, KeyRelease(k)
  PROVE  PlayTyped' /\ InTrack' /\ (Quiet => Quiet')
<1>1. UNCHANGED positionVars
  BY DEF KeyRelease
<1>2. ASSUME NEW r \in Recording PROVE PlayTyped' /\ InTrack' /\ (Quiet => Quiet')
  <2>1. /\ mode' = mode /\ dead' = dead
        /\ events' = [t \in Tracks |->
             IF t = r THEN IF noteOns > 1 THEN events[r]
                           ELSE events[r] \o [i \in 1 .. addTies |-> Tie]
             ELSE events[t]]
    BY ReleaseRecorded
  <2> QED
    BY <1>1, <2>1, RecorderPlays
<1>3. CASE Recording = {}
  BY <1>1, <1>3, ReleaseIdleRecords, OthersPlay
<1> QED
  BY <1>2, <1>3

LEMMA EditPlays ==
  ASSUME RecordInv, PlayTyped, InTrack, Clear \/ Undo \/ Step
  PROVE  PlayTyped' /\ InTrack' /\ (Quiet => Quiet')
<1>1. Recording # {} /\ UNCHANGED <<mode, positionVars>> /\ dead' = dead
  BY DEF Clear, Undo, Step
<1>2. PICK r \in Recording : TRUE
  BY <1>1
<1>3. CASE Clear
  <2>1. events' = [t \in Tracks |-> IF t = r THEN <<>> ELSE events[t]]
    BY <1>2, <1>3, Alone DEF Clear
  <2> QED
    BY <1>1, <2>1, RecorderPlays
<1>4. CASE Undo
  BY <1>1, <1>4, UndoRecorded, RecorderPlays
<1>5. CASE Step
  <2> DEFINE ev == IF Len(events[r]) + addTies < MaxEvents /\ noteOns = 0
                   THEN Append(events[r], Rest) ELSE events[r]
  <2>1. events' = [t \in Tracks |-> IF t = r THEN ev ELSE events[t]]
    BY <1>5, StepRecorded
  <2> HIDE DEF ev
  <2> QED
    BY <1>1, <2>1, RecorderPlays
<1> QED
  BY <1>3, <1>4, <1>5

LEMMA ButtonPlays ==
  ASSUME RecordInv, PlayTyped, InTrack, ~dead, NEW t \in Tracks, TrackButton(t)
  PROVE  PlayTyped' /\ InTrack' /\ (Quiet /\ SequencesWellFormed /\ ~dead' => Quiet')
<1>0. mode \in [Tracks -> Modes]
  BY DEF RecordInv, RecordTyped
<1>1. ASSUME NEW early \in SUBSET {t}, Start(t, early)
      PROVE  PlayTyped' /\ InTrack' /\ (Quiet /\ SequencesWellFormed /\ ~dead' => Quiet')
  <2>1. StartPlaying({t}, early) /\ events' = events /\ mode[t] # "playing"
    BY <1>1 DEF Start
  <2> QED
    BY <2>1, StartPlays
<1>2. CASE Wait(t)
  <2>1. /\ UNCHANGED positionVars /\ dead' = dead /\ events' = events
        /\ mode[t] = "off" /\ mode' = [mode EXCEPT ![t] = "waiting"]
    BY <1>2 DEF Wait
  <2>2. \A u \in Tracks : mode'[u] = "playing" <=> mode[u] = "playing"
    BY <1>0, <2>1
  <2> QED
    BY <2>1, <2>2, OthersPlay
<1>3. CASE Stop(t)
  BY <1>3, StopPlays
<1>4. CASE StartRecording(t)
  <2>1. /\ UNCHANGED positionVars /\ dead' = dead /\ events' = events
        /\ mode[t] = "off" /\ mode' = [mode EXCEPT ![t] = "recording"]
    BY <1>4 DEF StartRecording
  <2>2. \A u \in Tracks : mode'[u] = "playing" <=> mode[u] = "playing"
    BY <1>0, <2>1
  <2> QED
    BY <2>1, <2>2, OthersPlay
<1> QED
  BY <1>1, <1>2, <1>3, <1>4 DEF TrackButton

LEMMA NextPlays ==
  ASSUME RecordInv, PlayTyped, InTrack, [Next]_vars
  PROVE  PlayTyped' /\ InTrack' /\ (Quiet /\ SequencesWellFormed /\ ~dead' => Quiet')
<1> DEFINE Goal == PlayTyped' /\ InTrack' /\ (Quiet /\ SequencesWellFormed /\ ~dead' => Quiet')
<1>1. CASE UNCHANGED vars
  BY <1>1, OthersPlay DEF vars, positionVars
<1>2. CASE Next
  <2>0. ~dead
    BY <1>2 DEF Next
  <2>1. CASE Update \/ MidiStart \/ MidiStop
    BY <2>0, <2>1, UpdatePlays, MidiStartPlays, MidiStopPlays
  <2>2. CASE Clear \/ Undo \/ Step
    BY <2>2, EditPlays
  <2>3. ASSUME NEW x \in Transposes, SetTranspose(x) PROVE Goal
    BY <2>3, OthersPlay DEF SetTranspose
  <2>4. ASSUME NEW t \in Tracks, TrackButton(t) PROVE Goal
    BY <2>0, <2>4, ButtonPlays
  <2>5. ASSUME NEW k \in Keys, Key(k) PROVE Goal
    <3>1. ASSUME NEW early \in SUBSET Tracks, KeyPress(k, early) PROVE Goal
      BY <2>0, <3>1, PressPlays
    <3>2. CASE KeyRelease(k)
      BY <3>2, ReleasePlays
    <3>3. CASE KeyReleaseShifted(k)
      BY <3>3, OthersPlay DEF KeyReleaseShifted
    <3> QED
      BY <2>5, <3>1, <3>2, <3>3 DEF Key
  <2> QED
    BY <1>2, <2>1, <2>2, <2>3, <2>4, <2>5 DEF Next
<1> QED
  BY <1>1, <1>2

\* Positions, counts and notes stay in their ranges, even when a sequence is
\* ill formed because steps were erased or a recording ended with keys down.
THEOREM SeqTypeOK ==
  ASSUME OneRecorder
  PROVE  Spec => []TypeOK
<1> DEFINE Inv == RecordInv /\ PlayTyped /\ InTrack
<1>1. Init => Inv
  BY InitRecords, InitPlays
<1>2. Inv /\ [Next]_vars => Inv'
  BY NextRecords, NextPlays
<1>3. Inv => TypeOK
  <2> SUFFICES ASSUME RecordInv, PlayTyped PROVE TypeOK
    OBVIOUS
  <2>1. ASSUME NEW t \in Tracks
        PROVE  /\ Len(events[t]) <= MaxEvents
               /\ eventIndex[t] \in 0 .. MaxEvents - 1
               /\ prevEventIndex[t] \in -1 .. MaxEvents - 1
               /\ stepCount[t] \in 0 .. MaxEvents
               /\ previousTranspose[t] \in Transposes
               /\ sounding[t] \subseteq Pitches
    <3>1. eventIndex[t] \in Indexes /\ prevEventIndex[t] \in Indexes \cup {-1}
          /\ previousTranspose[t] \in Transposes /\ sounding[t] \in SUBSET Pitches
      BY DEF PlayTyped
    <3>2. Len(events[t]) <= MaxEvents /\ stepCount[t] \in 0 .. MaxEvents
      BY DEF RecordInv, RecordTyped
    <3>3. eventIndex[t] \in 0 .. MaxEvents - 1 /\ prevEventIndex[t] \in -1 .. MaxEvents - 1
      BY <3>1, IndexesTyped DEF Indexes
    <3> QED
      BY <3>1, <3>2, <3>3
  <2>2. /\ mode \in [Tracks -> Modes] /\ events \in [Tracks -> Seq(Event)]
        /\ transpose \in Transposes /\ addTies \in 0 .. MaxEvents /\ noteOns \in 0 .. MaxNoteOns
        /\ keys \subseteq Keys /\ dead \in BOOLEAN
    BY DEF RecordInv, RecordTyped, PlayTyped
  <2> HIDE DEF Inv
  <2> QED
    BY <2>1, <2>2, Zenon DEF TypeOK
<1> QED
  BY <1>1, <1>2, <1>3, PTL DEF Spec

\* Whatever rests, ties, transpositions, beats and MIDI bytes come between, a
\* track turns off all that it turned on, at the pitch it was played at, and a
\* track that does not play sounds nothing.
THEOREM SeqNothingLeftOn ==
  ASSUME OneRecorder, KeysUp
  PROVE  Spec => []NothingLeftOn
<1> DEFINE Inv == /\ RecordInv /\ FormInv /\ ~dead
                  /\ PlayTyped /\ InTrack /\ Quiet
<1>1. Init => Inv
  BY InitRecords, InitForm, InitPlays DEF Init
<1>2. Inv /\ [Next]_vars => Inv'
  <2> SUFFICES ASSUME Inv, [Next]_vars PROVE Inv'
    OBVIOUS
  <2>1. RecordInv' /\ FormInv' /\ ~dead'
    BY NextRecords, NextForm, NextReturns
  <2>2. SequencesWellFormed
    BY DEF FormInv
  <2> QED
    BY <2>1, <2>2, NextPlays
<1>3. Inv => NothingLeftOn
  BY QuietMeans
<1> QED
  BY <1>1, <1>2, <1>3, PTL DEF Spec

=============================================================================
