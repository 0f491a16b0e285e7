----------------------------- MODULE ArpProofs -----------------------------
(***************************************************************************)
(* Theorems about Arp, for every memory size, keyboard and transpositions. *)
(***************************************************************************)
EXTENDS Arp, FiniteSetTheorems, TLAPS

\* The memory and the last note hold nothing but notes of keys.
KeyNotes == {Down(k) : k \in Keys} \cup {Held(k) : k \in Keys}

NotesKnown ==
  /\ notes \in [Places -> KeyNotes \cup {Empty}]
  /\ previousNote \in KeyNotes \cup {Empty}

\* Nothing sounds that finishPreviousNote would take for no note.
SoundingKnown == previousNote = Empty => sounding = {}

\* The inductive invariant.
ArpInv == TypeOK /\ NotesKnown /\ SoundingKnown /\ NothingLeftOn

-----------------------------------------------------------------------------
(* Places and notes *)

LEMMA KeyBounds ==
  ASSUME NEW k \in Keys
  PROVE  k \in 0 .. 126
BY KeysAssumption, MemoryAssumption DEF Places, Mirror

LEMMA KeyNoteFacts ==
  /\ Empty \in Place
  /\ \A p \in KeyNotes : p \in Place /\ p # Empty /\ p.note \in Keys
<1>1. Empty \in Place
  BY DEF Empty, Place
<1>2. ASSUME NEW k \in Keys
      PROVE  /\ Down(k) \in Place /\ Down(k) # Empty /\ Down(k).note \in Keys
             /\ Held(k) \in Place /\ Held(k) # Empty /\ Held(k).note \in Keys
  BY KeyBounds DEF Down, Held, Empty, Place
<1> QED
  BY <1>1, <1>2 DEF KeyNotes

\* A note stays a note when it is flagged.
LEMMA FlaggedNote ==
  ASSUME NEW p \in KeyNotes \cup {Empty}
  PROVE  /\ Held(p.note) \in KeyNotes \cup {Empty}
         /\ p # Empty => Held(p.note) # Empty
<1>1. CASE p = Empty
  <2>1. Held(p.note) = Empty
    BY <1>1 DEF Empty, Held
  <2> QED
    BY <1>1, <2>1
<1>2. CASE p \in KeyNotes
  <2>1. Held(p.note) \in KeyNotes
    BY <1>2, KeyNoteFacts DEF KeyNotes
  <2> QED
    BY <2>1, KeyNoteFacts
<1> QED
  BY <1>1, <1>2

\* A beat stops at a place that has a note.
LEMMA ChoicesFilled ==
  ASSUME ArpInv, mode # "off", ~isEmpty(notes), NEW n \in Choices
  PROVE  n \in Filled(notes)
<1>1. Filled(notes) \in SUBSET Places /\ Playable \in SUBSET Filled(notes)
  BY DEF Filled, Playable
<1>2. Cardinality(Filled(notes)) \in Nat \ {0}
  <2>1. IsFiniteSet(Places)
    BY MemoryAssumption, FS_Interval DEF Places
  <2>2. IsFiniteSet(Filled(notes))
    BY <2>1, <1>1, FS_Subset
  <2> QED
    BY <2>2, FS_CardinalityType, FS_EmptySet DEF isEmpty
<1>3. CASE mode # "random"
  BY <1>1, <1>3 DEF Choices
<1>4. CASE mode = "random"
  BY <1>2, <1>4 DEF Choices
<1> QED
  BY <1>3, <1>4

-----------------------------------------------------------------------------
(* What the invariant says of the notes *)

\* After finishPreviousNote nothing sounds.
LEMMA FinishedSilent ==
  ASSUME ArpInv
  PROVE  Finished = {}
<1>1. CASE previousNote = Empty
  BY <1>1 DEF ArpInv, SoundingKnown, Finished
<1>2. CASE previousNote # Empty
  BY <1>2 DEF ArpInv, NothingLeftOn, Finished
<1> QED
  BY <1>1, <1>2

\* What is known of the notes makes them of their type.
LEMMA NotesType ==
  ASSUME NEW ns \in [Places -> KeyNotes \cup {Empty}]
  PROVE  ns \in [Places -> Place]
BY KeyNoteFacts

-----------------------------------------------------------------------------
(* The invariant *)

LEMMA InitInv == Init => ArpInv
<1> SUFFICES ASSUME Init PROVE ArpInv
  OBVIOUS
<1>1. NotesKnown /\ SoundingKnown /\ NothingLeftOn
  BY DEF Init, NotesKnown, SoundingKnown, NothingLeftOn
<1>2. notes \in [Places -> Place] /\ previousNote \in Place
  BY <1>1, KeyNoteFacts DEF NotesKnown
<1>3. noteIndex \in -1 .. Memory - 1 /\ previousIndex \in -1 .. Memory - 1
  BY MemoryAssumption DEF Init
<1>4. /\ hold \in BOOLEAN /\ mode \in Modes /\ keys \subseteq Keys /\ sounding = {}
      /\ transpose \in Transposes /\ previousTranspose \in Transposes
  BY TransposesAssumption DEF Init, Modes
<1>5. TypeOK
  BY <1>2, <1>3, <1>4 DEF TypeOK
<1> QED
  BY <1>1, <1>5 DEF ArpInv

\* arp_setMode keeps the invariant: whatever clears the notes ends the last one.
LEMMA SetModeInv ==
  ASSUME ArpInv, NEW m \in Modes, NEW h \in BOOLEAN, SetMode(m, h)
  PROVE  ArpInv'
<1> DEFINE kills == m # mode /\ {m, mode} # {"random", "assign"}
           drops == ~h /\ hold
           kept  == IF kills THEN [i \in Places |-> Empty] ELSE notes
           left  == IF drops THEN WithoutHeld(kept) ELSE kept
<1>1. /\ mode' = m /\ hold' = (m # "off" /\ h)
      /\ notes' = left
      /\ noteIndex' = IF kills THEN -1 ELSE noteIndex
      /\ previousIndex' = IF kills THEN -1 ELSE previousIndex
      /\ previousNote' = IF kills THEN Empty ELSE previousNote
      /\ sounding' = IF kills \/ (drops /\ isEmpty(left)) THEN Finished ELSE sounding
      /\ UNCHANGED <<transpose, previousTranspose, keys>>
  BY DEF SetMode
<1>2. kept \in [Places -> KeyNotes \cup {Empty}]
  BY DEF ArpInv, NotesKnown
<1>3. WithoutHeld(kept) \in [Places -> KeyNotes \cup {Empty}]
  <2> HIDE DEF kept
  <2> QED BY <1>2 DEF WithoutHeld
<1>4. NotesKnown'
  BY <1>1, <1>2, <1>3 DEF ArpInv, NotesKnown
<1>5. sounding' = {} \/ (sounding' = sounding /\ ~kills)
  BY <1>1, FinishedSilent
<1>6. SoundingKnown'
  BY <1>1, <1>5 DEF ArpInv, SoundingKnown
<1>7. NothingLeftOn'
  <2>1. CASE sounding' = {}
    BY <2>1 DEF NothingLeftOn
  <2>2. CASE sounding' # {}
    <3>1. sounding' = sounding /\ ~kills /\ sounding # {}
      BY <2>2, <1>5
    <3>2. mode # "off" /\ ~isEmpty(notes)
      BY <3>1 DEF ArpInv, NothingLeftOn
    <3>3. mode' # "off"
      BY <3>1, <3>2, <1>1
    <3>4. ~isEmpty(left)
      <4>1. CASE drops
        <5>1. isEmpty(left) => sounding' = {}
          BY <4>1, <1>1, FinishedSilent
        <5> QED
          BY <5>1, <2>2
      <4>2. CASE ~drops
        BY <4>2, <3>1, <3>2
      <4> QED
        BY <4>1, <4>2
    <3>5. ~isEmpty(notes')
      BY <3>4, <1>1
    <3>6. previousNote' = previousNote /\ previousTranspose' = previousTranspose
      BY <3>1, <1>1
    <3>7. sounding \subseteq {previousNote.note + previousTranspose}
      BY <3>2 DEF ArpInv, NothingLeftOn
    <3>8. isEmpty(notes)' = isEmpty(notes')
      BY DEF isEmpty, Filled
    <3> QED
      BY <3>1, <3>3, <3>5, <3>6, <3>7, <3>8 DEF NothingLeftOn
  <2> QED
    BY <2>1, <2>2
<1>8. TypeOK'
  <2>1. notes' \in [Places -> Place] /\ previousNote' \in Place
    BY <1>4, KeyNoteFacts DEF NotesKnown
  <2>2. noteIndex' \in -1 .. Memory - 1 /\ previousIndex' \in -1 .. Memory - 1
    BY <1>1, MemoryAssumption DEF ArpInv, TypeOK
  <2>3. mode' \in Modes /\ hold' \in BOOLEAN
    BY <1>1
  <2>4. sounding' \subseteq {k + x : k \in Keys, x \in Transposes}
    BY <1>5 DEF ArpInv, TypeOK
  <2>5. /\ transpose' \in Transposes /\ previousTranspose' \in Transposes
        /\ keys' \subseteq Keys
    BY <1>1 DEF ArpInv, TypeOK
  <2> QED
    BY <2>1, <2>2, <2>3, <2>4, <2>5 DEF TypeOK
<1> QED
  BY <1>4, <1>6, <1>7, <1>8 DEF ArpInv

\* A step that leaves what sounds and the notes alone keeps the invariant.
LEMMA OthersInv ==
  ASSUME ArpInv,
         UNCHANGED <<notes, previousNote, previousTranspose, mode, sounding, hold, previousIndex>>,
         noteIndex' \in -1 .. Memory - 1, transpose' \in Transposes, keys' \in SUBSET Keys
  PROVE  ArpInv'
<1>1. TypeOK'
  BY DEF ArpInv, TypeOK
<1>2. NotesKnown' /\ SoundingKnown' /\ NothingLeftOn'
  BY DEF ArpInv, NotesKnown, SoundingKnown, NothingLeftOn, isEmpty, Filled
<1> QED
  BY <1>1, <1>2 DEF ArpInv

\* The notes that a key puts in its places are the memory's.
LEMMA PutNotes ==
  ASSUME ArpInv, NEW P, NEW p \in KeyNotes \cup {Empty}
  PROVE  Put(P, p) \in [Places -> KeyNotes \cup {Empty}]
BY DEF Put, ArpInv, NotesKnown

\* A key that is pressed leaves what sounds, with notes it can be told from.
LEMMA KeyPressInv ==
  ASSUME ArpInv, NEW k \in Keys, KeyPress(k)
  PROVE  ArpInv'
<1>1. /\ keys' = keys \cup {k}
      /\ UNCHANGED <<previousIndex, previousNote, transpose, previousTranspose, hold, mode,
                     sounding>>
  BY DEF KeyPress
<1>2. CASE mode = "off"
  <2>1. UNCHANGED <<notes, noteIndex>>
    BY <1>2 DEF KeyPress
  <2> QED
    BY <1>1, <2>1, OthersInv DEF ArpInv, TypeOK
<1>3. CASE mode # "off"
  <2>1. PICK P : notes' = Put(P, Down(k))
    BY <1>3 DEF KeyPress
  <2>2. noteIndex' \in -1 .. Memory - 1
    BY <1>3, MemoryAssumption DEF KeyPress, ArpInv, TypeOK
  <2>3. Down(k) \in KeyNotes
    BY DEF KeyNotes
  <2>4. notes' \in [Places -> KeyNotes \cup {Empty}]
    BY <2>1, <2>3, PutNotes
  <2>5. NotesKnown' /\ SoundingKnown'
    BY <1>1, <2>4 DEF ArpInv, NotesKnown, SoundingKnown
  <2>6. ~isEmpty(notes) => ~isEmpty(notes')
    <3>1. \A i \in Places : notes[i] # Empty => notes'[i] # Empty
      BY <2>1, <2>3, KeyNoteFacts DEF Put
    <3> QED
      BY <3>1 DEF isEmpty, Filled
  <2>7. NothingLeftOn'
    <3>1. isEmpty(notes)' = isEmpty(notes')
      BY DEF isEmpty, Filled
    <3> QED
      BY <1>1, <2>6, <3>1 DEF ArpInv, NothingLeftOn
  <2>8. TypeOK'
    <3>1. notes' \in [Places -> Place]
      BY <2>4, NotesType
    <3> QED
      BY <1>1, <2>2, <3>1 DEF ArpInv, TypeOK
  <2> QED
    BY <2>5, <2>7, <2>8 DEF ArpInv
<1> QED
  BY <1>2, <1>3

\* A released key ends the last note if it leaves no other; in latch mode its
\* own note stays.
LEMMA KeyReleaseInv ==
  ASSUME ArpInv, NEW k \in Keys, KeyRelease(k)
  PROVE  ArpInv'
<1>1. /\ keys' = keys \ {k}
      /\ UNCHANGED <<noteIndex, previousIndex, previousNote, transpose, previousTranspose, hold,
                     mode>>
  BY DEF KeyRelease
<1>2. CASE mode = "off"
  <2>1. UNCHANGED <<notes, sounding>>
    BY <1>2 DEF KeyRelease
  <2> QED
    BY <1>1, <2>1, OthersInv DEF ArpInv, TypeOK
<1>3. CASE mode # "off"
  <2>1. /\ notes' = Released(k)
        /\ sounding' = IF ~hold /\ isEmpty(notes') THEN Finished ELSE sounding
    BY <1>3 DEF KeyRelease
  <2>2. Held(k) \in KeyNotes
    BY DEF KeyNotes
  <2>3. notes' \in [Places -> KeyNotes \cup {Empty}]
    <3>1. CASE mode # "updown"
      BY <3>1, <2>1, <2>2, PutNotes DEF Released
    <3>2. CASE mode = "updown" /\ hold
      <4>1. notes' = [i \in Places |-> IF i \in KeyPlaces(k) THEN Held(notes[i].note) ELSE notes[i]]
        BY <3>2, <2>1 DEF Released
      <4> QED
        BY <4>1, FlaggedNote DEF ArpInv, NotesKnown
    <3>3. CASE mode = "updown" /\ ~hold
      BY <3>3, <2>1, PutNotes DEF Released
    <3> QED
      BY <3>1, <3>2, <3>3
  <2>4. hold /\ ~isEmpty(notes) => ~isEmpty(notes')
    <3> SUFFICES ASSUME hold PROVE \A i \in Places : notes[i] # Empty => notes'[i] # Empty
      BY DEF isEmpty, Filled
    <3>1. CASE mode # "updown"
      <4>1. notes' = Put(FirstWith(Down(k)), Held(k))
        BY <3>1, <2>1 DEF Released
      <4> QED
        BY <4>1, <2>2, KeyNoteFacts DEF Put
    <3>2. CASE mode = "updown"
      <4>1. notes' = [i \in Places |-> IF i \in KeyPlaces(k) THEN Held(notes[i].note) ELSE notes[i]]
        BY <3>2, <2>1 DEF Released
      <4> QED
        BY <4>1, FlaggedNote DEF ArpInv, NotesKnown
    <3> QED
      BY <3>1, <3>2
  <2>5. sounding' = {} \/ (sounding' = sounding /\ (hold \/ ~isEmpty(notes')))
    BY <2>1, FinishedSilent
  <2>6. NotesKnown' /\ SoundingKnown'
    BY <1>1, <2>3, <2>5 DEF ArpInv, NotesKnown, SoundingKnown
  <2>7. NothingLeftOn'
    <3>1. isEmpty(notes)' = isEmpty(notes')
      BY DEF isEmpty, Filled
    <3> QED
      BY <1>1, <2>4, <2>5, <3>1 DEF ArpInv, NothingLeftOn
  <2>8. TypeOK'
    <3>1. notes' \in [Places -> Place]
      BY <2>3, NotesType
    <3>2. sounding' \subseteq {j + x : j \in Keys, x \in Transposes}
      BY <2>5 DEF ArpInv, TypeOK
    <3> QED
      BY <1>1, <3>1, <3>2 DEF ArpInv, TypeOK
  <2> QED
    BY <2>6, <2>7, <2>8 DEF ArpInv
<1> QED
  BY <1>2, <1>3

\* A beat turns the last note off and the next one on.
LEMMA UpdateInv ==
  ASSUME ArpInv, Update
  PROVE  ArpInv'
<1>1. /\ mode # "off" /\ ~isEmpty(notes)
      /\ UNCHANGED <<notes, transpose, hold, mode, keys>>
  BY DEF Update
<1>2. PICK n \in Choices :
        /\ noteIndex' = n /\ previousIndex' = n
        /\ previousNote' = notes[n]
        /\ previousTranspose' = transpose
        /\ sounding' = Finished \cup {notes[n].note + transpose}
  BY DEF Update
<1>3. n \in Filled(notes)
  BY <1>1, <1>2, ChoicesFilled
<1>4. n \in Places /\ notes[n] \in KeyNotes
  BY <1>3 DEF Filled, ArpInv, NotesKnown
<1>5. sounding' = {notes[n].note + transpose}
  BY <1>2, FinishedSilent
<1>6. NotesKnown' /\ SoundingKnown'
  BY <1>1, <1>2, <1>4, KeyNoteFacts DEF ArpInv, NotesKnown, SoundingKnown
<1>7. NothingLeftOn'
  <2>1. isEmpty(notes)' = isEmpty(notes)
    BY <1>1 DEF isEmpty, Filled
  <2> QED
    BY <1>1, <1>2, <1>5, <2>1 DEF NothingLeftOn
<1>8. TypeOK'
  <2>1. notes[n] \in Place /\ notes[n].note \in Keys
    BY <1>4, KeyNoteFacts
  <2>2. sounding' \subseteq {k + x : k \in Keys, x \in Transposes}
    BY <1>5, <2>1 DEF ArpInv, TypeOK
  <2>3. n \in -1 .. Memory - 1
    BY <1>4, MemoryAssumption DEF Places
  <2> QED
    BY <1>1, <1>2, <1>3, <2>1, <2>2, <2>3 DEF ArpInv, TypeOK
<1> QED
  BY <1>6, <1>7, <1>8 DEF ArpInv

LEMMA NextInv == ArpInv /\ [Next]_vars => ArpInv'
<1> SUFFICES ASSUME ArpInv, [Next]_vars PROVE ArpInv'
  OBVIOUS
<1>1. mode \in Modes /\ hold \in BOOLEAN
  BY DEF ArpInv, TypeOK
<1>2. ASSUME ButtonUpDown PROVE ArpInv'
  <2>1. (IF mode = "updown" THEN "off" ELSE "updown") \in Modes
    BY DEF Modes
  <2> QED
    BY <1>1, <1>2, <2>1, SetModeInv DEF ButtonUpDown
<1>3. ASSUME ButtonAssign PROVE ArpInv'
  <2>1. PICK m \in Modes : SetMode(m, hold)
    BY <1>3 DEF ButtonAssign, Modes
  <2> QED
    BY <1>1, <2>1, SetModeInv
<1>4. ASSUME ButtonRecord PROVE ArpInv'
  BY <1>1, <1>4, SetModeInv DEF ButtonRecord
<1>5. ASSUME NEW down \in BOOLEAN, Footswitch(down) PROVE ArpInv'
  BY <1>1, <1>5, SetModeInv DEF Footswitch
<1>6. ASSUME NEW x \in Transposes, SetTranspose(x) PROVE ArpInv'
  BY <1>6, OthersInv DEF SetTranspose, ArpInv, TypeOK
<1>7. ASSUME MidiStart PROVE ArpInv'
  <2>1. -1 \in -1 .. Memory - 1
    BY MemoryAssumption
  <2> QED
    BY <1>7, <2>1, OthersInv DEF MidiStart, ArpInv, TypeOK
<1>8. ASSUME UNCHANGED vars PROVE ArpInv'
  BY <1>8, OthersInv DEF vars, ArpInv, TypeOK
<1> QED
  BY <1>2, <1>3, <1>4, <1>5, <1>6, <1>7, <1>8, UpdateInv, KeyPressInv, KeyReleaseInv
  DEF Next, Controls, Key

\* The invariant holds in every behaviour.
THEOREM ArpInvariant == Spec => []ArpInv
BY InitInv, NextInv, PTL DEF Spec

-----------------------------------------------------------------------------
(* Which notes are in which places *)

\* A place's note is latched or has its key down.
Caused ==
  \A i \in Places :
    notes[i] # Empty => IF notes[i].held THEN hold ELSE notes[i].note \in keys

\* In up/down a note is at the two places of its key.
Mirrored ==
  \A i \in Places : /\ notes[Mirror(i)] = notes[i]
                    /\ notes[i] # Empty => i \in KeyPlaces(notes[i].note)

\* In the other patterns a key that is down has one note at most.
Single ==
  \A i, j \in Places : notes[i] = notes[j] /\ ~notes[i].held => i = j

PlacesInv ==
  /\ mode = "off" => isEmpty(notes)
  /\ Caused
  /\ mode = "updown" => Mirrored
  /\ mode \in {"random", "assign"} => Single

LEMMA MirrorFacts ==
  ASSUME NEW i \in Places
  PROVE  /\ Mirror(i) \in Places /\ Mirror(Mirror(i)) = i /\ Mirror(i) # i
BY MemoryAssumption DEF Places, Mirror

LEMMA KeyPlacesFacts ==
  ASSUME NEW k \in Keys
  PROVE  /\ k \in Places /\ KeyPlaces(k) \subseteq Places
         /\ \A i \in Places : Mirror(i) \in KeyPlaces(k) <=> i \in KeyPlaces(k)
<1>1. k \in Places
  BY KeysAssumption
<1>2. ASSUME NEW i \in Places PROVE Mirror(i) \in KeyPlaces(k) <=> i \in KeyPlaces(k)
  BY <1>1, MirrorFacts DEF KeyPlaces
<1> QED
  BY <1>1, <1>2, MirrorFacts DEF KeyPlaces

LEMMA KeyPlacesApart ==
  ASSUME NEW k \in Keys, NEW x \in Keys, NEW i \in KeyPlaces(k), i \in KeyPlaces(x)
  PROVE  x = k
BY KeysAssumption, MemoryAssumption DEF KeyPlaces, Mirror, Places

\* The flag and the key make the note.
LEMMA NoteForms ==
  ASSUME NEW p \in KeyNotes \cup {Empty}
  PROVE  /\ ~p.held => p = Down(p.note) /\ p.note \in Keys
         /\ p.held /\ p # Empty => p = Held(p.note) /\ p.note \in Keys
<1>1. CASE p = Empty
  BY <1>1 DEF Empty
<1>2. CASE p \in KeyNotes
  BY <1>2 DEF KeyNotes, Down, Held
<1> QED
  BY <1>1, <1>2

LEMMA NoteParts ==
  ASSUME NEW k \in Keys
  PROVE  /\ Down(k).note = k /\ ~Down(k).held /\ Down(k) # Empty
         /\ Held(k).note = k /\ Held(k).held /\ Held(k) # Empty
         /\ Empty.held
BY KeyBounds DEF Down, Held, Empty

LEMMA HeldParts ==
  /\ Held(Empty.note) = Empty
  /\ \A n : Held(n).note = n /\ Held(n).held
BY DEF Held, Empty

LEMMA EmptyMemory ==
  ASSUME NEW ns, ns = [i \in Places |-> Empty]
  PROVE  isEmpty(ns)
BY DEF isEmpty, Filled

LEMMA InitPlaces == Init => PlacesInv
<1> SUFFICES ASSUME Init PROVE PlacesInv
  OBVIOUS
<1>1. \A i \in Places : notes[i] = Empty /\ notes[Mirror(i)] = Empty
  BY MirrorFacts DEF Init
<1> QED
  BY <1>1, EmptyMemory DEF Init, PlacesInv, Caused, Mirrored, Single, Empty

\* arp_setMode keeps places or empties them.
LEMMA SetModePlaces ==
  ASSUME ArpInv, PlacesInv, NEW m \in Modes, NEW h \in BOOLEAN, SetMode(m, h)
  PROVE  PlacesInv'
<1> DEFINE kills == m # mode /\ {m, mode} # {"random", "assign"}
           drops == ~h /\ hold
<1>0. mode' = m /\ hold' = (m # "off" /\ h) /\ keys' = keys /\ hold \in BOOLEAN
  BY DEF SetMode, ArpInv, TypeOK
<1>1. CASE kills
  <2>1. notes' = [i \in Places |-> Empty]
    <3>1. WithoutHeld([i \in Places |-> Empty]) = [i \in Places |-> Empty]
      BY DEF WithoutHeld, Empty
    <3> QED
      BY <1>1, <3>1 DEF SetMode
  <2>2. \A i \in Places : notes'[i] = Empty /\ notes'[Mirror(i)] = Empty
    BY <2>1, MirrorFacts
  <2>3. isEmpty(notes)'
    BY <2>1 DEF isEmpty, Filled
  <2> QED
    BY <2>2, <2>3 DEF PlacesInv, Caused, Mirrored, Single, Empty
<1>2. CASE ~kills
  <2>1. notes' = IF drops THEN WithoutHeld(notes) ELSE notes
    BY <1>2 DEF SetMode
  <2>2. \A i \in Places : notes'[i] = notes[i] \/ (drops /\ notes[i].held /\ notes'[i] = Empty)
    BY <2>1 DEF WithoutHeld
  <2>3. \A i \in Places : drops /\ notes[i].held => notes'[i] = Empty
    BY <2>1 DEF WithoutHeld
  <2>4. m = mode \/ {m, mode} = {"random", "assign"}
    BY <1>2
  <2>5. mode' = "off" => isEmpty(notes)'
    <3> SUFFICES ASSUME m = "off" PROVE \A i \in Places : notes'[i] = Empty
      BY <1>0 DEF isEmpty, Filled
    <3>1. isEmpty(notes)
      BY <2>4 DEF PlacesInv
    <3> QED
      BY <2>2, <3>1 DEF isEmpty, Filled
  <2>6. Caused'
    <3> SUFFICES ASSUME NEW i \in Places, notes'[i] # Empty
                 PROVE  IF notes'[i].held THEN hold' ELSE notes'[i].note \in keys'
      BY DEF Caused
    <3>1. notes'[i] = notes[i] /\ ~(drops /\ notes[i].held)
      BY <2>2, <2>3
    <3>2. m # "off"
      BY <1>0, <2>5 DEF isEmpty, Filled
    <3>3. IF notes[i].held THEN hold ELSE notes[i].note \in keys
      BY <3>1 DEF PlacesInv, Caused
    <3> QED
      BY <1>0, <3>1, <3>2, <3>3
  <2>7. mode' = "updown" => Mirrored'
    <3> SUFFICES ASSUME m = "updown", NEW i \in Places
                 PROVE  /\ notes'[Mirror(i)] = notes'[i]
                        /\ notes'[i] # Empty => i \in KeyPlaces(notes'[i].note)
      BY <1>0 DEF Mirrored, KeyPlaces, Mirror
    <3>1. Mirrored
      BY <2>4 DEF PlacesInv
    <3>2. notes[Mirror(i)] = notes[i] /\ Mirror(i) \in Places
      BY <3>1, MirrorFacts DEF Mirrored
    <3>3. notes'[Mirror(i)] = notes'[i]
      BY <2>2, <2>3, <3>2
    <3> QED
      BY <2>2, <3>1, <3>3 DEF Mirrored
  <2>8. mode' \in {"random", "assign"} => Single'
    <3> SUFFICES ASSUME m \in {"random", "assign"}, NEW i \in Places, NEW j \in Places,
                        notes'[i] = notes'[j], ~notes'[i].held
                 PROVE  i = j
      BY <1>0 DEF Single
    <3>1. notes[i] = notes[j] /\ ~notes[i].held
      BY <2>2 DEF Empty
    <3> QED
      BY <2>4, <3>1 DEF PlacesInv, Single
  <2> QED
    BY <2>5, <2>6, <2>7, <2>8 DEF PlacesInv
<1> QED
  BY <1>1, <1>2

\* A key that is pressed gets its two places, or the first that is empty.
LEMMA KeyPressPlaces ==
  ASSUME ArpInv, PlacesInv, NEW k \in Keys, KeyPress(k)
  PROVE  PlacesInv'
<1>1. k \notin keys /\ keys' = keys \cup {k} /\ UNCHANGED <<hold, mode>>
  BY DEF KeyPress
<1>2. CASE mode = "off"
  <2>1. notes' = notes
    BY <1>2 DEF KeyPress
  <2> QED
    BY <1>1, <1>2, <2>1 DEF PlacesInv, Caused, isEmpty, Filled
<1>3. CASE mode # "off"
  <2> DEFINE P == IF mode = "updown" THEN KeyPlaces(k) ELSE FirstWith(Empty)
  <2>1. \A i \in Places : notes'[i] = IF i \in P THEN Down(k) ELSE notes[i]
    BY <1>3 DEF KeyPress, Put
  <2>2. Caused'
    BY <1>1, <2>1, NoteParts DEF PlacesInv, Caused
  <2>3. mode = "updown" => Mirrored'
    <3> SUFFICES ASSUME mode = "updown", NEW i \in Places
                 PROVE  /\ notes'[Mirror(i)] = notes'[i]
                        /\ notes'[i] # Empty => i \in KeyPlaces(notes'[i].note)
      BY DEF Mirrored, KeyPlaces, Mirror
    <3>1. P = KeyPlaces(k) /\ Mirrored
      BY DEF PlacesInv
    <3> HIDE DEF P
    <3> QED
      BY <2>1, <3>1, MirrorFacts, KeyPlacesFacts, NoteParts DEF Mirrored
  <2>4. mode \in {"random", "assign"} => Single'
    <3> SUFFICES ASSUME mode \in {"random", "assign"}, NEW i \in Places, NEW j \in Places,
                        notes'[i] = notes'[j], ~notes'[i].held
                 PROVE  i = j
      BY DEF Single
    <3>1. \A x, y \in P : x <= y /\ y <= x /\ x \in Int /\ y \in Int
      BY MemoryAssumption DEF FirstWith, Places
    <3>2. \A x \in Places : notes[x] # Down(k)
      BY <1>1, NoteParts DEF PlacesInv, Caused
    <3> HIDE DEF P
    <3>3. CASE i \in P /\ j \in P
      BY <3>1, <3>3
    <3>4. CASE i \notin P /\ j \notin P
      BY <2>1, <3>4 DEF PlacesInv, Single
    <3> QED
      BY <2>1, <3>2, <3>3, <3>4
  <2> QED
    BY <1>1, <1>3, <2>2, <2>3, <2>4 DEF PlacesInv
<1> QED
  BY <1>2, <1>3

\* A key that is released leaves no place unflagged.
LEMMA KeyReleasePlaces ==
  ASSUME ArpInv, PlacesInv, NEW k \in Keys, KeyRelease(k)
  PROVE  PlacesInv'
<1>1. keys' = keys \ {k} /\ UNCHANGED <<hold, mode>>
  BY DEF KeyRelease
<1>2. CASE mode = "off"
  <2>1. notes' = notes
    BY <1>2 DEF KeyRelease
  <2> QED
    BY <1>1, <1>2, <2>1 DEF PlacesInv, Caused, isEmpty, Filled
<1>3. CASE mode = "updown"
  <2>1. \A i \in Places :
          notes'[i] = IF i \notin KeyPlaces(k) THEN notes[i]
                      ELSE IF hold THEN Held(notes[i].note) ELSE Empty
    BY <1>3 DEF KeyRelease, Released, Put
  <2>2. Mirrored
    BY <1>3 DEF PlacesInv
  <2>3. Caused'
    <3> SUFFICES ASSUME NEW i \in Places, notes'[i] # Empty
                 PROVE  IF notes'[i].held THEN hold' ELSE notes'[i].note \in keys'
      BY DEF Caused
    <3>1. CASE i \in KeyPlaces(k)
      <4>1. hold /\ notes'[i] = Held(notes[i].note)
        BY <2>1, <3>1
      <4> QED
        BY <1>1, <4>1, HeldParts
    <3>2. CASE i \notin KeyPlaces(k)
      <4>1. notes'[i] = notes[i] /\ notes[i].note # k
        BY <2>1, <2>2, <3>2 DEF Mirrored
      <4> QED
        BY <1>1, <4>1 DEF PlacesInv, Caused
    <3> QED
      BY <3>1, <3>2
  <2>4. Mirrored'
    <3> SUFFICES ASSUME NEW i \in Places
                 PROVE  /\ notes'[Mirror(i)] = notes'[i]
                        /\ notes'[i] # Empty => i \in KeyPlaces(notes'[i].note)
      BY DEF Mirrored, KeyPlaces, Mirror
    <3>1. notes'[Mirror(i)] = notes'[i]
      BY <2>1, <2>2, MirrorFacts, KeyPlacesFacts DEF Mirrored
    <3>2. CASE i \in KeyPlaces(k) /\ hold
      <4>1. notes'[i] = Held(notes[i].note) /\ notes'[i].note = notes[i].note
        BY <2>1, <3>2, HeldParts
      <4>2. notes'[i] # Empty => notes[i] # Empty
        BY <4>1, HeldParts
      <4> QED
        BY <2>2, <3>1, <4>1, <4>2 DEF Mirrored
    <3>3. CASE ~(i \in KeyPlaces(k) /\ hold)
      BY <2>1, <2>2, <3>1, <3>3 DEF Mirrored
    <3> QED
      BY <3>2, <3>3
  <2> QED
    BY <1>1, <1>3, <2>3, <2>4 DEF PlacesInv
<1>4. CASE mode \in {"random", "assign"}
  <2> DEFINE P == FirstWith(Down(k))
  <2>1. \A i \in Places :
          notes'[i] = IF i \notin P THEN notes[i] ELSE IF hold THEN Held(k) ELSE Empty
    BY <1>4 DEF KeyRelease, Released, Put
  <2>2. \A i \in Places : notes[i] = Down(k) => i \in P
    <3> SUFFICES ASSUME NEW i \in Places, notes[i] = Down(k)
                 PROVE  \A j \in Places : notes[j] = Down(k) => i <= j
      BY DEF FirstWith
    <3>1. \A j \in Places : notes[j] = Down(k) => i = j
      BY <1>4, NoteParts DEF PlacesInv, Single
    <3> QED
      BY <3>1, MemoryAssumption DEF Places
  <2> HIDE DEF P
  <2>3. Caused'
    <3> SUFFICES ASSUME NEW i \in Places, notes'[i] # Empty
                 PROVE  IF notes'[i].held THEN hold' ELSE notes'[i].note \in keys'
      BY DEF Caused
    <3>1. CASE i \in P
      BY <1>1, <2>1, <3>1, NoteParts
    <3>2. CASE i \notin P
      <4>1. notes'[i] = notes[i] /\ notes[i] # Down(k)
        BY <2>1, <2>2, <3>2
      <4>2. ~notes[i].held => notes[i].note # k
        BY <4>1, NoteForms DEF ArpInv, NotesKnown
      <4> QED
        BY <1>1, <4>1, <4>2 DEF PlacesInv, Caused
    <3> QED
      BY <3>1, <3>2
  <2>4. Single'
    <3> SUFFICES ASSUME NEW i \in Places, NEW j \in Places,
                        notes'[i] = notes'[j], ~notes'[i].held
                 PROVE  i = j
      BY DEF Single
    <3>1. i \notin P /\ j \notin P
      BY <2>1, NoteParts
    <3> QED
      BY <1>4, <2>1, <3>1 DEF PlacesInv, Single
  <2> QED
    BY <1>1, <1>4, <2>3, <2>4 DEF PlacesInv
<1> QED
  BY <1>2, <1>3, <1>4 DEF ArpInv, TypeOK, Modes

\* What touches neither notes nor keys keeps places.
LEMMA OthersPlaces ==
  ASSUME PlacesInv, UNCHANGED <<notes, hold, mode, keys>>
  PROVE  PlacesInv'
BY DEF PlacesInv, Caused, Mirrored, Single, isEmpty, Filled

LEMMA NextPlaces == ArpInv /\ PlacesInv /\ [Next]_vars => PlacesInv'
<1> SUFFICES ASSUME ArpInv, PlacesInv, [Next]_vars PROVE PlacesInv'
  OBVIOUS
<1>1. mode \in Modes /\ hold \in BOOLEAN
  BY DEF ArpInv, TypeOK
<1>2. ASSUME ButtonUpDown PROVE PlacesInv'
  <2>1. (IF mode = "updown" THEN "off" ELSE "updown") \in Modes
    BY DEF Modes
  <2> QED
    BY <1>1, <1>2, <2>1, SetModePlaces DEF ButtonUpDown
<1>3. ASSUME ButtonAssign PROVE PlacesInv'
  <2>1. PICK m \in Modes : SetMode(m, hold)
    BY <1>3 DEF ButtonAssign, Modes
  <2> QED
    BY <1>1, <2>1, SetModePlaces
<1>4. ASSUME ButtonRecord PROVE PlacesInv'
  BY <1>1, <1>4, SetModePlaces DEF ButtonRecord
<1>5. ASSUME NEW down \in BOOLEAN, Footswitch(down) PROVE PlacesInv'
  BY <1>1, <1>5, SetModePlaces DEF Footswitch
<1>6. ASSUME Update \/ MidiStart \/ (\E x \in Transposes : SetTranspose(x)) \/ UNCHANGED vars
      PROVE  PlacesInv'
  BY <1>6, OthersPlaces DEF Update, MidiStart, SetTranspose, vars
<1> QED
  BY <1>2, <1>3, <1>4, <1>5, <1>6, KeyPressPlaces, KeyReleasePlaces DEF Next, Controls, Key

LEMMA AlwaysPlaces == Spec => []PlacesInv
BY InitPlaces, NextPlaces, ArpInvariant, PTL DEF Spec

-----------------------------------------------------------------------------
(* The arpeggio that the places stand for *)

LEMMA NoteKinds ==
  ASSUME NEW k \in Keys, NEW x \in Keys
  PROVE  /\ Down(k) = Down(x) <=> k = x
         /\ Held(k) = Held(x) <=> k = x
         /\ Down(k) # Held(x)
BY DEF Down, Held

LEMMA EnteredNotes ==
  ASSUME NEW ns \in [Places -> KeyNotes \cup {Empty}]
  PROVE  /\ Entered(ns, FALSE) = {k \in Keys : \E i \in Places : ns[i] = Down(k)}
         /\ Entered(ns, TRUE) = {k \in Keys : \E i \in Places : ns[i] = Held(k)}
         /\ isEmpty(ns) <=> Entered(ns, FALSE) = {} /\ Entered(ns, TRUE) = {}
<1>1. \A i \in Places : /\ ns[i] # Empty /\ ns[i].held = FALSE
                           => ns[i] = Down(ns[i].note) /\ ns[i].note \in Keys
                        /\ ns[i] # Empty /\ ns[i].held = TRUE
                           => ns[i] = Held(ns[i].note) /\ ns[i].note \in Keys
                        /\ ns[i] # Empty => ns[i].held \in BOOLEAN
  <2> SUFFICES ASSUME NEW i \in Places, ns[i] # Empty
               PROVE  /\ ns[i].held = FALSE => ns[i] = Down(ns[i].note) /\ ns[i].note \in Keys
                      /\ ns[i].held = TRUE => ns[i] = Held(ns[i].note) /\ ns[i].note \in Keys
                      /\ ns[i].held \in BOOLEAN
    OBVIOUS
  <2>1. ns[i] \in KeyNotes
    OBVIOUS
  <2>2. ns[i].held \in BOOLEAN
    BY <2>1, KeyNoteFacts DEF Place
  <2> QED
    BY <2>1, <2>2, NoteForms
<1>2. \A k \in Keys : /\ Down(k).note = k /\ Down(k).held = FALSE /\ Down(k) # Empty
                      /\ Held(k).note = k /\ Held(k).held = TRUE /\ Held(k) # Empty
  BY NoteParts DEF Down, Held
<1>3. \A x : x \in Entered(ns, FALSE) <=> x \in Keys /\ \E i \in Places : ns[i] = Down(x)
  BY <1>1, <1>2 DEF Entered, Filled
<1>4. \A x : x \in Entered(ns, TRUE) <=> x \in Keys /\ \E i \in Places : ns[i] = Held(x)
  BY <1>1, <1>2 DEF Entered, Filled
<1>5. isEmpty(ns) <=> Entered(ns, FALSE) = {} /\ Entered(ns, TRUE) = {}
  <2>1. ASSUME NEW i \in Filled(ns)
        PROVE  \E flag \in BOOLEAN : ns[i].note \in Entered(ns, flag)
    <3>1. ns[i].held \in BOOLEAN
      BY <1>1 DEF Filled
    <3> QED
      BY <3>1 DEF Entered
  <2>2. isEmpty(ns) => Entered(ns, FALSE) = {} /\ Entered(ns, TRUE) = {}
    BY DEF Entered, isEmpty
  <2> QED
    BY <2>1, <2>2 DEF isEmpty
<1> QED
  BY <1>3, <1>4, <1>5

\* Without latch nothing is latched.
LEMMA NoneLatched ==
  ASSUME ArpInv, PlacesInv, ~hold
  PROVE  Entered(notes, TRUE) = {}
BY DEF PlacesInv, Caused, Entered, Filled

LEMMA EnteredPrimed ==
  /\ Entered(notes, FALSE)' = Entered(notes', FALSE)
  /\ Entered(notes, TRUE)' = Entered(notes', TRUE)
  /\ isEmpty(notes)' = isEmpty(notes')
BY DEF Entered, Filled, isEmpty

\* A step that leaves the mapped state alone is one of the arpeggio's.
LEMMA NothingDone ==
  ASSUME UNCHANGED <<notes, previousNote, transpose, previousTranspose, hold, mode, sounding>>
  PROVE  UNCHANGED Arpeggiator!vars
BY DEF Arpeggiator!vars, Entered, Filled, LastPitch

LEMMA FinishedMaps == Arpeggiator!Finished = Finished
BY DEF Arpeggiator!Finished, Finished, LastPitch

LEMMA InitMaps == Init => Arpeggiator!Init
<1> SUFFICES ASSUME Init PROVE Arpeggiator!Init
  OBVIOUS
<1>1. Filled(notes) = {} /\ LastPitch = {}
  BY DEF Init, Filled, LastPitch
<1>2. Entered(notes, FALSE) = {} /\ Entered(notes, TRUE) = {}
  BY <1>1 DEF Entered
<1> QED
  BY <1>1, <1>2 DEF Init, Arpeggiator!Init

\* arp_setMode is another pattern or another latch.
LEMMA SetModeMaps ==
  ASSUME ArpInv, PlacesInv, NEW m \in Modes, NEW h \in BOOLEAN, SetMode(m, h),
         m # mode \/ mode # "off"
  PROVE  Arpeggiator!Next
<1> DEFINE kills == m # mode /\ {m, mode} # {"random", "assign"}
           drops == ~h /\ hold
<1>0. mode' = m /\ hold' = (m # "off" /\ h) /\ transpose' = transpose /\ hold \in BOOLEAN
  BY DEF SetMode, ArpInv, TypeOK
<1>1. CASE kills
  <2>1. notes' = [i \in Places |-> Empty]
    <3>1. WithoutHeld([i \in Places |-> Empty]) = [i \in Places |-> Empty]
      BY DEF WithoutHeld, Empty
    <3> QED
      BY <1>1, <3>1 DEF SetMode
  <2>2. Filled(notes') = {}
    BY <2>1 DEF Filled
  <2>3. Entered(notes, FALSE)' = {} /\ Entered(notes, TRUE)' = {}
    BY <2>2, EnteredPrimed DEF Entered
  <2>4. LastPitch' = {} /\ sounding' = Arpeggiator!Finished
    BY <1>1, FinishedMaps DEF SetMode, LastPitch
  <2>5. Arpeggiator!SetPattern(m # "off", h)
    BY <1>0, <2>3, <2>4 DEF Arpeggiator!SetPattern
  <2> QED
    BY <2>5 DEF Arpeggiator!Next
<1>2. CASE ~kills
  <2>1. m # "off" /\ mode # "off"
    BY <1>2
  <2>2. /\ notes' = IF drops THEN WithoutHeld(notes) ELSE notes
        /\ sounding' = IF drops /\ isEmpty(notes') THEN Finished ELSE sounding
        /\ previousNote' = previousNote /\ previousTranspose' = previousTranspose
    BY <1>2 DEF SetMode
  <2>3. LastPitch' = LastPitch
    BY <2>2 DEF LastPitch
  <2>4. /\ Entered(notes', FALSE) = Entered(notes, FALSE)
        /\ Entered(notes', TRUE) = IF h THEN Entered(notes, TRUE) ELSE {}
        /\ drops => (isEmpty(notes') <=> Entered(notes, FALSE) = {})
    <3>1. CASE drops
      <4>1. notes' = WithoutHeld(notes)
        BY <2>2, <3>1
      <4>2. Filled(notes') = {i \in Filled(notes) : notes[i].held # TRUE}
        BY <4>1, NoteParts DEF Filled, WithoutHeld, ArpInv, TypeOK, Place
      <4>3. \A i \in Filled(notes') : notes'[i] = notes[i]
        BY <4>1, <4>2 DEF Filled, WithoutHeld
      <4>4. \A i \in Filled(notes) : notes[i].held \in BOOLEAN
        BY DEF ArpInv, TypeOK, Place, Filled
      <4> QED
        BY <3>1, <4>2, <4>3, <4>4 DEF Entered, isEmpty
    <3>2. CASE ~drops
      BY <1>0, <2>2, <3>2, NoneLatched
    <3> QED
      BY <3>1, <3>2
  <2>5. sounding' = IF hold /\ ~h /\ Entered(notes, FALSE) = {}
                    THEN Arpeggiator!Finished ELSE sounding
    BY <2>2, <2>4, FinishedMaps
  <2>6. Arpeggiator!SetLatch(h)
    BY <1>0, <2>1, <2>3, <2>4, <2>5, EnteredPrimed DEF Arpeggiator!SetLatch
  <2> QED
    BY <2>6 DEF Arpeggiator!Next
<1> QED
  BY <1>1, <1>2

\* A key that goes down is entered next to the latched ones, or in its place.
LEMMA KeyPressMaps ==
  ASSUME ArpInv, PlacesInv, NEW k \in Keys, KeyPress(k)
  PROVE  [Arpeggiator!Next]_(Arpeggiator!vars)
<1>1. UNCHANGED <<previousNote, transpose, previousTranspose, hold, mode, sounding>>
  BY DEF KeyPress
<1>2. CASE mode = "off"
  BY <1>1, <1>2, NothingDone DEF KeyPress
<1>3. CASE mode # "off"
  <2> DEFINE P == IF mode = "updown" THEN KeyPlaces(k) ELSE FirstWith(Empty)
  <2>1. /\ P \subseteq Places
        /\ \A i \in Places : notes'[i] = IF i \in P THEN Down(k) ELSE notes[i]
    BY <1>3, KeyPlacesFacts DEF KeyPress, Put, FirstWith
  <2>2. notes \in [Places -> KeyNotes \cup {Empty}] /\ notes' \in [Places -> KeyNotes \cup {Empty}]
    BY <1>3, PutNotes DEF KeyPress, ArpInv, NotesKnown, KeyNotes
  <2>3. LastPitch' = LastPitch
    BY <1>1 DEF LastPitch
  <2>4. CASE P = {}
    <3>1. notes' = notes
      BY <2>1, <2>2, <2>4
    <3> QED
      BY <1>1, <3>1, NothingDone
  <2>5. CASE P # {}
    <3> DEFINE H == Entered(notes, FALSE)
               L == Entered(notes, TRUE)
               HH == Entered(notes', FALSE)
               LL == Entered(notes', TRUE)
    <3>1. \A i \in P : notes[i] \in {Empty, Down(k), Held(k)}
      <4>1. CASE mode = "updown"
        <5> SUFFICES ASSUME NEW i \in KeyPlaces(k), notes[i] # Empty
                     PROVE  notes[i] \in {Down(k), Held(k)}
          BY <4>1
        <5>1. i \in Places /\ i \in KeyPlaces(notes[i].note) /\ notes[i].note \in Keys
          BY <4>1, KeyPlacesFacts, KeyNoteFacts DEF PlacesInv, Mirrored, ArpInv, NotesKnown
        <5>2. notes[i].note = k
          BY <5>1, KeyPlacesApart
        <5> QED
          BY <5>1, <5>2, NoteForms DEF ArpInv, NotesKnown
      <4>2. CASE mode # "updown"
        BY <4>2 DEF FirstWith
      <4> QED
        BY <4>1, <4>2
    <3>2. HH = H \cup {k}
      <4> HIDE DEF P
      <4>1. \A x \in Keys : (\E i \in Places : notes'[i] = Down(x))
                              <=> x = k \/ \E i \in Places : notes[i] = Down(x)
        BY <2>1, <2>5, <3>1, NoteKinds, NoteParts
      <4>2. /\ H = {x \in Keys : \E i \in Places : notes[i] = Down(x)}
            /\ HH = {x \in Keys : \E i \in Places : notes'[i] = Down(x)}
        BY <2>2, EnteredNotes
      <4> HIDE DEF H, HH
      <4> QED
        BY <4>1, <4>2
    <3>3. LL \in {L, L \ {k}}
      <4> HIDE DEF P
      <4>1. \A x \in Keys \ {k} : (\E i \in Places : notes'[i] = Held(x))
                                    <=> \E i \in Places : notes[i] = Held(x)
        BY <2>1, <3>1, NoteKinds, NoteParts
      <4>2. (\E i \in Places : notes'[i] = Held(k)) => \E i \in Places : notes[i] = Held(k)
        BY <2>1, NoteKinds
      <4>3. /\ L = {x \in Keys : \E i \in Places : notes[i] = Held(x)}
            /\ LL = {x \in Keys : \E i \in Places : notes'[i] = Held(x)}
        BY <2>2, EnteredNotes
      <4> HIDE DEF L, LL
      <4>4. LL \subseteq L /\ L \ {k} \subseteq LL
        BY <4>1, <4>2, <4>3
      <4> QED
        BY <4>4
    <3>4. Arpeggiator!Press(k)
      BY <1>1, <1>3, <2>3, <3>2, <3>3, EnteredPrimed DEF Arpeggiator!Press
    <3> QED
      BY <3>4 DEF Arpeggiator!Next
  <2> QED
    BY <2>4, <2>5
<1> QED
  BY <1>2, <1>3

\* A released key's note is flagged or goes, wherever it is, and no other.
LEMMA ReleasedNote ==
  ASSUME ArpInv, PlacesInv, NEW k \in Keys, mode # "off", notes' = Released(k)
  PROVE  \A i \in Places :
           notes'[i] = IF notes[i] = Down(k) THEN IF hold THEN Held(k) ELSE Empty
                       ELSE notes[i]
<1>1. CASE mode = "updown"
  <2> SUFFICES ASSUME NEW i \in Places
               PROVE  notes'[i] = IF notes[i] = Down(k) THEN IF hold THEN Held(k) ELSE Empty
                                  ELSE notes[i]
    OBVIOUS
  <2>1. notes'[i] = IF i \notin KeyPlaces(k) THEN notes[i]
                    ELSE IF hold THEN Held(notes[i].note) ELSE Empty
    BY <1>1 DEF Released, Put
  <2>2. notes[i] = Empty \/ (notes[i].note \in Keys /\ notes[i] \in {Down(notes[i].note),
                                                                     Held(notes[i].note)})
    BY NoteForms DEF ArpInv, NotesKnown
  <2>3. notes[i] # Empty => i \in KeyPlaces(notes[i].note)
    BY <1>1 DEF PlacesInv, Mirrored
  <2>4. i \in KeyPlaces(k) /\ notes[i] # Empty => notes[i].note = k
    BY <2>2, <2>3, KeyPlacesApart
  <2>5. notes[i] = Held(k) => hold
    BY NoteParts DEF PlacesInv, Caused
  <2>6. CASE notes[i] = Empty
    BY <2>1, <2>6, HeldParts, NoteParts
  <2>7. CASE notes[i] # Empty /\ i \in KeyPlaces(k)
    BY <2>1, <2>2, <2>4, <2>5, <2>7, NoteKinds
  <2>8. CASE i \notin KeyPlaces(k)
    BY <2>1, <2>3, <2>8, NoteParts
  <2> QED
    BY <2>6, <2>7, <2>8
<1>2. CASE mode \in {"random", "assign"}
  <2>1. \A i, j \in Places : notes[i] = Down(k) /\ notes[j] = Down(k) => i = j
    BY <1>2, NoteParts DEF PlacesInv, Single
  <2>2. \A i \in Places : i <= i
    BY MemoryAssumption DEF Places
  <2>3. \A i \in Places : i \in FirstWith(Down(k)) <=> notes[i] = Down(k)
    BY <2>1, <2>2 DEF FirstWith
  <2> QED
    BY <1>2, <2>3 DEF Released, Put
<1> QED
  BY <1>1, <1>2 DEF ArpInv, TypeOK, Modes

\* A key that goes up is dropped or latched.
LEMMA KeyReleaseMaps ==
  ASSUME ArpInv, PlacesInv, NEW k \in Keys, KeyRelease(k)
  PROVE  [Arpeggiator!Next]_(Arpeggiator!vars)
<1>1. UNCHANGED <<previousNote, transpose, previousTranspose, hold, mode>>
  BY DEF KeyRelease
<1>2. CASE mode = "off"
  BY <1>1, <1>2, NothingDone DEF KeyRelease
<1>3. CASE mode # "off"
  <2> DEFINE H == Entered(notes, FALSE)
             L == Entered(notes, TRUE)
             HH == Entered(notes', FALSE)
             LL == Entered(notes', TRUE)
  <2>1. notes' = Released(k)
        /\ sounding' = IF ~hold /\ isEmpty(notes') THEN Finished ELSE sounding
    BY <1>3 DEF KeyRelease
  <2>2. notes \in [Places -> KeyNotes \cup {Empty}]
    BY DEF ArpInv, NotesKnown
  <2>3. notes' \in [Places -> KeyNotes \cup {Empty}]
    BY <2>1, KeyReleaseInv DEF ArpInv, NotesKnown
  <2>4. \A i \in Places :
          notes'[i] = IF notes[i] = Down(k) THEN IF hold THEN Held(k) ELSE Empty
                      ELSE notes[i]
    BY ReleasedNote, <2>1, <1>3
  <2>5. HH = H \ {k}
    <3>1. \A x \in Keys : (\E i \in Places : notes'[i] = Down(x))
                            <=> x # k /\ \E i \in Places : notes[i] = Down(x)
      BY <2>4, NoteKinds, NoteParts
    <3> QED
      BY <2>2, <2>3, <3>1, EnteredNotes
  <2>6. LL = IF hold THEN L \cup (H \cap {k}) ELSE L
    <3>1. \A x \in Keys : (\E i \in Places : notes'[i] = Held(x))
                            <=> \/ \E i \in Places : notes[i] = Held(x)
                                \/ hold /\ x = k /\ \E i \in Places : notes[i] = Down(x)
      BY <2>4, NoteKinds, NoteParts
    <3> QED
      BY <2>2, <2>3, <3>1, EnteredNotes
  <2>7. sounding' = IF Arpeggiator!Empties(k) THEN Arpeggiator!Finished ELSE sounding
    BY <2>1, <2>3, <2>5, <2>6, EnteredNotes, FinishedMaps DEF Arpeggiator!Empties
  <2>8. LastPitch' = LastPitch
    BY <1>1 DEF LastPitch
  <2>9. Arpeggiator!Release(k)
    BY <1>1, <1>3, <2>5, <2>6, <2>7, <2>8, EnteredPrimed DEF Arpeggiator!Release
  <2> QED
    BY <2>9 DEF Arpeggiator!Next
<1> QED
  BY <1>2, <1>3

\* A beat plays one of the notes that were entered.
LEMMA UpdateMaps ==
  ASSUME ArpInv, PlacesInv, Update
  PROVE  Arpeggiator!Next
<1>1. mode # "off" /\ ~isEmpty(notes) /\ UNCHANGED <<notes, transpose, hold, mode>>
  BY DEF Update
<1>2. PICK n \in Choices : /\ previousNote' = notes[n] /\ previousTranspose' = transpose
                           /\ sounding' = Finished \cup {notes[n].note + transpose}
  BY DEF Update
<1>3. n \in Places /\ notes[n] \in KeyNotes
  BY <1>1, ChoicesFilled DEF Filled, ArpInv, NotesKnown
<1>4. notes[n].note \in Entered(notes, FALSE) \cup Entered(notes, TRUE)
  <2>1. notes[n].held \in BOOLEAN
    BY <1>3, KeyNoteFacts DEF Place
  <2> QED
    BY <1>3, <2>1, KeyNoteFacts DEF Entered, Filled
<1>5. LastPitch' = {notes[n].note + transpose}
  BY <1>2, <1>3, KeyNoteFacts DEF LastPitch
<1>6. Arpeggiator!Beat
  BY <1>1, <1>2, <1>4, <1>5, FinishedMaps, EnteredPrimed DEF Arpeggiator!Beat, Arpeggiator!noteVars
<1> QED
  BY <1>6 DEF Arpeggiator!Next

\* Every step is a step of the arpeggio or none of its.
LEMMA NextMaps == ArpInv /\ PlacesInv /\ [Next]_vars => [Arpeggiator!Next]_(Arpeggiator!vars)
<1> SUFFICES ASSUME ArpInv, PlacesInv, [Next]_vars
             PROVE  [Arpeggiator!Next]_(Arpeggiator!vars)
  OBVIOUS
<1>1. mode \in Modes /\ hold \in BOOLEAN
  BY DEF ArpInv, TypeOK
<1>2. ASSUME ButtonUpDown PROVE Arpeggiator!Next
  <2>1. PICK m \in Modes : m # mode /\ SetMode(m, hold)
    BY <1>2 DEF ButtonUpDown, Modes
  <2> QED
    BY <1>1, <2>1, SetModeMaps
<1>3. ASSUME ButtonAssign PROVE Arpeggiator!Next
  <2>1. PICK m \in Modes : m # mode /\ SetMode(m, hold)
    BY <1>3 DEF ButtonAssign, Modes
  <2> QED
    BY <1>1, <2>1, SetModeMaps
<1>4. ASSUME ButtonRecord PROVE Arpeggiator!Next
  BY <1>1, <1>4, SetModeMaps DEF ButtonRecord
<1>5. ASSUME NEW down \in BOOLEAN, Footswitch(down) PROVE Arpeggiator!Next
  BY <1>1, <1>5, SetModeMaps DEF Footswitch
<1>6. ASSUME NEW x \in Transposes, SetTranspose(x) PROVE Arpeggiator!Next
  <2>1. Arpeggiator!SetTranspose(x)
    BY <1>6 DEF SetTranspose, Arpeggiator!SetTranspose, Arpeggiator!noteVars, Entered, Filled,
       LastPitch
  <2> QED
    BY <2>1 DEF Arpeggiator!Next
<1>7. ASSUME MidiStart \/ UNCHANGED vars PROVE UNCHANGED Arpeggiator!vars
  BY <1>7, NothingDone DEF MidiStart, vars
<1> QED
  BY <1>2, <1>3, <1>4, <1>5, <1>6, <1>7, KeyPressMaps, KeyReleaseMaps, UpdateMaps
  DEF Next, Controls, Key

-----------------------------------------------------------------------------
(* Beats move on                                                            *)

\* The last note is one of the place it was played at.
Remembered ==
  /\ previousIndex = -1 => previousNote = Empty
  /\ mode = "updown" /\ previousIndex # -1 =>
       previousNote # Empty /\ previousIndex \in KeyPlaces(previousNote.note)

LEMMA SetModeRemembered ==
  ASSUME Remembered, NEW m, NEW h, SetMode(m, h)
  PROVE  Remembered'
<1>1. CASE m # mode /\ {m, mode} # {"random", "assign"}
  BY <1>1 DEF SetMode, Remembered
<1>2. CASE ~(m # mode /\ {m, mode} # {"random", "assign"})
  <2>1. previousIndex' = previousIndex /\ previousNote' = previousNote /\ mode' = m
    BY <1>2 DEF SetMode
  <2>2. m = "updown" => mode = "updown"
    <3> SUFFICES ASSUME m = "updown", m # mode PROVE FALSE
      OBVIOUS
    <3>1. "updown" \in {m, mode} /\ "updown" \notin {"random", "assign"}
      OBVIOUS
    <3> QED
      BY <1>2, <3>1
  <2> QED
    BY <2>1, <2>2 DEF Remembered
<1> QED
  BY <1>1, <1>2

LEMMA NextRemembered == ArpInv /\ PlacesInv /\ Remembered /\ [Next]_vars => Remembered'
<1> SUFFICES ASSUME ArpInv, PlacesInv, Remembered, [Next]_vars PROVE Remembered'
  OBVIOUS
<1>1. ASSUME Update PROVE Remembered'
  <2>1. PICK n \in Choices : previousIndex' = n /\ previousNote' = notes[n]
    BY <1>1 DEF Update
  <2>2. n \in Places /\ notes[n] # Empty /\ mode' = mode
    BY <1>1, <2>1, ChoicesFilled DEF Update, Filled
  <2>3. n # -1
    BY <2>2, MemoryAssumption DEF Places
  <2>4. mode = "updown" => n \in KeyPlaces(notes[n].note)
    BY <2>2 DEF PlacesInv, Mirrored
  <2> QED
    BY <2>1, <2>2, <2>3, <2>4 DEF Remembered
<1>2. ASSUME UNCHANGED <<previousIndex, previousNote, mode>> PROVE Remembered'
  BY <1>2 DEF Remembered
<1>3. ASSUME ButtonUpDown \/ ButtonAssign \/ ButtonRecord \/ \E down \in BOOLEAN : Footswitch(down)
      PROVE  Remembered'
  BY <1>3, SetModeRemembered DEF ButtonUpDown, ButtonAssign, ButtonRecord, Footswitch
<1>4. ASSUME MidiStart \/ (\E x \in Transposes : SetTranspose(x)) \/ (\E k \in Keys : Key(k))
             \/ UNCHANGED vars
      PROVE  UNCHANGED <<previousIndex, previousNote, mode>>
  BY <1>4 DEF MidiStart, SetTranspose, Key, KeyPress, KeyRelease, vars
<1> QED
  BY <1>1, <1>2, <1>3, <1>4 DEF Next, Controls

LEMMA AlwaysRemembered == Spec => []Remembered
<1>1. Init => Remembered
  BY DEF Init, Remembered
<1> QED
  BY <1>1, NextRemembered, ArpInvariant, AlwaysPlaces, PTL DEF Spec

\* Only all the way round does one come to where one was.
LEMMA AheadFacts ==
  ASSUME NEW i \in Places, NEW j \in Places
  PROVE  Ahead(i, j) = IF j > i THEN j - i ELSE j - i + Memory
<1>1. Memory \in Nat \ {0} /\ i \in Nat /\ j \in Nat /\ i < Memory /\ j < Memory
  BY MemoryAssumption DEF Places
<1>2. CASE j > i
  <2>1. j - i - 1 \in 0 .. Memory - 1
    BY <1>1, <1>2
  <2>2. (j - i - 1) % Memory = j - i - 1
    BY <1>1, <2>1
  <2> QED
    BY <1>1, <1>2, <2>2 DEF Ahead
<1>3. CASE ~(j > i)
  <2>1. j - i - 1 + Memory \in 0 .. Memory - 1
    BY <1>1, <1>3
  <2>2. (j - i - 1) % Memory = j - i - 1 + Memory
    BY <1>1, <2>1
  <2> QED
    BY <1>1, <1>3, <2>2 DEF Ahead
<1> QED
  BY <1>2, <1>3

LEMMA LastIsOneself ==
  ASSUME NEW i \in Places, NEW j \in Places, j # i
  PROVE  Ahead(i, j) < Ahead(i, i)
BY AheadFacts, MemoryAssumption DEF Places

\* A place that is not the only one of its kind is not the next after itself.
LEMMA NotNext ==
  ASSUME NEW S \in SUBSET Places, NEW i \in Places, NEW c \in S, c # i
  PROVE  Between(S, i, i) # {}
BY LastIsOneself DEF Between

\* At random the last note would be the count-th ahead.
LEMMA OthersBetween ==
  ASSUME NEW S \in SUBSET Places, NEW i \in S
  PROVE  Cardinality(Between(S, i, i)) = Cardinality(S) - 1
<1>1. Between(S, i, i) = S \ {i}
  <2>1. ASSUME NEW c \in S PROVE c \in Between(S, i, i) <=> c # i
    BY LastIsOneself, AheadFacts, MemoryAssumption DEF Between, Places
  <2> QED
    BY <2>1 DEF Between
<1>2. IsFiniteSet(S)
  <2>1. IsFiniteSet(Places)
    BY MemoryAssumption, FS_Interval DEF Places
  <2> QED
    BY <2>1, FS_Subset
<1> QED
  BY <1>1, <1>2, FS_RemoveElement

LEMMA BeatMovesOn ==
  ASSUME ArpInv, PlacesInv, Remembered, Update, noteIndex = previousIndex
  PROVE  IF mode = "updown"
         THEN (\E i \in Filled(notes) : notes[i].note # previousNote.note)
                => previousNote'.note # previousNote.note
         ELSE Cardinality(Filled(notes)) > 1 => previousIndex' # previousIndex
<1>1. PICK n \in Choices : previousIndex' = n /\ previousNote' = notes[n]
  BY DEF Update
<1>2. /\ n \in Filled(notes) /\ n \in Places /\ notes[n] # Empty
      /\ mode # "off" /\ mode \in Modes
  BY <1>1, ChoicesFilled DEF Update, Filled, ArpInv, TypeOK
<1>3. previousIndex \in Places \cup {-1}
  BY MemoryAssumption DEF ArpInv, TypeOK, Places
<1>4. Filled(notes) \in SUBSET Places
  BY DEF Filled
<1>5. ASSUME mode = "updown", NEW i \in Filled(notes), notes[i].note # previousNote.note
      PROVE  notes[n].note # previousNote.note
  <2>1. i \in Places /\ notes[i] # Empty
    BY DEF Filled
  <2>2. n \in KeyPlaces(notes[n].note) /\ i \in KeyPlaces(notes[i].note) /\ notes[Mirror(i)] = notes[i]
    BY <1>2, <1>5, <2>1 DEF PlacesInv, Mirrored
  <2>3. notes[n] \in KeyNotes /\ notes[n].note \in Keys
    BY <1>2, KeyNoteFacts DEF ArpInv, NotesKnown
  <2>4. CASE previousIndex = -1
    <3>1. previousNote.note = 127
      BY <2>4 DEF Remembered, Empty
    <3> QED
      BY <2>3, <3>1, KeyBounds
  <2>5. CASE previousIndex \in Places
    <3>1. previousIndex # -1
      BY <2>5, MemoryAssumption DEF Places
    <3> SUFFICES ASSUME notes[n].note = previousNote.note PROVE FALSE
      OBVIOUS
    <3>2. previousIndex \in KeyPlaces(previousNote.note)
      BY <1>5, <3>1 DEF Remembered
    <3>3. previousNote.note \in Places
      BY <2>3, KeysAssumption
    <3>4. n = previousIndex \/ previousIndex = Mirror(n)
      BY <1>2, <2>2, <3>2, <3>3, MirrorFacts DEF KeyPlaces
    <3>5. n \in Playable /\ Between(Playable, noteIndex, n) = {}
      BY <1>1, <1>5 DEF Choices
    <3>6. n = previousIndex
      BY <1>5, <3>4, <3>5 DEF Playable
    <3>7. previousIndex # Mirror(i) /\ i # previousIndex
      BY <1>5, <2>2, <3>6
    <3>8. i \in Playable /\ Playable \in SUBSET Places
      BY <1>4, <3>7 DEF Playable
    <3> QED
      BY <1>2, <3>5, <3>6, <3>7, <3>8, NotNext
  <2> QED
    BY <1>3, <2>4, <2>5
<1>6. ASSUME mode # "updown", Cardinality(Filled(notes)) > 1, n = previousIndex PROVE FALSE
  <2>1. n = noteIndex /\ n >= 0
    BY <1>2, <1>6, MemoryAssumption DEF Places
  <2>2. CASE mode = "random"
    <3>1. Cardinality(Between(Filled(notes), n, n)) < Cardinality(Filled(notes)) - 1
      <4>1. noteIndex >= 0 /\ ~(noteIndex < 0)
        BY <1>2, <2>1, MemoryAssumption DEF Places
      <4>2. Choices = {i \in Filled(notes) : Cardinality(Between(Filled(notes), noteIndex, i))
                                               < Cardinality(Filled(notes)) - 1}
        BY <1>6, <2>2, <4>1 DEF Choices
      <4> QED
        BY <1>1, <2>1, <4>2
    <3>2. Cardinality(Filled(notes)) \in Nat
      <4>1. IsFiniteSet(Places)
        BY MemoryAssumption, FS_Interval DEF Places
      <4> QED
        BY <1>4, <4>1, FS_Subset, FS_CardinalityType
    <3> QED
      BY <1>2, <1>4, <3>1, <3>2, OthersBetween
  <2>3. CASE mode # "random"
    <3>1. Playable = Filled(notes)
      BY <1>6 DEF Playable
    <3>2. Between(Filled(notes), n, n) = {}
      BY <1>1, <2>1, <2>3, <3>1 DEF Choices
    <3>3. PICK c \in Filled(notes) : c # n
      <4>1. Filled(notes) # {n}
        <5>1. Cardinality({n}) = 1
          BY FS_Singleton
        <5> QED
          BY <1>6, <5>1
      <4> QED
        BY <1>2, <4>1
    <3> QED
      BY <1>2, <1>4, <3>2, <3>3, NotNext
  <2> QED
    BY <2>2, <2>3
<1> QED
  BY <1>1, <1>5, <1>6

-----------------------------------------------------------------------------
(* The theorems *)

\* The arpeggiator's state keeps its type: its indexes stay in the memory and
\* what it plays are keys.
THEOREM ArpTypeOK == Spec => []TypeOK
<1>1. ArpInv => TypeOK
  BY DEF ArpInv
<1> QED
  BY <1>1, ArpInvariant, PTL

\* The arpeggiator never leaves a note on: nothing but the last note sounds, at
\* the pitch it was played at, and only while it runs and has notes.
THEOREM ArpNothingLeftOn == Spec => []NothingLeftOn
<1>1. ArpInv => NothingLeftOn
  BY DEF ArpInv
<1> QED
  BY <1>1, ArpInvariant, PTL

\* What arp_update may play is latched or has its key down: arp_assignNote takes
\* each key's note along or flags it, and arp_setMode drops what is flagged.
THEOREM ArpNotesHaveKeys == Spec => []NotesHaveKeys
<1>1. ArpInv /\ PlacesInv => NotesHaveKeys
  <2> SUFFICES ASSUME ArpInv, PlacesInv, NEW i \in Filled(notes)
               PROVE  IF notes[i].held THEN hold
                      ELSE /\ notes[i].note \in keys
                           /\ \A j \in Filled(notes) \ {i} :
                                notes[j] = notes[i] => mode = "updown" /\ j = Mirror(i)
    BY DEF NotesHaveKeys
  <2>1. i \in Places /\ notes[i] # Empty /\ mode # "off"
    BY DEF Filled, PlacesInv, isEmpty
  <2>2. IF notes[i].held THEN hold ELSE notes[i].note \in keys
    BY <2>1 DEF PlacesInv, Caused
  <2>3. ASSUME ~notes[i].held, NEW j \in Filled(notes) \ {i}, notes[j] = notes[i]
        PROVE  mode = "updown" /\ j = Mirror(i)
    <3>1. j \in Places
      BY DEF Filled
    <3>2. mode = "updown"
      BY <2>1, <2>3, <3>1 DEF PlacesInv, Single, ArpInv, TypeOK, Modes
    <3>3. i \in KeyPlaces(notes[i].note) /\ j \in KeyPlaces(notes[i].note)
      BY <2>1, <2>3, <3>1, <3>2 DEF PlacesInv, Mirrored, Filled
    <3>4. notes[i].note \in Places
      BY <2>1, <2>3, NoteForms, KeysAssumption DEF ArpInv, NotesKnown
    <3> QED
      BY <2>1, <2>3, <3>1, <3>2, <3>3, <3>4, MirrorFacts DEF KeyPlaces
  <2> QED
    BY <2>2, <2>3
<1> QED
  BY <1>1, ArpInvariant, AlwaysPlaces, PTL

\* arp_update does not play a note twice in a row while there is another one:
\* neither the end notes in up/down nor any place in the other patterns, if the
\* pattern is not started over.
THEOREM ArpNoRepeat == Spec => NoRepeat
<1>1. ArpInv /\ PlacesInv /\ Remembered /\ [Next]_vars =>
        [Update /\ noteIndex = previousIndex =>
           IF mode = "updown"
           THEN (\E i \in Filled(notes) : notes[i].note # previousNote.note)
                  => previousNote'.note # previousNote.note
           ELSE Cardinality(Filled(notes)) > 1 => previousIndex' # previousIndex]_vars
  BY BeatMovesOn
<1> QED
  BY <1>1, ArpInvariant, AlwaysPlaces, AlwaysRemembered, PTL DEF Spec, NoRepeat

\* Whatever the patterns do with the places, their mirrors and flags, each step
\* of arp.c is one of the arpeggio that Keys is built on, or changes none of
\* what the arpeggio is about.
THEOREM ArpImplementsArpeggio == Spec => Arpeggiator!Spec
BY InitMaps, NextMaps, ArpInvariant, AlwaysPlaces, PTL DEF Spec, Arpeggiator!Spec

\* Distinct places are at distinct distances, and what lies further ahead stays ahead.
LEMMA StaysAhead ==
  ASSUME NEW f \in Places \cup {-1}, NEW n \in Places, NEW i \in Places, i # n,
         ~(Ahead(f, i) < Ahead(f, n))
  PROVE  Ahead(n, i) < Ahead(f, i)
<1>1. Memory \in Nat \ {0} /\ i \in 0 .. Memory - 1 /\ n \in 0 .. Memory - 1 /\ f \in -1 .. Memory - 1
  BY MemoryAssumption DEF Places
<1>2. Ahead(n, i) = IF i > n THEN i - n ELSE i - n + Memory
  BY AheadFacts
<1>3. \A j \in Places : Ahead(f, j) = IF j > f THEN j - f ELSE j - f + Memory
  <2> SUFFICES ASSUME NEW j \in Places PROVE Ahead(f, j) = IF j > f THEN j - f ELSE j - f + Memory
    OBVIOUS
  <2>1. CASE f \in Places
    BY <2>1, AheadFacts
  <2>2. CASE f = -1
    <3>1. j \in 0 .. Memory - 1
      BY DEF Places
    <3>2. j % Memory = j
      BY <1>1, <3>1
    <3> QED BY <1>1, <2>2, <3>1, <3>2 DEF Ahead
  <2> QED BY <2>1, <2>2
<1>4. /\ Ahead(f, i) = IF i > f THEN i - f ELSE i - f + Memory
      /\ Ahead(f, n) = IF n > f THEN n - f ELSE n - f + Memory
  BY <1>3
<1> QED
  BY <1>1, <1>2, <1>4

\* The safety kernel of EveryNotePlays: as long as a note keeps its place, each beat comes
\* nearer to it, or plays it, or it was the last one played (the mirror that up/down passes
\* over), and nothing else moves the place the pattern has come to. So it waits for no more
\* beats than there are places.
NoneOvertaken ==
  [][\A i \in Filled(notes) :
       mode \in {"updown", "assign"} /\ mode' = mode /\ i \in Filled(notes') /\ ~MidiStart =>
         IF Update THEN \/ notes[i].note \in {previousNote.note, previousNote'.note}
                        \/ Ahead(noteIndex', i) < Ahead(noteIndex, i)
         ELSE noteIndex' = noteIndex]_vars

LEMMA BeatOvertakesNone ==
  ASSUME ArpInv, PlacesInv, Remembered, Update, NEW i \in Filled(notes), mode \in {"updown", "assign"}
  PROVE  \/ notes[i].note \in {previousNote.note, previousNote'.note}
         \/ Ahead(noteIndex', i) < Ahead(noteIndex, i)
<1>1. PICK n \in Choices : noteIndex' = n /\ previousNote' = notes[n]
  BY DEF Update
<1>2. /\ n \in Places /\ i \in Places /\ notes[i] # Empty
      /\ noteIndex \in Places \cup {-1}
  BY <1>1, ChoicesFilled, MemoryAssumption DEF Update, Filled, ArpInv, TypeOK, Places
<1>3. n \in Playable /\ Between(Playable, noteIndex, n) = {}
  BY <1>1 DEF Choices
<1>4. CASE i \in Playable
  <2>1. CASE i = n
    BY <1>1, <2>1
  <2>2. CASE i # n
    <3>1. ~(Ahead(noteIndex, i) < Ahead(noteIndex, n))
      BY <1>3, <1>4 DEF Between
    <3> QED BY <1>1, <1>2, <2>2, <3>1, StaysAhead
  <2> QED BY <2>1, <2>2
<1>5. CASE i \notin Playable
  <2>1. mode = "updown" /\ previousIndex = Mirror(i)
    BY <1>5 DEF Playable
  <2>2. previousIndex \in Places /\ previousIndex # -1
    BY <1>2, <2>1, MirrorFacts, MemoryAssumption DEF Places
  <2>3. previousNote # Empty /\ previousIndex \in KeyPlaces(previousNote.note)
    BY <2>1, <2>2 DEF Remembered
  <2>4. notes[i] \in KeyNotes /\ previousNote \in KeyNotes
    BY <1>2, <2>3 DEF ArpInv, NotesKnown
  <2>5. notes[i].note \in Keys /\ previousNote.note \in Keys
    BY <2>4, KeyNoteFacts
  <2>6. i \in KeyPlaces(notes[i].note)
    BY <1>2, <2>1 DEF PlacesInv, Mirrored
  <2>7. i \in KeyPlaces(previousNote.note)
    BY <1>2, <2>1, <2>3, <2>5, KeyPlacesFacts
  <2> QED BY <2>5, <2>6, <2>7, KeyPlacesApart
<1> QED
  BY <1>4, <1>5

\* No beat of arp_update passes over a note that waits, and no key that comes or goes
\* (arp_assignNote) sends the pattern back, for every memory size and keyboard.
THEOREM ArpNoneOvertaken == Spec => NoneOvertaken
<1>1. ASSUME [Next]_vars, NEW i \in Filled(notes), i \in Filled(notes'),
             mode \in {"updown", "assign"}, mode' = mode, ~MidiStart, ~Update
      PROVE  noteIndex' = noteIndex
  <2>1. ~isEmpty(notes)
    BY DEF isEmpty
  <2>2. ASSUME NEW m, NEW h, SetMode(m, h) PROVE noteIndex' = noteIndex
    BY <1>1, <2>2 DEF SetMode
  <2>3. ASSUME NEW k \in Keys, Key(k) PROVE noteIndex' = noteIndex
    BY <2>1, <2>3 DEF Key, KeyPress, KeyRelease, StartsOn
  <2>4. (\E x \in Transposes : SetTranspose(x)) \/ UNCHANGED vars => noteIndex' = noteIndex
    BY DEF SetTranspose, vars
  <2> QED
    BY <1>1, <2>2, <2>3, <2>4 DEF Next, Controls, ButtonUpDown, ButtonAssign, ButtonRecord, Footswitch
<1>2. ArpInv /\ PlacesInv /\ Remembered /\ [Next]_vars =>
        [\A i \in Filled(notes) :
           mode \in {"updown", "assign"} /\ mode' = mode /\ i \in Filled(notes') /\ ~MidiStart =>
             IF Update THEN \/ notes[i].note \in {previousNote.note, previousNote'.note}
                            \/ Ahead(noteIndex', i) < Ahead(noteIndex, i)
             ELSE noteIndex' = noteIndex]_vars
  BY <1>1, BeatOvertakesNone
<1> QED
  BY <1>2, ArpInvariant, AlwaysPlaces, AlwaysRemembered, PTL DEF Spec, NoneOvertaken
=============================================================================
