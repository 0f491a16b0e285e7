-------------------------- MODULE PerformanceProofs --------------------------
(***************************************************************************)
(* Theorems about Keys and Performance, for all keys and wheel positions,  *)
(* and about Pots, for all pots and thresholds.                            *)
(***************************************************************************)
EXTENDS Performance, Pots, TLAPS

-----------------------------------------------------------------------------
(* Keys and pitches *)

\* What the arpeggiator plays, and what its keys may be.
Pitches == {k + x : k \in ArpKeys, x \in Transposes}
Fed     == KeyPitches \cup External

LEMMA PitchFacts ==
  /\ Transposes \subseteq Int /\ KeyPitches \subseteq Int /\ ArpKeys \subseteq Int
  /\ Pitches \subseteq Int
  /\ \A k \in Keyboard, x \in Transposes : k + x \in KeyPitches
  /\ \A k \in ArpKeys, x \in Transposes : k + x \in Pitches
  /\ 0 \in Transposes /\ Keyboard \subseteq Transposes /\ External \subseteq Transposes
  /\ Fed \subseteq ArpKeys /\ ArpKeys \subseteq Pitches /\ Keyboard \subseteq KeyPitches
<1>1. Keyboard \subseteq Int /\ External \subseteq Int
  BY KeysAssumption
<1>2. /\ Transposes \subseteq Int /\ 0 \in Transposes
      /\ Keyboard \subseteq Transposes /\ External \subseteq Transposes
  BY <1>1 DEF Transposes
<1>3. \A k \in Keyboard, x \in Transposes : k + x \in KeyPitches
  BY DEF KeyPitches
<1>4. KeyPitches \subseteq Int
  BY <1>1, <1>2 DEF KeyPitches
<1>5. ArpKeys \subseteq Int /\ Fed \subseteq ArpKeys
  BY <1>1, <1>4 DEF ArpKeys, Fed
<1>6. \A k \in ArpKeys, x \in Transposes : k + x \in Pitches
  BY DEF Pitches
<1>7. Pitches \subseteq Int
  BY <1>2, <1>5 DEF Pitches
<1>8. ASSUME NEW k \in ArpKeys PROVE k \in Pitches
  <2>1. k + 0 = k
    BY <1>5
  <2> QED
    BY <1>2, <1>6, <2>1
<1>9. ASSUME NEW k \in Keyboard PROVE k \in KeyPitches
  <2>1. k + 0 = k
    BY <1>1
  <2> QED
    BY <1>2, <1>3, <2>1
<1> QED
  BY <1>2, <1>3, <1>4, <1>5, <1>6, <1>7, <1>8, <1>9

-----------------------------------------------------------------------------
(* The arpeggiator's notes *)

\* What is in the arpeggiator came from a key, and nothing without one.
ArpInv ==
  /\ Arpeggiator!TypeOK /\ NotFedBack
  /\ ~running => held = {}
  /\ ~latch => latched = {}

LEMMA KeyArp ==
  ASSUME ArpInv, NEW k \in Fed, Arpeggiator!Press(k) \/ Arpeggiator!Release(k)
  PROVE  ArpInv' /\ UNCHANGED <<running, latch, transpose, last>>
<1>1. /\ running /\ UNCHANGED <<running, latch, transpose, last>>
      /\ held' \subseteq held \cup {k}
      /\ latched' \subseteq latched \cup held /\ (~latch => latched' = latched \/ latched' = latched \ {k})
      /\ sounding' \subseteq sounding
  BY DEF Arpeggiator!Press, Arpeggiator!Release, Arpeggiator!noteVars, Arpeggiator!Finished
<1>2. k \in ArpKeys
  BY PitchFacts
<1>3. Arpeggiator!TypeOK'
  BY <1>1, <1>2 DEF ArpInv, Arpeggiator!TypeOK
<1>4. NotFedBack'
  BY <1>1 DEF ArpInv, NotFedBack, Fed
<1>5. ~latch => latched' = {}
  BY <1>1 DEF ArpInv
<1> QED
  BY <1>1, <1>3, <1>4, <1>5 DEF ArpInv

LEMMA PatternArp ==
  ASSUME ArpInv, NEW on \in BOOLEAN, NEW hold_ \in BOOLEAN, Arpeggiator!SetPattern(on, hold_)
  PROVE  ArpInv' /\ sounding' = {}
BY DEF Arpeggiator!SetPattern, Arpeggiator!Finished, ArpInv, Arpeggiator!TypeOK, NotFedBack

LEMMA LatchArp ==
  ASSUME ArpInv, NEW on \in BOOLEAN, Arpeggiator!SetLatch(on)
  PROVE  ArpInv'
BY DEF Arpeggiator!SetLatch, Arpeggiator!Finished, ArpInv, Arpeggiator!TypeOK, NotFedBack

LEMMA BeatArp ==
  ASSUME ArpInv, Arpeggiator!Beat
  PROVE  ArpInv' /\ sounding' = last'
<1>1. PICK n \in held \cup latched : last' = {n + transpose}
  BY DEF Arpeggiator!Beat
<1>2. n \in ArpKeys /\ transpose \in Transposes
  BY DEF ArpInv, Arpeggiator!TypeOK
<1>3. sounding' = last'
  BY DEF Arpeggiator!Beat, Arpeggiator!Finished, ArpInv, Arpeggiator!TypeOK
<1>4. UNCHANGED <<running, latch, held, latched, transpose>>
  BY DEF Arpeggiator!Beat, Arpeggiator!noteVars
<1>5. last' \subseteq {k + x : k \in ArpKeys, x \in Transposes}
  BY <1>1, <1>2
<1>6. Arpeggiator!TypeOK'
  BY <1>3, <1>4, <1>5 DEF ArpInv, Arpeggiator!TypeOK
<1> QED
  BY <1>3, <1>4, <1>6 DEF ArpInv, NotFedBack

-----------------------------------------------------------------------------
(* MIDI out *)

\* Messages for notes of a set.
Told(notes) == [note : notes, on : BOOLEAN]

\* A message for one of some notes, or none.
Piece(p, notes, on) == p = <<>> \/ \E n \in notes : p = <<[note |-> n, on |-> on]>>

LEMMA PieceFacts ==
  ASSUME NEW p, NEW notes, NEW on \in BOOLEAN, Piece(p, notes, on)
  PROVE  p \in Seq(Told(notes)) /\ \A i \in DOMAIN p : p[i].on = on /\ p[i].note \in notes
<1>1. CASE p = <<>>
  BY <1>1
<1>2. ASSUME NEW n \in notes, p = <<[note |-> n, on |-> on]>>
      PROVE  p \in Seq(Told(notes)) /\ \A i \in DOMAIN p : p[i].on = on /\ p[i].note \in notes
  <2> DEFINE m == [note |-> n, on |-> on]
  <2>1. m \in Told(notes) /\ m.on = on /\ m.note \in notes
    BY DEF Told
  <2> HIDE DEF m
  <2>2. p = <<m>>
    BY <1>2 DEF m
  <2>3. DOMAIN p = {1} /\ p[1] = m
    BY <2>2
  <2> QED
    BY <2>1, <2>2, <2>3
<1> QED
  BY <1>1, <1>2 DEF Piece

LEMMA SendParts ==
  ASSUME NEW queued, NEW offs, NEW ons, Send(queued, offs, ons)
  PROVE  \E p, q : /\ Piece(p, offs, FALSE) /\ Piece(q, ons, TRUE)
                   /\ line' = IF loop THEN queued \o p \o q ELSE queued
<1> DEFINE p == IF offs = {} THEN <<>> ELSE <<[note |-> CHOOSE n \in offs : TRUE, on |-> FALSE]>>
           q == IF ons = {} THEN <<>> ELSE <<[note |-> CHOOSE n \in ons : TRUE, on |-> TRUE]>>
<1>1. line' = IF loop THEN queued \o p \o q ELSE queued
  BY DEF Send
<1>2. Piece(p, offs, FALSE)
  BY DEF Piece
<1>3. Piece(q, ons, TRUE)
  BY DEF Piece
<1> HIDE DEF p, q
<1> QED
  BY <1>1, <1>2, <1>3

LEMMA SendTyped ==
  ASSUME NEW notes, NEW queued \in Seq(Told(notes)), NEW offs \in SUBSET notes,
         NEW ons \in SUBSET notes, Send(queued, offs, ons)
  PROVE  line' \in Seq(Told(notes)) /\ loop' = loop
<1>1. PICK p, q : /\ Piece(p, offs, FALSE) /\ Piece(q, ons, TRUE)
                  /\ line' = IF loop THEN queued \o p \o q ELSE queued
  BY SendParts
<1>2. Piece(p, notes, FALSE) /\ Piece(q, notes, TRUE)
  BY <1>1 DEF Piece
<1>3. p \in Seq(Told(notes)) /\ q \in Seq(Told(notes))
  BY <1>2, PieceFacts
<1>4. queued \o p \o q \in Seq(Told(notes))
  BY <1>3
<1> QED
  BY <1>1, <1>4 DEF Send

\* Nothing sent, nothing queued.
LEMMA SendNothing ==
  ASSUME NEW notes, NEW queued \in Seq(Told(notes)), Send(queued, {}, {})
  PROVE  line' = queued
<1>1. line' = IF loop THEN queued \o <<>> \o <<>> ELSE queued
  BY DEF Send
<1> QED
  BY <1>1

\* Only notes that end are sent off.
LEMMA SendOffs ==
  ASSUME NEW offs, NEW ons, Send(<<>>, offs, ons)
  PROVE  \A i \in DOMAIN line' : ~line'[i].on => line'[i].note \in offs
<1>1. PICK p, q : /\ Piece(p, offs, FALSE) /\ Piece(q, ons, TRUE)
                  /\ line' = IF loop THEN <<>> \o p \o q ELSE <<>>
  BY SendParts
<1>2. /\ p \in Seq(Told(offs)) /\ q \in Seq(Told(ons))
      /\ \A i \in DOMAIN p : p[i].note \in offs
      /\ \A i \in DOMAIN q : q[i].on
  BY <1>1, PieceFacts
<1>3. <<>> \o p \o q = p \o q
  BY <1>2
<1>4. \A i \in DOMAIN (p \o q) : (p \o q)[i].note \in offs \/ (p \o q)[i].on
  BY <1>2
<1>5. CASE loop
  BY <1>1, <1>3, <1>4, <1>5
<1>6. CASE ~loop
  BY <1>1, <1>6
<1> QED
  BY <1>5, <1>6

-----------------------------------------------------------------------------
(* What holds of the keys whatever is locked, switched or looped *)

\* In local on the arpeggiator's notes are sent, and played back to the
\* synthesizer. In local off only keys' notes are, and only those that played.
OnTheWay == IF localOn THEN Pitches ELSE KeyPitches

LineInv ==
  /\ line \in Seq(Told(OnTheWay))
  /\ line # <<>> => localOn \/ ~(isShifted \/ isDoubleClicked)

\* The rest of TypeOK.
PanelTyped ==
  /\ {isShifted, isDoubleClicked, doubleClickTimer, prevMiscButton, localOn} \subseteq BOOLEAN
  /\ loop \in BOOLEAN

BitsTyped == down \subseteq Keyboard /\ noteStates \subseteq Pitches /\ midiDown \subseteq Pitches

KeysInv == ArpInv /\ PanelTyped /\ BitsTyped /\ LineInv

LEMMA WayFacts ==
  /\ OnTheWay \subseteq Pitches /\ KeyPitches \subseteq OnTheWay
  /\ ~localOn => OnTheWay \subseteq Fed
  /\ <<>> \in Seq(Told(OnTheWay))
BY PitchFacts DEF OnTheWay, Fed

LEMMA TransposingEffect ==
  ASSUME ArpInv, NEW key, NEW pressed, NEW fromKeyboard, Transposing(key, pressed, fromKeyboard),
         fromKeyboard \/ ~localOn => key \in Transposes
  PROVE  /\ ArpInv' /\ UNCHANGED <<noteStates, loop, held, sounding, running>>
         /\ isShifted \/ isDoubleClicked
         /\ isDoubleClicked' \in BOOLEAN /\ (isDoubleClicked' => isDoubleClicked)
         /\ ~fromKeyboard /\ localOn => transpose' = transpose
<1>1. /\ UNCHANGED <<running, latch, held, latched, last, sounding>>
      /\ transpose' \in {transpose, key} /\ (transpose' = transpose \/ fromKeyboard \/ ~localOn)
      /\ UNCHANGED <<noteStates, loop>>
      /\ isShifted \/ isDoubleClicked
      /\ isDoubleClicked' = (isDoubleClicked /\ ~(pressed /\ (fromKeyboard \/ ~localOn) /\ isShifted))
  BY DEF Transposing, arpVars
<1>2. transpose' \in Transposes
  BY <1>1 DEF ArpInv, Arpeggiator!TypeOK
<1>3. ArpInv'
  BY <1>1, <1>2 DEF ArpInv, Arpeggiator!TypeOK, NotFedBack
<1> QED
  BY <1>1, <1>3

\* What a key that plays does to the arpeggiator and to the assigner.
LEMMA PlayingEffect ==
  ASSUME ArpInv, noteStates \subseteq Pitches, NEW key, NEW pressed \in BOOLEAN,
         NEW fromKeyboard \in BOOLEAN, NEW queued \in Seq(Told(OnTheWay)),
         Playing(key, pressed, fromKeyboard, queued),
         IF fromKeyboard THEN key \in Keyboard ELSE key \in Pitches,
         PlaysArp(fromKeyboard) => key \in Fed
  PROVE  /\ ArpInv' /\ noteStates' \subseteq Pitches
         /\ ~isShifted /\ ~isDoubleClicked
         /\ UNCHANGED <<isDoubleClicked, running, transpose, last>>
         /\ line' \in Seq(Told(OnTheWay)) /\ loop' = loop
         /\ ~fromKeyboard => line' = queued
<1> DEFINE note == IF fromKeyboard THEN key + transpose ELSE key
           sent == IF SendsMidi(fromKeyboard) THEN {note} ELSE {}
           ends == IF ~pressed /\ PlaysArp(fromKeyboard) /\ Arpeggiator!Empties(key) THEN last ELSE {}
           offs == (IF localOn THEN ends ELSE {}) \cup (IF pressed THEN {} ELSE sent)
           ons  == IF pressed THEN sent ELSE {}
<1>1. /\ ~isShifted /\ ~isDoubleClicked /\ UNCHANGED isDoubleClicked
      /\ IF PlaysArp(fromKeyboard)
         THEN /\ IF pressed THEN Arpeggiator!Press(key) ELSE Arpeggiator!Release(key)
              /\ noteStates' = noteStates \ ends
         ELSE /\ noteStates' = IF PlaysSynth(fromKeyboard)
                               THEN SetBit(noteStates, note, pressed) ELSE noteStates
              /\ UNCHANGED <<arpVars, transpose>>
      /\ Send(queued, offs, ons)
  BY DEF Playing
<1>2. note \in Pitches
  <2>1. transpose \in Transposes
    BY DEF ArpInv, Arpeggiator!TypeOK
  <2> QED
    BY <2>1, PitchFacts DEF Fed
<1>3. last \subseteq Pitches
  BY DEF ArpInv, Arpeggiator!TypeOK, Pitches
<1>4. offs \in SUBSET OnTheWay /\ ons \in SUBSET OnTheWay
  <2>1. CASE localOn
    BY <1>2, <1>3, <2>1 DEF OnTheWay
  <2>2. CASE ~localOn
    <3>1. sent \subseteq KeyPitches
      <4>1. transpose \in Transposes
        BY DEF ArpInv, Arpeggiator!TypeOK
      <4> QED
        BY <4>1, PitchFacts DEF SendsMidi
    <3>2. offs \cup ons \subseteq sent
      BY <2>2
    <3> HIDE DEF offs, ons, sent
    <3> QED
      BY <2>2, <3>1, <3>2 DEF OnTheWay
  <2> QED
    BY <2>1, <2>2
<1>5. line' \in Seq(Told(OnTheWay)) /\ loop' = loop
  <2> HIDE DEF offs, ons
  <2> QED
    BY <1>1, <1>4, SendTyped
<1>6. ~fromKeyboard => line' = queued
  <2>1. ~fromKeyboard => offs = {} /\ ons = {}
    BY DEF SendsMidi, PlaysArp
  <2> HIDE DEF offs, ons
  <2>2. ~fromKeyboard => Send(queued, {}, {})
    BY <1>1, <2>1
  <2> QED
    BY <2>2, SendNothing
<1> HIDE DEF note, offs, ons
<1>7. CASE PlaysArp(fromKeyboard)
  <2>1. ArpInv' /\ UNCHANGED <<running, transpose, last>>
    BY <1>1, <1>7, KeyArp
  <2>2. noteStates' \subseteq Pitches
    BY <1>1, <1>7
  <2> QED
    BY <1>1, <1>5, <1>6, <2>1, <2>2
<1>8. CASE ~PlaysArp(fromKeyboard)
  <2>1. UNCHANGED <<arpVars, transpose>>
    BY <1>1, <1>8
  <2>2. UNCHANGED <<running, latch, held, latched, transpose, last, sounding>>
    BY <2>1 DEF arpVars
  <2>3. ArpInv'
    BY <2>2 DEF ArpInv, Arpeggiator!TypeOK, NotFedBack
  <2>4. noteStates' \subseteq Pitches
    BY <1>1, <1>2, <1>8 DEF SetBit
  <2> QED
    BY <1>1, <1>5, <1>6, <2>2, <2>3, <2>4
<1> QED
  BY <1>7, <1>8

\* A key here or at MIDI in. What comes from MIDI in is not sent again.
LEMMA KeyEventInv ==
  ASSUME KeysInv, NEW key, NEW pressed \in BOOLEAN, NEW fromKeyboard \in BOOLEAN,
         NEW queued \in Seq(Told(OnTheWay)), KeyEvent(key, pressed, fromKeyboard, queued),
         IF fromKeyboard THEN key \in Keyboard /\ queued = <<>> ELSE key \in Pitches,
         ~fromKeyboard /\ ~localOn => key \in Fed,
         ~localOn /\ (isShifted \/ isDoubleClicked) => key \in Transposes /\ queued = <<>>
  PROVE  ArpInv' /\ PanelTyped' /\ noteStates' \subseteq Pitches /\ LineInv'
<1>1. UNCHANGED <<isShifted, doubleClickTimer, prevMiscButton, localOn>>
  BY DEF KeyEvent
<1>2. PlaysArp(fromKeyboard) => key \in Fed
  BY PitchFacts DEF PlaysArp, Fed
<1>3. OnTheWay' = OnTheWay
  BY <1>1 DEF OnTheWay
<1>4. CASE Transposing(key, pressed, fromKeyboard) /\ line' = queued
  <2>1. fromKeyboard \/ ~localOn => key \in Transposes
    BY <1>4, PitchFacts DEF Transposing
  <2>2. /\ ArpInv' /\ UNCHANGED <<noteStates, loop>>
        /\ isDoubleClicked' \in BOOLEAN /\ (isDoubleClicked' => isDoubleClicked)
        /\ isShifted \/ isDoubleClicked
    BY <1>4, <2>1, TransposingEffect DEF KeysInv
  <2>3. LineInv'
    BY <1>1, <1>3, <1>4, <2>2 DEF LineInv
  <2>4. PanelTyped'
    BY <1>1, <2>2 DEF KeysInv, PanelTyped
  <2> QED
    BY <2>2, <2>3, <2>4 DEF KeysInv, BitsTyped
<1>5. CASE Playing(key, pressed, fromKeyboard, queued)
  <2>1. ArpInv /\ noteStates \subseteq Pitches
    BY DEF KeysInv, BitsTyped
  <2>2. IF fromKeyboard THEN key \in Keyboard ELSE key \in Pitches
    OBVIOUS
  <2>3. /\ ArpInv' /\ noteStates' \subseteq Pitches
        /\ ~isShifted /\ ~isDoubleClicked /\ UNCHANGED isDoubleClicked
    BY <1>2, <1>5, <2>1, <2>2, PlayingEffect
  <2>4. line' \in Seq(Told(OnTheWay)) /\ loop' = loop
    BY <1>2, <1>5, <2>1, <2>2, PlayingEffect
  <2>5. LineInv'
    BY <1>1, <1>3, <2>3, <2>4 DEF LineInv
  <2>6. PanelTyped'
    BY <1>1, <2>3, <2>4 DEF KeysInv, PanelTyped
  <2> QED
    BY <2>3, <2>5, <2>6
<1> QED
  BY <1>4, <1>5 DEF KeyEvent

LEMMA BitTyped ==
  ASSUME NEW S, NEW set \in SUBSET S, NEW n \in S, NEW on
  PROVE  SetBit(set, n, on) \subseteq S
BY DEF SetBit

LEMMA KeysEvents ==
  ASSUME KeysInv,
         \/ \E k \in Keyboard, pressed \in BOOLEAN : Key(k, pressed)
         \/ \E n \in External, pressed \in BOOLEAN : ExternalKey(n, pressed)
         \/ PlayedBack
  PROVE  KeysInv'
<1>1. ASSUME NEW k \in Keyboard, NEW pressed \in BOOLEAN, Key(k, pressed) PROVE KeysInv'
  <2>1. KeyEvent(k, pressed, TRUE, <<>>) /\ UNCHANGED midiDown /\ down' = SetBit(down, k, pressed)
    BY <1>1 DEF Key
  <2>2. ArpInv' /\ PanelTyped' /\ noteStates' \subseteq Pitches /\ LineInv'
    BY <2>1, PitchFacts, WayFacts, KeyEventInv
  <2> QED
    BY <2>1, <2>2, BitTyped DEF KeysInv, BitsTyped
<1>2. ASSUME NEW n \in External, NEW pressed \in BOOLEAN, ExternalKey(n, pressed) PROVE KeysInv'
  <2>1. KeyEvent(n, pressed, FALSE, <<>>) /\ UNCHANGED down /\ midiDown' = SetBit(midiDown, n, pressed)
    BY <1>2 DEF ExternalKey
  <2>2. n \in Fed /\ n \in Pitches /\ n \in Transposes
    BY PitchFacts DEF Fed
  <2>3. ArpInv' /\ PanelTyped' /\ noteStates' \subseteq Pitches /\ LineInv'
    BY <2>1, <2>2, WayFacts, KeyEventInv
  <2> QED
    BY <2>1, <2>2, <2>3, BitTyped DEF KeysInv, BitsTyped
<1>3. ASSUME PlayedBack PROVE KeysInv'
  <2> DEFINE m == Head(line)
             rest == Tail(line)
  <2>1. line # <<>> /\ line \in Seq(Told(OnTheWay))
    BY <1>3 DEF PlayedBack, KeysInv, LineInv
  <2>2. m \in Told(OnTheWay) /\ rest \in Seq(Told(OnTheWay))
    BY <2>1
  <2>3. /\ KeyEvent(m.note, m.on, FALSE, rest) /\ UNCHANGED down
        /\ midiDown' = SetBit(midiDown, m.note, m.on)
    BY <1>3 DEF PlayedBack
  <2> HIDE DEF m, rest
  <2>4. m.note \in OnTheWay /\ m.on \in BOOLEAN
    BY <2>2 DEF Told
  <2>5. m.note \in Pitches /\ (~localOn => m.note \in Fed)
    BY <2>4, WayFacts
  <2>6. localOn \/ ~(isShifted \/ isDoubleClicked)
    BY <2>1 DEF KeysInv, LineInv
  <2>7. ArpInv' /\ PanelTyped' /\ noteStates' \subseteq Pitches /\ LineInv'
    BY <2>2, <2>3, <2>4, <2>5, <2>6, KeyEventInv
  <2> QED
    BY <2>3, <2>5, <2>7, BitTyped DEF KeysInv, BitsTyped
<1> QED
  BY <1>1, <1>2, <1>3

LEMMA KeysPanel ==
  ASSUME KeysInv,
         \/ \E pressed \in BOOLEAN : FromTape(pressed)
         \/ DoubleClickTimeout \/ LocalButton
         \/ \E on \in BOOLEAN : LocalControl(on)
         \/ AllNotesOff \/ UNCHANGED vars
  PROVE  KeysInv'
<1>1. PanelTyped'
  <2>1. ASSUME NEW pressed \in BOOLEAN, FromTape(pressed) PROVE PanelTyped'
    BY <2>1 DEF FromTape, KeysInv, PanelTyped, outVars
  <2>2. ASSUME DoubleClickTimeout PROVE PanelTyped'
    BY <2>2 DEF DoubleClickTimeout, KeysInv, PanelTyped, outVars
  <2>3. ASSUME LocalButton PROVE PanelTyped'
    BY <2>3 DEF LocalButton, KeysInv, PanelTyped, outVars
  <2>4. ASSUME NEW on \in BOOLEAN, LocalControl(on) PROVE PanelTyped'
    BY <2>4 DEF LocalControl, KeysInv, PanelTyped, outVars, panelVars
  <2>5. ASSUME AllNotesOff \/ UNCHANGED vars PROVE PanelTyped'
    BY <2>5 DEF AllNotesOff, KeysInv, PanelTyped, outVars, panelVars, vars
  <2> QED
    BY <2>1, <2>2, <2>3, <2>4, <2>5
<1>2. /\ UNCHANGED <<transpose, arpVars, keyVars, outVars>>
      /\ noteStates' = {} \/ noteStates' = noteStates
  BY DEF FromTape, DoubleClickTimeout, LocalButton, LocalControl, AllNotesOff, vars
<1>3. UNCHANGED <<running, latch, held, latched, transpose, last, sounding, down, midiDown, loop, line>>
  BY <1>2 DEF arpVars, keyVars, outVars
<1>4. ArpInv'
  BY <1>3 DEF KeysInv, ArpInv, Arpeggiator!TypeOK, NotFedBack
<1>5. BitsTyped'
  BY <1>2, <1>3 DEF KeysInv, BitsTyped
<1>6. LineInv'
  <2>1. CASE Quiet
    BY <1>3, <2>1, WayFacts DEF Quiet, LineInv, Told
  <2>2. CASE DoubleClickTimeout \/ UNCHANGED vars
    BY <1>3, <2>2 DEF DoubleClickTimeout, vars, panelVars, KeysInv, LineInv, OnTheWay
  <2> QED
    BY <2>1, <2>2 DEF FromTape, LocalButton, LocalControl, AllNotesOff
<1> QED
  BY <1>1, <1>4, <1>5, <1>6 DEF KeysInv

LEMMA KeysArp ==
  ASSUME KeysInv,
         \/ \E on \in BOOLEAN : ArpPattern(on) \/ ArpLatch(on)
         \/ ArpBeat
  PROVE  KeysInv'
<1>1. ArpInv /\ latch \in BOOLEAN /\ last \subseteq Pitches /\ noteStates \subseteq Pitches
  BY DEF KeysInv, ArpInv, BitsTyped, Arpeggiator!TypeOK, Pitches
<1>2. ArpOff \subseteq OnTheWay
  BY <1>1 DEF ArpOff, OnTheWay
<1>3. ASSUME ArpInv', noteStates' \subseteq Pitches, UNCHANGED <<panelVars, localOn, keyVars>>,
             NEW offs \in SUBSET OnTheWay, NEW ons \in SUBSET OnTheWay, ~localOn => offs \cup ons = {},
             Send(<<>>, offs, ons)
      PROVE  KeysInv'
  <2>1. line' \in Seq(Told(OnTheWay)) /\ loop' = loop
    BY <1>3, WayFacts, SendTyped
  <2>2. ~localOn => line' = <<>>
    <3>1. ~localOn => Send(<<>>, {}, {})
      BY <1>3
    <3> QED
      BY <3>1, WayFacts, SendNothing
  <2>3. LineInv'
    BY <1>3, <2>1, <2>2 DEF LineInv, OnTheWay
  <2>4. PanelTyped' /\ BitsTyped'
    BY <1>3, <2>1 DEF KeysInv, PanelTyped, BitsTyped, panelVars, keyVars
  <2> QED
    BY <1>3, <2>3, <2>4 DEF KeysInv
<1>4. ASSUME NEW on \in BOOLEAN, ArpPattern(on) PROVE KeysInv'
  <2>1. /\ Arpeggiator!SetPattern(on, latch) /\ noteStates' = {} /\ Send(<<>>, ArpOff, {})
        /\ UNCHANGED <<panelVars, localOn, keyVars>>
    BY <1>4 DEF ArpPattern
  <2>2. ArpInv'
    BY <1>1, <2>1, PatternArp
  <2> QED
    BY <1>2, <1>3, <2>1, <2>2 DEF ArpOff
<1>5. ASSUME NEW on \in BOOLEAN, ArpLatch(on) PROVE KeysInv'
  <2> DEFINE ends == IF latch /\ ~on /\ held = {} THEN last ELSE {}
             offs == IF localOn THEN ends ELSE {}
  <2>1. /\ Arpeggiator!SetLatch(on) /\ noteStates' = noteStates \ ends /\ Send(<<>>, offs, {})
        /\ UNCHANGED <<panelVars, localOn, keyVars>>
    BY <1>5 DEF ArpLatch
  <2>2. ArpInv'
    BY <1>1, <2>1, LatchArp
  <2>3. offs \in SUBSET OnTheWay /\ (~localOn => offs \cup {} = {})
    BY <1>1 DEF OnTheWay
  <2>4. noteStates' \subseteq Pitches
    BY <1>1, <2>1
  <2> HIDE DEF offs
  <2> QED
    BY <1>3, <2>1, <2>2, <2>3, <2>4
<1>6. ASSUME ArpBeat PROVE KeysInv'
  <2> DEFINE ons == IF localOn THEN last' ELSE {}
  <2>1. /\ Arpeggiator!Beat /\ noteStates' = (noteStates \ last) \cup last' /\ Send(<<>>, ArpOff, ons)
        /\ UNCHANGED <<panelVars, localOn, keyVars>>
    BY <1>6 DEF ArpBeat
  <2>2. ArpInv'
    BY <1>1, <2>1, BeatArp
  <2>3. last' \subseteq Pitches
    BY <2>2 DEF ArpInv, Arpeggiator!TypeOK, Pitches
  <2>4. ons \in SUBSET OnTheWay /\ (~localOn => ArpOff \cup ons = {})
    BY <2>3 DEF OnTheWay, ArpOff
  <2>5. noteStates' \subseteq Pitches
    BY <1>1, <2>1, <2>3
  <2> HIDE DEF ons
  <2> QED
    BY <1>2, <1>3, <2>1, <2>2, <2>4, <2>5
<1> QED
  BY <1>4, <1>5, <1>6

LEMMA KeysInit == Init => KeysInv
<1> SUFFICES ASSUME Init PROVE KeysInv
  OBVIOUS
<1>1. ArpInv
  <2>1. /\ running = FALSE /\ latch = FALSE /\ held = {} /\ latched = {}
        /\ transpose = 0 /\ last = {} /\ sounding = {}
    BY DEF Init, Arpeggiator!Init
  <2>2. 0 \in Transposes
    BY PitchFacts
  <2>3. Arpeggiator!TypeOK
    <3>1. running \in BOOLEAN /\ latch \in BOOLEAN
      BY <2>1
    <3>2. transpose \in Transposes
      BY <2>1, <2>2
    <3> QED
      BY <2>1, <3>1, <3>2 DEF Arpeggiator!TypeOK
  <2> QED
    BY <2>1, <2>3 DEF ArpInv, NotFedBack
<1>2. PanelTyped /\ BitsTyped
  BY DEF Init, PanelTyped, BitsTyped
<1>3. LineInv
  BY WayFacts DEF Init, LineInv
<1> QED
  BY <1>1, <1>2, <1>3 DEF KeysInv

\* Steps of Keys, and a latch that is set to what it is.
KeysStep == Next \/ ((\E on \in BOOLEAN : ArpLatch(on)) /\ Leave)

LEMMA KeysKept ==
  ASSUME KeysInv, [KeysStep]_vars
  PROVE  KeysInv'
<1>1. latch \in BOOLEAN
  BY DEF KeysInv, ArpInv, Arpeggiator!TypeOK
<1>2. ArpLatch(~latch) => \E on \in BOOLEAN : ArpLatch(on)
  BY <1>1
<1> QED
  BY <1>2, KeysEvents, KeysPanel, KeysArp DEF KeysStep, Next, KeysOff, KeysStay



-----------------------------------------------------------------------------
(* What a key bit is there for *)

\* Bits that a key's release will turn off, as things are switched: one of the
\* keyboard, or one at MIDI in.
Playable == IF localOn /\ ~running THEN {k + transpose : k \in down} ELSE {}
Received == IF localOn \/ ~running THEN midiDown ELSE {}

\* Other bits than the arpeggiator's can be turned off by a key, or have been left by a
\* transposition.
Releasable == noteStates \subseteq sounding \cup Received \cup Playable \cup left

\* While keys are swallowed, a note-off on its way is for a bit that is off.
OffsAreOff ==
  isShifted \/ isDoubleClicked =>
    \A i \in DOMAIN line : ~line[i].on => line[i].note \notin noteStates \ sounding

Causes == ArpKeysDown /\ Releasable /\ OffsAreOff

\* What is left stays so while its bit is on.
LeftStays == left \cap noteStates' \subseteq left'

LEMMA LeftFacts ==
  ASSUME Leave \/ UNCHANGED vars
  PROVE  LeftStays
BY DEF Leave, LeftStays, vars

LEMMA CausesInit == Init => Causes
<1> SUFFICES ASSUME Init PROVE Causes
  OBVIOUS
<1>1. held = {} /\ noteStates = {} /\ ~isShifted /\ ~isDoubleClicked
  BY DEF Init, Arpeggiator!Init
<1> QED
  BY <1>1 DEF Causes, ArpKeysDown, Releasable, OffsAreOff

\* Nothing is on its way.
LEMMA NoOffs == line' = <<>> => OffsAreOff'
<1> SUFFICES ASSUME line' = <<>> PROVE OffsAreOff'
  OBVIOUS
<1>1. DOMAIN line' = {}
  OBVIOUS
<1> QED
  BY <1>1 DEF OffsAreOff

\* Every key that plays is let go, so nothing depends on how keys are routed.
LEMMA SwallowCauses ==
  ASSUME noteStates \subseteq sounding, held = {}, LeftStays,
         noteStates' \subseteq noteStates, UNCHANGED <<sounding, held>>
  PROVE  ArpKeysDown' /\ Releasable'
BY DEF ArpKeysDown, Releasable

\* A key of the keyboard that plays.
LEMMA KeyPlayingCauses ==
  ASSUME KeysInv, Causes, NEW k \in Keyboard, NEW pressed \in BOOLEAN,
         Playing(k, pressed, TRUE, <<>>), down' = SetBit(down, k, pressed),
         UNCHANGED <<midiDown, isShifted, localOn>>, LeftStays
  PROVE  Causes'
<1> DEFINE note == k + transpose
           ends == IF ~pressed /\ PlaysArp(TRUE) /\ Arpeggiator!Empties(k) THEN last ELSE {}
<1>1. /\ ~isShifted' /\ ~isDoubleClicked'
      /\ IF PlaysArp(TRUE)
         THEN /\ IF pressed THEN Arpeggiator!Press(k) ELSE Arpeggiator!Release(k)
              /\ noteStates' = noteStates \ ends
         ELSE /\ noteStates' = IF PlaysSynth(TRUE) THEN SetBit(noteStates, note, pressed) ELSE noteStates
              /\ UNCHANGED <<arpVars, transpose>>
  BY DEF Playing
<1>2. OffsAreOff'
  BY <1>1 DEF OffsAreOff
<1>3. ArpInv /\ sounding \subseteq last /\ transpose \in Int /\ down \subseteq Int /\ k \in Int
  <2>1. transpose \in Transposes /\ sounding \subseteq last
    BY DEF KeysInv, ArpInv, Arpeggiator!TypeOK
  <2> QED
    BY <2>1, PitchFacts, KeysAssumption DEF KeysInv, BitsTyped
<1>4. CASE PlaysArp(TRUE)
  <2>1. running /\ localOn
    BY <1>4 DEF PlaysArp
  <2>2. UNCHANGED <<running, transpose, last>>
    BY <1>1, <1>4 DEF Arpeggiator!Press, Arpeggiator!Release
  <2>3. ArpKeysDown'
    <3>1. held \subseteq down
      BY <2>1 DEF Causes, ArpKeysDown
    <3>2. held' \subseteq down'
      BY <1>1, <1>4, <3>1 DEF SetBit, Arpeggiator!Press, Arpeggiator!Release, Arpeggiator!noteVars
    <3> QED
      BY <2>1, <3>2 DEF ArpKeysDown
  <2>4. noteStates' \subseteq sounding' \cup midiDown \cup left'
    <3>1. noteStates \subseteq sounding \cup midiDown \cup left
      BY <2>1 DEF Causes, Releasable, Received, Playable
    <3>2. CASE pressed
      BY <1>1, <1>4, <3>1, <3>2 DEF Arpeggiator!Press, LeftStays
    <3>3. CASE ~pressed
      <4>1. sounding' = IF Arpeggiator!Empties(k) THEN sounding \ last ELSE sounding
        BY <1>1, <1>4, <3>3 DEF Arpeggiator!Release, Arpeggiator!Finished
      <4>2. noteStates' = IF Arpeggiator!Empties(k) THEN noteStates \ last ELSE noteStates
        BY <1>1, <1>4, <3>3
      <4> QED
        BY <3>1, <4>1, <4>2 DEF LeftStays
    <3> QED
      BY <3>2, <3>3
  <2>5. Releasable'
    BY <2>1, <2>2, <2>4 DEF Releasable, Received
  <2> QED
    BY <1>2, <2>3, <2>5 DEF Causes
<1>5. CASE ~PlaysArp(TRUE)
  <2>1. UNCHANGED <<running, held, transpose, sounding>>
    BY <1>1, <1>5 DEF arpVars
  <2>2. noteStates' = IF localOn /\ ~running THEN SetBit(noteStates, note, pressed) ELSE noteStates
    BY <1>1, <1>5 DEF PlaysSynth
  <2>3. ArpKeysDown'
    <3>1. localOn => held = {}
      BY <1>3, <1>5 DEF PlaysArp, ArpInv
    <3> QED
      BY <2>1, <3>1 DEF ArpKeysDown, Causes
  <2>4. CASE localOn /\ ~running
    <3>1. noteStates \subseteq sounding \cup midiDown \cup {j + transpose : j \in down} \cup left
      BY <2>4 DEF Causes, Releasable, Received, Playable
    <3>2. noteStates' \subseteq sounding \cup midiDown \cup {j + transpose : j \in down'} \cup left'
      <4>1. CASE pressed
        BY <2>2, <2>4, <3>1, <4>1 DEF SetBit, LeftStays
      <4>2. CASE ~pressed
        <5>1. down' = down \ {k} /\ noteStates' = noteStates \ {note}
          BY <2>2, <2>4, <4>2 DEF SetBit
        <5>2. ASSUME NEW n \in noteStates', NEW j \in down, n = j + transpose PROVE j \in down'
          BY <5>1, <5>2
        <5> QED
          BY <3>1, <5>1, <5>2 DEF LeftStays
      <4> QED
        BY <4>1, <4>2
    <3>3. Playable' = {j + transpose : j \in down'} /\ Received' = midiDown
      BY <2>1, <2>4 DEF Playable, Received
    <3> QED
      BY <1>2, <2>1, <2>3, <3>2, <3>3 DEF Causes, Releasable
  <2>5. CASE ~(localOn /\ ~running)
    <3>1. Playable = {} /\ Playable' = {} /\ Received' = Received
      BY <2>1, <2>5 DEF Playable, Received
    <3> QED
      BY <1>2, <2>1, <2>2, <2>3, <2>5, <3>1 DEF Causes, Releasable, LeftStays
  <2> QED
    BY <2>4, <2>5
<1> QED
  BY <1>4, <1>5

\* A key at MIDI in that plays, also one played back.
LEMMA MidiPlayingCauses ==
  ASSUME KeysInv, Causes, NEW n, NEW pressed \in BOOLEAN, NEW queued,
         Playing(n, pressed, FALSE, queued), midiDown' = SetBit(midiDown, n, pressed),
         UNCHANGED <<down, isShifted, localOn>>, LeftStays
  PROVE  Causes'
<1> DEFINE ends == IF ~pressed /\ PlaysArp(FALSE) /\ Arpeggiator!Empties(n) THEN last ELSE {}
<1>1. /\ ~isShifted' /\ ~isDoubleClicked'
      /\ IF PlaysArp(FALSE)
         THEN /\ IF pressed THEN Arpeggiator!Press(n) ELSE Arpeggiator!Release(n)
              /\ noteStates' = noteStates \ ends
         ELSE /\ noteStates' = IF PlaysSynth(FALSE) THEN SetBit(noteStates, n, pressed) ELSE noteStates
              /\ UNCHANGED <<arpVars, transpose>>
  BY DEF Playing
<1>2. OffsAreOff'
  BY <1>1 DEF OffsAreOff
<1>3. ArpInv /\ sounding \subseteq last
  BY DEF KeysInv, ArpInv, Arpeggiator!TypeOK
<1>4. CASE PlaysArp(FALSE)
  <2>1. running /\ ~localOn
    BY <1>4 DEF PlaysArp
  <2>2. UNCHANGED running
    BY <1>1, <1>4 DEF Arpeggiator!Press, Arpeggiator!Release
  <2>3. ArpKeysDown'
    <3>1. held \subseteq midiDown
      BY <2>1 DEF Causes, ArpKeysDown
    <3>2. held' \subseteq midiDown'
      BY <1>1, <1>4, <3>1 DEF SetBit, Arpeggiator!Press, Arpeggiator!Release, Arpeggiator!noteVars
    <3> QED
      BY <2>1, <3>2 DEF ArpKeysDown
  <2>4. noteStates' \subseteq sounding' \cup left'
    <3>1. noteStates \subseteq sounding \cup left
      BY <2>1 DEF Causes, Releasable, Received, Playable
    <3>2. CASE pressed
      BY <1>1, <1>4, <3>1, <3>2 DEF Arpeggiator!Press, LeftStays
    <3>3. CASE ~pressed
      <4>1. sounding' = IF Arpeggiator!Empties(n) THEN sounding \ last ELSE sounding
        BY <1>1, <1>4, <3>3 DEF Arpeggiator!Release, Arpeggiator!Finished
      <4>2. noteStates' = IF Arpeggiator!Empties(n) THEN noteStates \ last ELSE noteStates
        BY <1>1, <1>4, <3>3
      <4> QED
        BY <3>1, <4>1, <4>2 DEF LeftStays
    <3> QED
      BY <3>2, <3>3
  <2>5. Releasable'
    BY <2>4 DEF Releasable
  <2> QED
    BY <1>2, <2>3, <2>5 DEF Causes
<1>5. CASE ~PlaysArp(FALSE)
  <2>1. UNCHANGED <<running, held, transpose, sounding>>
    BY <1>1, <1>5 DEF arpVars
  <2>2. noteStates' = IF localOn \/ ~running THEN SetBit(noteStates, n, pressed) ELSE noteStates
    BY <1>1, <1>5 DEF PlaysSynth
  <2>3. localOn \/ ~running
    BY <1>5 DEF PlaysArp
  <2>4. ArpKeysDown'
    <3>1. ~localOn => held = {}
      BY <1>3, <2>3 DEF ArpInv
    <3> QED
      BY <2>1, <3>1 DEF ArpKeysDown, Causes
  <2>5. noteStates \subseteq sounding \cup midiDown \cup Playable \cup left
    BY <2>3 DEF Causes, Releasable, Received
  <2>6. Playable' = Playable
    BY <2>1 DEF Playable
  <2>7. noteStates' \subseteq sounding \cup midiDown' \cup Playable \cup left'
    BY <2>2, <2>3, <2>5 DEF SetBit, LeftStays
  <2>8. Releasable'
    BY <2>1, <2>3, <2>6, <2>7 DEF Releasable, Received
  <2> QED
    BY <1>2, <2>4, <2>8 DEF Causes
<1> QED
  BY <1>4, <1>5

LEMMA CausesEvents ==
  ASSUME KeysInv, Causes, "swallow" \notin Stimuli, Leave,
         \/ \E k \in Keyboard, pressed \in BOOLEAN : Key(k, pressed)
         \/ \E n \in External, pressed \in BOOLEAN : ExternalKey(n, pressed)
         \/ PlayedBack
  PROVE  Causes'
<1>1. ASSUME NEW key, NEW pressed, NEW fromKeyboard, NEW queued,
             Transposing(key, pressed, fromKeyboard)
      PROVE  UNCHANGED <<noteStates, sounding, held, running>> /\ (isShifted \/ isDoubleClicked)
  BY <1>1 DEF Transposing, arpVars
<1>0. LeftStays
  BY LeftFacts
<1>6. ASSUME NEW key, NEW fromKeyboard, Transposing(key, TRUE, fromKeyboard),
             down \subseteq down', midiDown \subseteq midiDown', UNCHANGED localOn
      PROVE  ArpKeysDown' /\ Releasable'
  <2>1. UNCHANGED <<noteStates, sounding, held, running>>
    BY <1>1, <1>6
  <2>2. ArpKeysDown'
    BY <1>6, <2>1 DEF Causes, ArpKeysDown
  <2>3. Received \subseteq Received'
    BY <1>6, <2>1 DEF Received
  <2>4. CASE transpose' = transpose
    <3>1. Playable \subseteq Playable'
      BY <1>6, <2>1, <2>4 DEF Playable
    <3> QED
      BY <1>0, <2>1, <2>2, <2>3, <3>1 DEF Causes, Releasable, LeftStays
  <2>5. CASE transpose' # transpose
    <3>1. left' = (left \cup {k + transpose : k \in down}) \cap noteStates'
      BY <2>5 DEF Leave
    <3>2. Playable \subseteq {k + transpose : k \in down}
      BY DEF Playable
    <3> QED
      BY <2>1, <2>2, <2>3, <3>1, <3>2 DEF Causes, Releasable
  <2> QED
    BY <2>4, <2>5
<1>2. ASSUME NEW key, NEW note, LetGo(key, note), isShifted \/ isDoubleClicked
      PROVE  note \notin noteStates \ sounding /\ key \notin held
  BY <1>2 DEF LetGo
<1>3. ASSUME NEW k \in Keyboard, NEW pressed \in BOOLEAN, Key(k, pressed) PROVE Causes'
  <2>1. /\ KeyEvent(k, pressed, TRUE, <<>>) /\ UNCHANGED midiDown
        /\ down' = SetBit(down, k, pressed) /\ (~pressed => LetGo(k, k + transpose))
    BY <1>3 DEF Key
  <2>2. UNCHANGED <<isShifted, localOn>>
    BY <2>1 DEF KeyEvent
  <2>3. CASE Transposing(k, pressed, TRUE) /\ line' = <<>>
    <3>1. CASE ~pressed
      <4>1. /\ UNCHANGED <<noteStates, sounding, held, running, transpose>>
            /\ down' = down \ {k}
            /\ isShifted \/ isDoubleClicked
        BY <1>1, <2>1, <2>3, <3>1 DEF Transposing, SetBit
      <4>2. k + transpose \notin noteStates \ sounding /\ k \notin held
        BY <1>2, <2>1, <3>1, <4>1
      <4>3. ArpKeysDown'
        BY <2>1, <2>2, <4>1, <4>2 DEF Causes, ArpKeysDown
      <4>4. Received' = Received /\ Playable \subseteq Playable' \cup {k + transpose}
        BY <2>1, <2>2, <4>1 DEF Received, Playable
      <4>5. Releasable'
        BY <1>0, <4>1, <4>2, <4>4 DEF Causes, Releasable, LeftStays
      <4> QED
        BY <2>3, <4>3, <4>5, NoOffs DEF Causes
    <3>2. CASE pressed
      <4>1. down \subseteq down' /\ Transposing(k, TRUE, TRUE)
        BY <2>1, <2>3, <3>2 DEF SetBit
      <4>2. ArpKeysDown' /\ Releasable'
        BY <1>6, <2>1, <2>2, <4>1
      <4> QED
        BY <2>3, <4>2, NoOffs DEF Causes
    <3> QED
      BY <3>1, <3>2
  <2>4. CASE Playing(k, pressed, TRUE, <<>>)
    BY <1>0, <2>1, <2>2, <2>4, KeyPlayingCauses
  <2> QED
    BY <2>1, <2>3, <2>4 DEF KeyEvent
<1>4. ASSUME NEW n \in External, NEW pressed \in BOOLEAN, ExternalKey(n, pressed) PROVE Causes'
  <2>1. /\ KeyEvent(n, pressed, FALSE, <<>>) /\ UNCHANGED down
        /\ midiDown' = SetBit(midiDown, n, pressed) /\ (~pressed => LetGo(n, n))
    BY <1>4 DEF ExternalKey
  <2>2. UNCHANGED <<isShifted, localOn>>
    BY <2>1 DEF KeyEvent
  <2>3. CASE Transposing(n, pressed, FALSE) /\ line' = <<>>
    <3>1. CASE ~pressed
      <4>1. /\ UNCHANGED <<noteStates, sounding, held, running, transpose>>
            /\ midiDown' = midiDown \ {n}
            /\ isShifted \/ isDoubleClicked
        BY <1>1, <2>1, <2>3, <3>1 DEF Transposing, SetBit
      <4>2. n \notin noteStates \ sounding /\ n \notin held
        BY <1>2, <2>1, <3>1, <4>1
      <4>3. ArpKeysDown'
        BY <2>1, <2>2, <4>1, <4>2 DEF Causes, ArpKeysDown
      <4>4. Received \subseteq Received' \cup {n} /\ Playable' = Playable
        BY <2>1, <2>2, <4>1 DEF Received, Playable
      <4>5. Releasable'
        BY <1>0, <4>1, <4>2, <4>4 DEF Causes, Releasable, LeftStays
      <4> QED
        BY <2>3, <4>3, <4>5, NoOffs DEF Causes
    <3>2. CASE pressed
      <4>1. midiDown \subseteq midiDown' /\ Transposing(n, TRUE, FALSE)
        BY <2>1, <2>3, <3>2 DEF SetBit
      <4>2. ArpKeysDown' /\ Releasable'
        BY <1>6, <2>1, <2>2, <4>1
      <4> QED
        BY <2>3, <4>2, NoOffs DEF Causes
    <3> QED
      BY <3>1, <3>2
  <2>4. CASE Playing(n, pressed, FALSE, <<>>)
    BY <1>0, <2>1, <2>2, <2>4, MidiPlayingCauses
  <2> QED
    BY <2>1, <2>3, <2>4 DEF KeyEvent
<1>5. ASSUME PlayedBack PROVE Causes'
  <2> DEFINE m == Head(line)
             rest == Tail(line)
  <2>1. line # <<>> /\ line \in Seq(Told(OnTheWay))
    BY <1>5 DEF PlayedBack, KeysInv, LineInv
  <2>2. m = line[1] /\ m \in Told(OnTheWay) /\ 1 \in DOMAIN line
    BY <2>1
  <2>3. \A i \in DOMAIN rest : i + 1 \in DOMAIN line /\ rest[i] = line[i + 1]
    BY <2>1
  <2>4. /\ KeyEvent(m.note, m.on, FALSE, rest) /\ UNCHANGED down
        /\ midiDown' = SetBit(midiDown, m.note, m.on)
    BY <1>5 DEF PlayedBack
  <2> HIDE DEF m, rest
  <2>5. m.on \in BOOLEAN
    BY <2>2 DEF Told
  <2>6. UNCHANGED <<isShifted, localOn>>
    BY <2>4 DEF KeyEvent
  <2>7. CASE Transposing(m.note, m.on, FALSE) /\ line' = rest
    <3>1. /\ UNCHANGED <<noteStates, sounding, held, running>>
          /\ isShifted \/ isDoubleClicked
      BY <1>1, <2>7
    <3>2. localOn
      BY <2>1, <3>1 DEF KeysInv, LineInv
    <3>3. UNCHANGED transpose
      BY <2>7, <3>2 DEF Transposing
    <3>4. ArpKeysDown'
      BY <2>4, <2>6, <3>1, <3>2 DEF Causes, ArpKeysDown
    <3>5. OffsAreOff'
      BY <2>3, <2>7, <3>1 DEF Causes, OffsAreOff
    <3>6. ~m.on => m.note \notin noteStates \ sounding
      BY <2>2, <3>1 DEF Causes, OffsAreOff
    <3>7. Playable' = Playable
      BY <2>4, <2>6, <3>1, <3>3 DEF Playable
    <3>8. noteStates \subseteq sounding \cup midiDown' \cup Playable \cup left
      <4>1. noteStates \subseteq sounding \cup midiDown \cup Playable \cup left
        BY <3>2 DEF Causes, Releasable, Received
      <4> QED
        BY <2>4, <3>6, <4>1 DEF SetBit
    <3>9. Releasable'
      BY <1>0, <2>6, <3>1, <3>2, <3>7, <3>8 DEF Releasable, Received, LeftStays
    <3> QED
      BY <3>4, <3>5, <3>9 DEF Causes
  <2>8. CASE Playing(m.note, m.on, FALSE, rest)
    BY <1>0, <2>4, <2>5, <2>6, <2>8, MidiPlayingCauses
  <2> QED
    BY <2>4, <2>7, <2>8 DEF KeyEvent
<1> QED
  BY <1>3, <1>4, <1>5

LEMMA CausesPanel ==
  ASSUME KeysInv, Causes, "swallow" \notin Stimuli, Leave \/ UNCHANGED vars,
         \/ \E pressed \in BOOLEAN : FromTape(pressed)
         \/ DoubleClickTimeout \/ LocalButton
         \/ \E on \in BOOLEAN : LocalControl(on)
         \/ AllNotesOff \/ UNCHANGED vars
  PROVE  Causes'
<1>1. UNCHANGED <<running, held, transpose, sounding, down, midiDown, line>>
  BY DEF FromTape, DoubleClickTimeout, LocalButton, LocalControl, AllNotesOff, vars, arpVars, keyVars, outVars
<1>0. LeftStays
  BY LeftFacts
<1>2. CASE DoubleClickTimeout \/ UNCHANGED vars
  <2>1. UNCHANGED <<isShifted, isDoubleClicked, localOn, noteStates>>
    BY <1>2 DEF DoubleClickTimeout, vars, panelVars
  <2>2. Playable' = Playable /\ Received' = Received
    BY <1>1, <2>1 DEF Playable, Received
  <2>3. ArpKeysDown' /\ Releasable'
    BY <1>0, <1>1, <2>1, <2>2 DEF Causes, ArpKeysDown, Releasable, LeftStays
  <2> QED
    BY <1>1, <2>1, <2>3 DEF Causes, OffsAreOff
<1>3. CASE (\E pressed \in BOOLEAN : FromTape(pressed)) \/ AllNotesOff
  <2>1. localOn' = localOn /\ noteStates' \subseteq noteStates /\ line' = <<>>
    BY <1>1, <1>3 DEF FromTape, AllNotesOff, panelVars, Quiet
  <2>2. Playable' = Playable /\ Received' = Received
    BY <1>1, <2>1 DEF Playable, Received
  <2>3. ArpKeysDown' /\ Releasable'
    BY <1>0, <1>1, <2>1, <2>2 DEF Causes, ArpKeysDown, Releasable, LeftStays
  <2> QED
    BY <2>1, <2>3, NoOffs DEF Causes
<1>4. ASSUME NEW on \in BOOLEAN, LocalControl(on) PROVE Causes'
  <2>1. noteStates \subseteq sounding /\ held = {} /\ noteStates' = noteStates /\ line' = <<>>
    BY <1>1, <1>4 DEF LocalControl, Pending, Quiet
  <2>2. ArpKeysDown' /\ Releasable'
    BY <1>0, <1>1, <2>1, SwallowCauses
  <2> QED
    BY <2>1, <2>2, NoOffs DEF Causes
<1>5. CASE LocalButton
  <2>1. line' = <<>> /\ localOn \in BOOLEAN
    BY <1>1, <1>5 DEF LocalButton, Quiet, KeysInv, PanelTyped
  <2>2. CASE prevMiscButton
    <3>1. held = {} /\ localOn' = ~localOn /\ noteStates' = IF localOn' THEN noteStates ELSE {}
      BY <1>5, <2>2 DEF LocalButton
    <3>2. ArpKeysDown'
      BY <1>1, <3>1 DEF ArpKeysDown
    <3>3. CASE localOn
      <4>1. noteStates' = {}
        BY <2>1, <3>1, <3>3
      <4> QED
        BY <2>1, <3>2, <4>1, NoOffs DEF Causes, Releasable
    <3>4. CASE ~localOn
      <4>1. noteStates' = noteStates /\ localOn'
        BY <3>1, <3>4
      <4>2. noteStates \subseteq sounding \cup midiDown \cup left /\ Received' = midiDown
        BY <1>1, <3>4, <4>1 DEF Causes, Releasable, Received, Playable
      <4>3. Releasable'
        BY <1>0, <1>1, <4>1, <4>2 DEF Releasable, LeftStays
      <4> QED
        BY <2>1, <3>2, <4>3, NoOffs DEF Causes
    <3> QED
      BY <3>3, <3>4
  <2>3. CASE ~prevMiscButton
    <3>1. UNCHANGED <<localOn, noteStates>>
      BY <1>5, <2>3 DEF LocalButton
    <3>2. Playable' = Playable /\ Received' = Received
      BY <1>1, <3>1 DEF Playable, Received
    <3>3. ArpKeysDown' /\ Releasable'
      BY <1>0, <1>1, <3>1, <3>2 DEF Causes, ArpKeysDown, Releasable, LeftStays
    <3> QED
      BY <2>1, <3>3, NoOffs DEF Causes
  <2> QED
    BY <2>2, <2>3
<1> QED
  BY <1>2, <1>3, <1>4, <1>5

LEMMA CausesArp ==
  ASSUME KeysInv, Causes, Leave,
         \/ \E on \in BOOLEAN : ArpPattern(on) \/ ArpLatch(on)
         \/ ArpBeat
  PROVE  Causes'
<1>1. ArpInv /\ sounding \subseteq last /\ UNCHANGED <<localOn, down, midiDown, isShifted, isDoubleClicked>>
  BY DEF KeysInv, ArpInv, Arpeggiator!TypeOK, ArpPattern, ArpLatch, ArpBeat, panelVars, keyVars
<1>0. LeftStays
  BY LeftFacts
<1>2. ASSUME NEW on \in BOOLEAN, ArpPattern(on) PROVE Causes'
  <2>1. noteStates' = {} /\ held' = {}
    BY <1>2 DEF ArpPattern, Arpeggiator!SetPattern
  <2> QED
    BY <2>1 DEF Causes, ArpKeysDown, Releasable, OffsAreOff
<1>3. ASSUME NEW offs \in SUBSET last, NEW ons, Send(<<>>, offs, ons),
             noteStates' \ sounding' \subseteq noteStates \ sounding,
             (noteStates' \ sounding') \cap offs = {},
             UNCHANGED <<running, held, transpose>>
      PROVE  Causes'
  <2>1. ArpKeysDown'
    BY <1>1, <1>3 DEF Causes, ArpKeysDown
  <2>2. Playable' = Playable /\ Received' = Received
    BY <1>1, <1>3 DEF Playable, Received
  <2>3. Releasable'
    BY <1>0, <1>3, <2>2 DEF Causes, Releasable, LeftStays
  <2>4. \A i \in DOMAIN line' : ~line'[i].on => line'[i].note \in offs
    BY <1>3, SendOffs
  <2>5. OffsAreOff'
    BY <1>3, <2>4 DEF OffsAreOff
  <2> QED
    BY <2>1, <2>3, <2>5 DEF Causes
<1>4. ASSUME NEW on \in BOOLEAN, ArpLatch(on) PROVE Causes'
  <2> DEFINE ends == IF latch /\ ~on /\ held = {} THEN last ELSE {}
             offs == IF localOn THEN ends ELSE {}
  <2>1. Arpeggiator!SetLatch(on) /\ noteStates' = noteStates \ ends /\ Send(<<>>, offs, {})
    BY <1>4 DEF ArpLatch
  <2>2. sounding' = sounding \ ends /\ UNCHANGED <<running, held, transpose>>
    BY <2>1 DEF Arpeggiator!SetLatch, Arpeggiator!Finished
  <2>3. offs \in SUBSET ends /\ ends \in SUBSET last
    OBVIOUS
  <2> HIDE DEF ends, offs
  <2> QED
    BY <1>1, <1>3, <2>1, <2>2, <2>3
<1>5. ASSUME ArpBeat PROVE Causes'
  <2> DEFINE ons == IF localOn THEN last' ELSE {}
  <2>1. Arpeggiator!Beat /\ noteStates' = (noteStates \ last) \cup last' /\ Send(<<>>, ArpOff, ons)
    BY <1>5 DEF ArpBeat
  <2>2. sounding' = last' /\ UNCHANGED <<running, held, transpose>>
    BY <1>1, <2>1, BeatArp DEF Arpeggiator!Beat, Arpeggiator!noteVars
  <2>3. ArpOff \in SUBSET last
    BY DEF ArpOff
  <2> HIDE DEF ons
  <2> QED
    BY <1>1, <1>3, <2>1, <2>2, <2>3
<1> QED
  BY <1>2, <1>4, <1>5

LEMMA CausesKept ==
  ASSUME KeysInv, Causes, "swallow" \notin Stimuli, [Next]_vars
  PROVE  Causes'
<1>1. ArpLatch(~latch) => \E on \in BOOLEAN : ArpLatch(on)
  BY DEF KeysInv, ArpInv, Arpeggiator!TypeOK
<1> QED
  BY <1>1, CausesEvents, CausesPanel, CausesArp DEF Next, KeysOff, KeysStay

LEMMA LeftIsOn == Spec => [](left \subseteq noteStates)
<1>1. Init => left \subseteq noteStates
  BY DEF Init
<1>2. left \subseteq noteStates /\ [Next]_vars => (left \subseteq noteStates)'
  BY DEF Next, Leave, vars
<1> QED
  BY <1>1, <1>2, PTL DEF Spec

\* Whatever is locked, switched, transposed or looped, the arpeggiator is not
\* entered its own notes.
THEOREM KeysNotFedBack == Spec => [](TypeOK /\ NotFedBack)
<1>1. KeysInv /\ left \subseteq noteStates => TypeOK /\ NotFedBack
  <2> SUFFICES ASSUME KeysInv, left \subseteq noteStates PROVE TypeOK
    BY DEF KeysInv, ArpInv
  <2>1. OnTheWay \subseteq Int
    BY PitchFacts, WayFacts
  <2>2. line \in Seq(Message)
    <3>1. Told(OnTheWay) \subseteq Message
      BY <2>1 DEF Told, Message
    <3> QED
      BY <3>1 DEF KeysInv, LineInv
  <2> QED
    BY <2>2 DEF TypeOK, KeysInv, ArpInv, PanelTyped, BitsTyped, Pitches
<1>2. KeysInv /\ [Next]_vars => KeysInv'
  BY KeysKept DEF KeysStep
<1> QED
  BY <1>1, <1>2, KeysInit, LeftIsOn, PTL DEF Spec

\* Unless a key that plays is swallowed, every key bit of the assigner is there
\* for a key that is down, for the arpeggiator's note or since another key
\* transposed while its key was down, and the arpeggiator holds what is down.
THEOREM KeysHaveCauses ==
  ASSUME "swallow" \notin Stimuli
  PROVE  Spec => [](BitsHaveCauses /\ ArpKeysDown)
<1>1. Causes => BitsHaveCauses /\ ArpKeysDown
  BY DEF Causes, Releasable, Received, Playable, BitsHaveCauses
<1>2. KeysInv /\ [Next]_vars => KeysInv'
  BY KeysKept DEF KeysStep
<1>3. KeysInv /\ Causes /\ [Next]_vars => Causes'
  BY CausesKept
<1> QED
  BY <1>1, <1>2, <1>3, KeysInit, CausesInit, PTL DEF Spec


-----------------------------------------------------------------------------
(* Wheel and pedal *)

LEMMA AllSteps ==
  ASSUME [AllNext]_allVars
  PROVE  [KeysStep]_vars
<1>1. ASSUME NEW on \in BOOLEAN, MovePedal(on) PROVE ArpLatch(on) \/ UNCHANGED vars
  BY <1>1 DEF MovePedal
<1>2. ASSUME UpdateWheel \/ ControlPlayedBack \/ RetuneButton \/ UnisonButton
             \/ (\E x \in Mods : MoveWheel(x)) \/ (\E u \in BOOLEAN : LoadPreset(u))
             \/ UNCHANGED allVars
      PROVE  UNCHANGED vars
  BY <1>2 DEF MoveWheel, UpdateWheel, ControlPlayedBack, RetuneButton, UnisonButton, LoadPreset, allVars
<1>3. ASSUME KeysOnly \/ EndHold \/ ChangeLocal, Leave PROVE Next
  BY <1>3 DEF KeysOnly, EndHold, ChangeLocal, Next
<1> QED
  BY <1>1, <1>2, <1>3 DEF AllNext, KeysStep

LEMMA AllKeys == AllSpec => []KeysInv
<1>1. AllInit => KeysInv
  BY KeysInit DEF AllInit
<1>2. KeysInv /\ [AllNext]_allVars => KeysInv'
  BY AllSteps, KeysKept
<1> QED
  BY <1>1, <1>2, PTL DEF AllSpec

\* A latch set to what it is changes nothing.
LEMMA LatchAgain ==
  ASSUME KeysInv, left \subseteq noteStates, ArpLatch(latch), Leave
  PROVE  UNCHANGED vars
<1>1. /\ Quiet /\ Arpeggiator!SetLatch(latch) /\ noteStates' = noteStates
      /\ Send(<<>>, {}, {}) /\ UNCHANGED <<panelVars, localOn, keyVars>>
  BY DEF ArpLatch
<1>2. UNCHANGED <<running, latch, held, latched, transpose, last, sounding>>
  BY <1>1 DEF Arpeggiator!SetLatch, KeysInv, ArpInv
<1>3. line' = <<>> /\ loop' = loop
  BY <1>1, WayFacts, SendNothing DEF Send
<1> QED
  BY <1>1, <1>2, <1>3 DEF vars, arpVars, outVars, Quiet, Leave

\* Wheel, pedal and what switches them take the keys where Keys lets them go:
\* each step of the composition is one of Keys, or leaves the keys alone.
THEOREM PerformanceImplementsKeys == AllSpec => Spec
<1>1. ASSUME KeysInv, left \subseteq noteStates, [AllNext]_allVars PROVE [Next]_vars
  <2>1. ASSUME NEW on \in BOOLEAN, ArpLatch(on), Leave PROVE [Next]_vars
    <3>1. on = latch \/ on = ~latch
      BY <1>1 DEF KeysInv, ArpInv, Arpeggiator!TypeOK
    <3>2. CASE on = latch
      BY <1>1, <2>1, <3>2, LatchAgain
    <3>3. CASE on = ~latch
      BY <2>1, <3>3 DEF Next, KeysStay
    <3> QED
      BY <3>1, <3>2, <3>3
  <2> QED
    BY <1>1, <2>1, AllSteps DEF KeysStep
<1>2. AllInit => Init
  BY DEF AllInit
<1>3. AllSpec => [](left \subseteq noteStates)
  <2>1. AllInit => left \subseteq noteStates
    BY DEF AllInit, Init
  <2>2. left \subseteq noteStates /\ [AllNext]_allVars => (left \subseteq noteStates)'
    BY DEF AllNext, Leave, allVars, vars
  <2> QED
    BY <2>1, <2>2, PTL DEF AllSpec
<1> QED
  BY <1>1, <1>2, <1>3, AllKeys, PTL DEF AllSpec, Spec

\* With MIDI out connected to MIDI in, the arpeggiator is not entered its own
\* notes, whatever hands and feet do.
THEOREM PerformanceNotFedBack == AllSpec => []NotFedBack
<1>1. Spec => []NotFedBack
  BY KeysNotFedBack, PTL
<1> QED
  BY <1>1, PerformanceImplementsKeys, PTL

\* No key bit of the assigner is left without a key that is down or a note of
\* the arpeggiator, unless a key is swallowed, or was down while another one
\* transposed: that note is left on.
THEOREM PerformanceBitsHaveCauses ==
  ASSUME "swallow" \notin Stimuli
  PROVE  AllSpec => []BitsHaveCauses
<1>1. Spec => []BitsHaveCauses
  BY KeysHaveCauses, PTL
<1> QED
  BY <1>1, PerformanceImplementsKeys, PTL

\* What the arpeggiator holds is down, unless a key is swallowed.
THEOREM PerformanceArpKeysDown ==
  ASSUME "swallow" \notin Stimuli
  PROVE  AllSpec => []ArpKeysDown
<1>1. Spec => []ArpKeysDown
  BY KeysHaveCauses, PTL
<1> QED
  BY <1>1, PerformanceImplementsKeys, PTL

\* The arpeggiator is switched by its buttons only, the connection never.
LEMMA Connected ==
  ASSUME [KeysStep]_vars
  PROVE  loop' = loop
<1>1. ASSUME NEW offs, NEW ons, NEW queued, Send(queued, offs, ons) PROVE loop' = loop
  BY <1>1 DEF Send
<1>2. ASSUME NEW key, NEW pressed, NEW fromKeyboard, NEW queued, KeyEvent(key, pressed, fromKeyboard, queued)
      PROVE  loop' = loop
  BY <1>1, <1>2 DEF KeyEvent, Transposing, Playing
<1>3. ASSUME NEW on, ArpPattern(on) \/ ArpLatch(on) PROVE loop' = loop
  BY <1>1, <1>3 DEF ArpPattern, ArpLatch
<1>4. ASSUME ArpBeat PROVE loop' = loop
  BY <1>1, <1>4 DEF ArpBeat
<1>5. ASSUME NEW k, NEW pressed, Key(k, pressed) \/ ExternalKey(k, pressed) PROVE loop' = loop
  BY <1>2, <1>5 DEF Key, ExternalKey
<1>6. ASSUME PlayedBack PROVE loop' = loop
  BY <1>2, <1>6 DEF PlayedBack
<1>7. ASSUME NEW pressed, FromTape(pressed) \/ LocalControl(pressed) PROVE loop' = loop
  BY <1>7 DEF FromTape, LocalControl, outVars
<1>8. ASSUME DoubleClickTimeout \/ LocalButton \/ AllNotesOff \/ UNCHANGED vars PROVE loop' = loop
  BY <1>8 DEF DoubleClickTimeout, LocalButton, AllNotesOff, vars, outVars
<1> QED
  BY <1>3, <1>4, <1>5, <1>6, <1>7, <1>8 DEF KeysStep, Next, KeysOff, KeysStay

LEMMA Switched ==
  ASSUME KeysStay \/ LocalButton \/ (\E on \in BOOLEAN : ArpLatch(on)) \/ UNCHANGED vars
  PROVE  running' = running
<1>1. ASSUME NEW key, NEW pressed, NEW fromKeyboard, NEW queued, KeyEvent(key, pressed, fromKeyboard, queued)
      PROVE  running' = running
  BY <1>1 DEF KeyEvent, Transposing, Playing, arpVars, Arpeggiator!Press, Arpeggiator!Release
<1>2. ASSUME NEW on, ArpLatch(on) PROVE running' = running
  BY <1>2 DEF ArpLatch, Arpeggiator!SetLatch
<1>3. ASSUME ArpBeat PROVE running' = running
  BY <1>3 DEF ArpBeat, Arpeggiator!Beat
<1>4. ASSUME NEW k, NEW pressed, Key(k, pressed) \/ ExternalKey(k, pressed) PROVE running' = running
  BY <1>1, <1>4 DEF Key, ExternalKey
<1>5. ASSUME PlayedBack PROVE running' = running
  BY <1>1, <1>5 DEF PlayedBack
<1>6. ASSUME NEW pressed, FromTape(pressed) \/ LocalControl(pressed) PROVE running' = running
  BY <1>6 DEF FromTape, LocalControl, arpVars
<1>7. ASSUME DoubleClickTimeout \/ LocalButton \/ UNCHANGED vars PROVE running' = running
  BY <1>7 DEF DoubleClickTimeout, LocalButton, vars, arpVars
<1> QED
  BY <1>2, <1>3, <1>4, <1>5, <1>6, <1>7 DEF KeysStay

\* One message at most is on its way back.
ControlTyped ==
  /\ {retune, unison, pedal, hold, strayed} \subseteq BOOLEAN
  /\ {wheel, modwheel, lastMod} \subseteq Mods
  /\ controls = <<>> \/ \E m \in Control : controls = <<m>>

On(q, c) == q # <<>> /\ Head(q).control = c

\* The hold is the pedal's, or will be when its message is back. Neither goes
\* with unison or the arpeggiator. Presets come with the pedal up.
HoldInv ==
  loop /\ "preset" \notin Stimuli =>
    /\ hold => ~running /\ ~unison
    /\ ~On(controls, "hold") /\ hold => pedal
    /\ On(controls, "hold") => Head(controls).value = pedal /\ ~unison /\ ~running

\* The wheel's amount is its place or none, or will be when its message is back.
WheelInv ==
  loop /\ ~strayed =>
    /\ ~On(controls, "mod") => modwheel \in {0, wheel}
    /\ On(controls, "mod") => Head(controls).value = wheel /\ ~retune

ControlInv == ControlTyped /\ HoldInv /\ WheelInv

LEMMA OnFacts ==
  ASSUME NEW q
  PROVE  /\ q = <<>> => ~On(q, "mod") /\ ~On(q, "hold")
         /\ \A c, v : q = <<[control |-> c, value |-> v]>> =>
               Head(q).value = v /\ \A d : On(q, d) <=> c = d
<1>1. ASSUME NEW c, NEW v, q = <<[control |-> c, value |-> v]>>
      PROVE  Head(q).value = v /\ \A d : On(q, d) <=> c = d
  <2> DEFINE m == [control |-> c, value |-> v]
  <2>1. m.control = c /\ m.value = v
    OBVIOUS
  <2> HIDE DEF m
  <2>2. q = <<m>>
    BY <1>1 DEF m
  <2>3. Head(q) = m /\ q # <<>>
    BY <2>2
  <2> QED
    BY <2>1, <2>3 DEF On
<1> QED
  BY <1>1 DEF On

LEMMA ControlInit == AllInit => ControlInv
BY OnFacts, ModsAssumption DEF AllInit, ControlInv, ControlTyped, HoldInv, WheelInv

LEMMA SendControlFacts ==
  ASSUME NEW c, NEW v, SendControl([control |-> c, value |-> v])
  PROVE  /\ controls' = IF loop THEN <<[control |-> c, value |-> v]>> ELSE <<>>
         /\ loop => Head(controls').value = v /\ \A d : On(controls', d) <=> c = d
BY OnFacts DEF SendControl

\* Nothing of wheel and pedal moves, the arpeggiator neither.
LEMMA ControlStays ==
  ASSUME ControlInv, UNCHANGED <<loop, running, controlVars>>
  PROVE  ControlInv'
BY DEF ControlInv, ControlTyped, HoldInv, WheelInv, controlVars

\* What ends the hold leaves the wheel alone.
LEMMA ControlEnds ==
  ASSUME ControlInv, loop' = loop, EndHold
  PROVE  ControlInv'
<1>1. /\ controls = <<>> /\ hold' = FALSE
      /\ UNCHANGED <<retune, unison, wheel, pedal, modwheel, lastMod, controls, strayed>>
  BY DEF EndHold
<1>2. ~On(controls', "hold")
  BY <1>1, OnFacts
<1> QED
  BY <1>1, <1>2 DEF ControlInv, ControlTyped, HoldInv, WheelInv

LEMMA ControlWheel ==
  ASSUME ControlInv, UNCHANGED <<loop, running>>,
         ChangeLocal \/ UpdateWheel \/ \E x \in Mods : MoveWheel(x)
  PROVE  ControlInv'
<1>1. 0 \in Mods
  BY ModsAssumption
<1>2. CASE ChangeLocal
  <2>1. /\ controls = <<>> /\ modwheel' \in {0, modwheel}
        /\ UNCHANGED <<retune, unison, wheel, pedal, hold, lastMod, controls, strayed>>
    BY <1>2 DEF ChangeLocal
  <2> QED
    BY <1>1, <2>1, OnFacts DEF ControlInv, ControlTyped, HoldInv, WheelInv
<1>3. CASE UpdateWheel
  <2>1. /\ controls = <<>> /\ modwheel' \in {wheel, modwheel}
        /\ UNCHANGED <<retune, unison, wheel, pedal, hold, lastMod, controls, strayed>>
    BY <1>3 DEF UpdateWheel, ModAmount, Rest
  <2> QED
    BY <2>1, OnFacts DEF ControlInv, ControlTyped, HoldInv, WheelInv
<1>4. ASSUME NEW x \in Mods, MoveWheel(x) PROVE ControlInv'
  <2> DEFINE news == x # lastMod /\ ~retune
             m == [control |-> "mod", value |-> x]
  <2>1. /\ controls = <<>> /\ wheel' = x /\ modwheel' \in {x, modwheel}
        /\ lastMod' \in {x, lastMod} /\ strayed' = ~news
        /\ UNCHANGED <<retune, unison, pedal, hold>>
    BY <1>4 DEF MoveWheel, ModAmount, Rest
  <2>2. CASE ~news \/ ~loop
    <3>1. controls' = <<>>
      BY <1>4, <2>2, SendControlFacts DEF MoveWheel
    <3>2. strayed' \/ ~loop'
      BY <2>1, <2>2
    <3> QED
      BY <2>1, <3>1, <3>2, OnFacts DEF ControlInv, ControlTyped, HoldInv, WheelInv
  <2>3. CASE news /\ loop
    <3>1. /\ controls' = <<m>> /\ Head(controls').value = x
          /\ On(controls', "mod") /\ ~On(controls', "hold")
      BY <1>4, <2>3, SendControlFacts DEF MoveWheel
    <3>2. m \in Control
      BY DEF Control
    <3>3. ~On(controls, "hold")
      BY <2>1, OnFacts
    <3>4. ControlTyped'
      <4> HIDE DEF m
      <4> QED
        BY <2>1, <2>3, <3>1, <3>2 DEF ControlInv, ControlTyped
    <3>5. HoldInv'
      BY <2>1, <3>1, <3>3 DEF ControlInv, HoldInv
    <3>6. WheelInv'
      BY <2>1, <2>3, <3>1 DEF WheelInv
    <3> QED
      BY <3>4, <3>5, <3>6 DEF ControlInv
  <2> QED
    BY <2>2, <2>3
<1> QED
  BY <1>2, <1>3, <1>4

LEMMA ControlPedal ==
  ASSUME ControlInv, UNCHANGED <<loop, running>>, NEW on \in BOOLEAN, MovePedal(on)
  PROVE  ControlInv'
<1>1. /\ controls = <<>> /\ pedal' = on
      /\ UNCHANGED <<retune, unison, wheel, modwheel, lastMod, strayed>>
      /\ ~On(controls, "mod") /\ ~On(controls, "hold")
  BY OnFacts DEF MovePedal, Rest
<1>2. CASE running \/ unison
  <2>1. controls' = <<>> /\ hold' \in BOOLEAN /\ (hold' => hold)
    BY <1>1, <1>2 DEF MovePedal, Holds, ControlInv, ControlTyped
  <2>2. loop /\ "preset" \notin Stimuli => ~hold
    BY <1>2 DEF ControlInv, HoldInv
  <2> QED
    BY <1>1, <1>2, <2>1, <2>2, OnFacts DEF ControlInv, ControlTyped, HoldInv, WheelInv
<1>3. CASE ~running /\ ~unison
  <2> DEFINE m == [control |-> "hold", value |-> on]
  <2>1. hold' \in {on, hold} /\ SendControl(m)
    BY <1>3 DEF MovePedal, Holds
  <2>2. /\ controls' = IF loop THEN <<m>> ELSE <<>>
        /\ loop => Head(controls').value = on /\ On(controls', "hold") /\ ~On(controls', "mod")
    BY <2>1, SendControlFacts
  <2>3. m \in Control
    BY DEF Control
  <2>4. ControlTyped'
    <3> HIDE DEF m
    <3> QED
      BY <1>1, <2>1, <2>2, <2>3 DEF ControlInv, ControlTyped
  <2>5. HoldInv'
    BY <1>1, <1>3, <2>1, <2>2 DEF ControlInv, HoldInv
  <2>6. WheelInv'
    BY <1>1, <2>1, <2>2 DEF ControlInv, WheelInv
  <2> QED
    BY <2>4, <2>5, <2>6 DEF ControlInv
<1> QED
  BY <1>2, <1>3

LEMMA ControlBack ==
  ASSUME ControlInv, UNCHANGED <<loop, running>>, ControlPlayedBack
  PROVE  ControlInv'
<1>1. PICK m \in Control : controls = <<m>>
  BY DEF ControlPlayedBack, ControlInv, ControlTyped
<1>2. \/ m.control = "mod" /\ m.value \in Mods
      \/ m.control = "hold" /\ m.value \in BOOLEAN
  BY DEF Control
<1>3. Head(controls) = m /\ controls' = <<>>
  BY <1>1 DEF ControlPlayedBack
<1>4. UNCHANGED <<retune, unison, wheel, pedal, lastMod, strayed>>
  BY DEF ControlPlayedBack
<1>5. ~On(controls', "mod") /\ ~On(controls', "hold")
  BY <1>3, OnFacts
<1>6. CASE m.control = "mod"
  <2>1. On(controls, "mod") /\ ~On(controls, "hold")
    BY <1>1, <1>3, <1>6 DEF On
  <2>2. hold' = hold /\ modwheel' = IF retune THEN modwheel ELSE m.value
    BY <1>3, <1>6 DEF ControlPlayedBack, ModAmount
  <2> QED
    BY <1>2, <1>3, <1>4, <1>5, <1>6, <2>1, <2>2 DEF ControlInv, ControlTyped, HoldInv, WheelInv
<1>7. CASE m.control = "hold"
  <2>1. On(controls, "hold") /\ ~On(controls, "mod")
    BY <1>1, <1>3, <1>7 DEF On
  <2>2. modwheel' = modwheel /\ hold' = IF unison THEN hold ELSE m.value
    <3>1. unison \in BOOLEAN /\ hold \in BOOLEAN
      BY DEF ControlInv, ControlTyped
    <3> QED
      BY <1>3, <1>7, <3>1 DEF ControlPlayedBack, Holds
  <2> QED
    BY <1>2, <1>3, <1>4, <1>5, <1>7, <2>1, <2>2 DEF ControlInv, ControlTyped, HoldInv, WheelInv
<1> QED
  BY <1>2, <1>6, <1>7

LEMMA ControlButtons ==
  ASSUME ControlInv, UNCHANGED <<loop, running>>,
         RetuneButton \/ UnisonButton \/ \E u \in BOOLEAN : LoadPreset(u)
  PROVE  ControlInv'
<1>1. /\ controls = <<>> /\ UNCHANGED <<wheel, pedal, modwheel, lastMod, controls, strayed>>
      /\ hold' = hold \/ hold' = (hold /\ unison)
      /\ unison' \in BOOLEAN /\ (retune' = retune \/ retune' = ~retune)
  BY DEF RetuneButton, UnisonButton, LoadPreset, Rest, ControlInv, ControlTyped
<1>2. ~On(controls, "mod") /\ ~On(controls, "hold")
  BY <1>1, OnFacts
<1>3. {retune', unison', hold'} \subseteq BOOLEAN /\ (hold' => hold)
  <2>1. retune \in BOOLEAN /\ unison \in BOOLEAN /\ hold \in BOOLEAN
    BY DEF ControlInv, ControlTyped
  <2>2. (~retune) \in BOOLEAN /\ (hold /\ unison) \in BOOLEAN
    OBVIOUS
  <2>3. retune' \in BOOLEAN
    BY <1>1, <2>1, <2>2, Zenon
  <2>4. hold' \in BOOLEAN
    BY <1>1, <2>1, <2>2, Zenon
  <2>5. hold' => hold
    BY <1>1
  <2> QED
    BY <1>1, <2>3, <2>4, <2>5
<1>4. loop /\ hold /\ "preset" \notin Stimuli => pedal /\ ~unison
  BY <1>2 DEF ControlInv, HoldInv
<1>5. loop /\ hold' /\ "preset" \notin Stimuli => ~unison'
  <2>1. CASE RetuneButton
    BY <1>3, <1>4, <2>1 DEF RetuneButton
  <2>2. CASE UnisonButton
    BY <1>3, <1>4, <2>2 DEF UnisonButton, ControlInv, ControlTyped
  <2>3. ASSUME NEW u \in BOOLEAN, LoadPreset(u) PROVE ~(loop /\ hold' /\ "preset" \notin Stimuli)
    BY <1>3, <1>4, <2>3 DEF LoadPreset
  <2> QED
    BY <2>1, <2>2, <2>3
<1> QED
  BY <1>1, <1>2, <1>3, <1>4, <1>5 DEF ControlInv, ControlTyped, HoldInv, WheelInv

LEMMA ControlKept ==
  ASSUME ControlInv, [AllNext]_allVars
  PROVE  ControlInv'
<1>1. loop' = loop
  BY AllSteps, Connected
<1>2. EndHold \/ running' = running
  <2>1. ASSUME NEW on \in BOOLEAN, MovePedal(on) PROVE ArpLatch(on) \/ UNCHANGED vars
    BY <2>1 DEF MovePedal
  <2>2. ASSUME KeysOnly \/ ChangeLocal PROVE KeysStay \/ LocalButton
    BY <2>2 DEF KeysOnly, ChangeLocal
  <2>3. ASSUME UpdateWheel \/ ControlPlayedBack \/ RetuneButton \/ UnisonButton
               \/ (\E x \in Mods : MoveWheel(x)) \/ (\E u \in BOOLEAN : LoadPreset(u))
               \/ UNCHANGED allVars
        PROVE  UNCHANGED vars
    BY <2>3 DEF MoveWheel, UpdateWheel, ControlPlayedBack, RetuneButton, UnisonButton, LoadPreset, allVars
  <2> QED
    BY <2>1, <2>2, <2>3, Switched DEF AllNext
<1>3. CASE EndHold
  BY <1>1, <1>3, ControlEnds
<1>4. CASE running' = running
  <2>1. CASE KeysOnly \/ UNCHANGED allVars
    BY <1>1, <1>4, <2>1, ControlStays DEF KeysOnly, allVars
  <2>2. CASE ChangeLocal \/ UpdateWheel \/ \E x \in Mods : MoveWheel(x)
    BY <1>1, <1>4, <2>2, ControlWheel
  <2>3. CASE \E on \in BOOLEAN : MovePedal(on)
    BY <1>1, <1>4, <2>3, ControlPedal
  <2>4. CASE ControlPlayedBack
    BY <1>1, <1>4, <2>4, ControlBack
  <2>5. CASE RetuneButton \/ UnisonButton \/ \E u \in BOOLEAN : LoadPreset(u)
    BY <1>1, <1>4, <2>5, ControlButtons
  <2> QED
    BY <1>1, <2>1, <2>2, <2>3, <2>4, <2>5, ControlEnds DEF AllNext
<1> QED
  BY <1>2, <1>3, <1>4

LEMMA AllControls == AllSpec => []ControlInv
<1>1. ControlInv /\ [AllNext]_allVars => ControlInv'
  BY ControlKept
<1> QED
  BY <1>1, ControlInit, PTL DEF AllSpec

\* The wheel's and the pedal's variables keep their types, and never does more
\* than one message wait to be played back.
THEOREM PerformanceTypeOK == AllSpec => []AllTypeOK
<1>1. ControlInv => /\ {retune, unison, pedal, hold, strayed} \subseteq BOOLEAN
                    /\ {wheel, modwheel, lastMod} \subseteq Mods
                    /\ controls \in Seq(Control) /\ Len(controls) <= 1
  <2>1. ASSUME NEW m \in Control, controls = <<m>> PROVE controls \in Seq(Control) /\ Len(controls) <= 1
    BY <2>1
  <2>2. controls = <<>> => controls \in Seq(Control) /\ Len(controls) <= 1
    OBVIOUS
  <2> QED
    BY <2>1, <2>2 DEF ControlInv, ControlTyped
<1>2. ControlInv /\ TypeOK => AllTypeOK
  BY <1>1 DEF AllTypeOK
<1>3. Spec => []TypeOK
  BY KeysNotFedBack, PTL
<1> QED
  BY <1>2, <1>3, AllControls, PerformanceImplementsKeys, PTL

\* Unless a preset comes while the pedal is down, no hold is left without the
\* pedal: whatever is switched between its two moves, its release is heard.
THEOREM PerformanceHoldHasCause ==
  ASSUME "preset" \notin Stimuli
  PROVE  AllSpec => []HoldHasCause
<1>1. ControlInv => HoldHasCause
  BY OnFacts DEF ControlInv, HoldInv, HoldHasCause, Rest
<1> QED
  BY <1>1, AllControls, PTL

\* The wheel acts once, though in local on each of its moves comes twice.
THEOREM PerformanceWheelNotDoubled == AllSpec => []WheelNotDoubled
<1>1. ControlInv => WheelNotDoubled
  BY OnFacts DEF ControlInv, WheelInv, WheelNotDoubled, Rest
<1> QED
  BY <1>1, AllControls, PTL

-----------------------------------------------------------------------------
(* Pots *)

LEMMA PotsFacts ==
  /\ Pots \subseteq Nat /\ Params \subseteq Pots /\ None \notin Pots
  /\ Check \in Nat /\ Follow = Check + 1 /\ Apply = Follow + 1
  /\ Positions \subseteq Nat
  /\ \A p \in Pots : p + 1 \in 1 .. Check
  /\ Check \notin Pots /\ Follow \notin Pots /\ Apply \notin Pots
BY PotsAssumption DEF Pots, Params, None, Check, Follow, Apply

\* What the interrupt does to the pots keeps their types.
LEMMA SetNoActivePotTypes ==
  ASSUME PotsTypeOK, SetNoActivePot, mode' \in Modes, follows' \in [Params -> BOOLEAN],
         value' \in [Pots -> Positions]
  PROVE  PotsTypeOK'
BY PotsFacts DEF PotsTypeOK, SetNoActivePot, None

\* Each variable of the pots and of what follows them keeps its type, with any number of
\* pots, whatever moves and is selected, with the interrupt anywhere in the loop.
THEOREM PotsTypes == PotsSpec => []PotsTypeOK
<1>1. PotsInit => PotsTypeOK
  <2>1. \A p \in Pots : (p + 1) % (2 * Response) \in 0 .. 2 * Response - 1
    BY PotsAssumption DEF Pots
  <2> QED
    BY <2>1, PotsFacts, PotsAssumption DEF PotsInit, PotsTypeOK, Modes, Pots, Apply
<1>2. PotsTypeOK /\ [PotsNext]_potsVars => PotsTypeOK'
  <2> SUFFICES ASSUME PotsTypeOK, [PotsNext]_potsVars PROVE PotsTypeOK'
    OBVIOUS
  <2>1. CASE ReadPot
    <3>1. pc \in Pots /\ pc' = pc + 1 /\ pc' \in 0 .. Apply
      BY <2>1, PotsFacts, PotsAssumption DEF ReadPot, Pots, Apply
    <3>2. counter' \in [Pots -> 0 .. 2 * Response - 1]
      <4>1. Counted(pc) \in 0 .. 2 * Response - 1
        <5>1. counter[pc] \in Nat /\ 2 * Response \in Nat \ {0}
          BY <3>1, PotsAssumption DEF PotsTypeOK
        <5> QED
          BY <5>1, PotsAssumption DEF Counted
      <4> QED
        BY <2>1, <3>1, <4>1 DEF ReadPot, PotsTypeOK
    <3>3. /\ {position', pots', changeDetect', value'} \subseteq [Pots -> Positions]
          /\ excited' \in [Pots -> BOOLEAN]
          /\ changed' \subseteq Pots
          /\ {lastChanged', lastInAction', lastActivePot'} \subseteq Pots \cup {None}
      <4>1. CASE Due(pc)
        <5>1. StillExcited(pc) \in BOOLEAN
          BY <3>1 DEF StillExcited, PotsTypeOK
        <5>2. CASE Noticed(pc)
          <6>1. position[pc] \in Positions
            BY <3>1 DEF PotsTypeOK
          <6>2. /\ pots' = [pots EXCEPT ![pc] = position[pc]]
                /\ changeDetect' = [changeDetect EXCEPT ![pc] = position[pc]]
                /\ excited' = [excited EXCEPT ![pc] = TRUE]
                /\ changed' \subseteq changed \cup {pc}
                /\ lastChanged' = pc /\ lastInAction' = pc /\ lastActivePot' = lastActivePot
                /\ position' = position /\ value' = value
            BY <2>1, <3>1, <4>1, <5>2 DEF ReadPot, Read, uiVars, presetVars
          <6> QED
            BY <3>1, <6>1, <6>2 DEF PotsTypeOK
        <5>3. CASE ~Noticed(pc)
          BY <2>1, <3>1, <4>1, <5>1, <5>3 DEF ReadPot, Read, PotsTypeOK, uiVars, presetVars
        <5> QED
          BY <5>2, <5>3
      <4>2. CASE ~Due(pc)
        BY <2>1, <3>1, <4>2 DEF ReadPot, PotsTypeOK, uiVars, presetVars
      <4> QED
        BY <4>1, <4>2
    <3> QED
      BY <2>1, <3>1, <3>2, <3>3 DEF ReadPot, PotsTypeOK, uiVars, presetVars
  <2>2. CASE CheckLast
    BY <2>2, PotsFacts DEF CheckLast, PotsTypeOK, muxVars, presetVars
  <2>3. CASE FollowPots
    <3>1. /\ value' \in [Pots -> Positions] /\ follows' \in [Params -> BOOLEAN]
          /\ pc' \in 0 .. Apply
      BY <2>3, PotsFacts DEF FollowPots, PotsTypeOK
    <3> QED
      BY <2>3, <3>1 DEF FollowPots, PotsTypeOK, muxVars, uiVars
  <2>4. CASE ApplyLast
    <3>1. CASE lastActivePot # None /\ pots[lastActivePot] # lastActivePotValue
      <4>1. lastActivePot \in Pots /\ pots[lastActivePot] \in Positions
        BY <3>1 DEF PotsTypeOK
      <4>2. /\ lastActivePotValue' \in Positions
            /\ value' \in [Pots -> Positions]
        BY <2>4, <3>1, <4>1 DEF ApplyLast, PotsTypeOK
      <4> QED
        BY <2>4, <4>2, PotsFacts DEF ApplyLast, PotsTypeOK, muxVars
    <3>2. CASE ~(lastActivePot # None /\ pots[lastActivePot] # lastActivePotValue)
      BY <2>4, <3>2, PotsFacts DEF ApplyLast, PotsTypeOK, muxVars
    <3> QED
      BY <3>1, <3>2
  <2>5. CASE SelectParameter
    BY <2>5, SetNoActivePotTypes DEF SelectParameter, presetVars, PotsTypeOK
  <2>6. CASE ButtonToTape
    BY <2>6, SetNoActivePotTypes DEF ButtonToTape, PotsTypeOK, Modes
  <2>7. ASSUME NEW to \in Modes, Load(to) PROVE PotsTypeOK'
    <3>1. value' \in [Pots -> Positions]
      BY <2>7 DEF Load, PotsTypeOK
    <3> QED
      BY <2>7, <3>1, SetNoActivePotTypes DEF Load
  <2>8. CASE SelectPreset
    BY <2>7, <2>8 DEF SelectPreset, Modes
  <2>9. CASE ProgramChange
    BY <2>7, <2>9 DEF ProgramChange, Modes
  <2>10. CASE GoLive
    <3>1. value' \in [Pots -> Positions]
      BY <2>10 DEF GoLive, PotsTypeOK
    <3> QED
      BY <2>10, <3>1, SetNoActivePotTypes DEF GoLive, Modes
  <2>11. ASSUME NEW p \in Pots, Move(p) PROVE PotsTypeOK'
    BY <2>11 DEF Move, PotsTypeOK, muxVars, uiVars, presetVars
  <2>12. CASE UNCHANGED potsVars
    BY <2>12 DEF PotsTypeOK, potsVars, muxVars, uiVars, presetVars
  <2> QED
    BY <2>1, <2>2, <2>3, <2>4, <2>5, <2>6, <2>8, <2>9, <2>10, <2>11, <2>12
    DEF PotsNext, Loop, Interrupt
<1> QED
  BY <1>1, <1>2, PTL DEF PotsSpec

\* A reading is noticed past the threshold (change detection); what was set from one is as
\* near to it, unless a change that was noticed in this turn of the loop is still to be
\* followed; and in live mode nothing waits for its pot.
FollowInv ==
  /\ mode = "live" => \A p \in Params : follows[p]
  /\ \A p \in Pots : Distance(changeDetect[p], pots[p]) <= Threshold
  /\ \A p \in Params : follows[p] =>
       \/ Distance(value[p], changeDetect[p]) <= Threshold
       \/ pc \in 1 .. Follow /\ p \in changed

LEMMA Distances ==
  /\ \A a \in Nat : Distance(a, a) = 0
  /\ \A a \in Nat, b \in Nat : Distance(a, b) \in Nat /\ Distance(a, b) = Distance(b, a)
  /\ \A a \in Nat, b \in Nat, c \in Nat : Distance(a, c) <= Distance(a, b) + Distance(b, c)
BY DEF Distance

LEMMA FollowTypes ==
  ASSUME PotsTypeOK
  PROVE  /\ \A p \in Pots : /\ pots[p] \in Nat /\ changeDetect[p] \in Nat
                            /\ value[p] \in Nat /\ position[p] \in Nat
         /\ pc \in 0 .. Apply /\ pc \in Nat
<1>1. pc \in 0 .. Apply /\ pc \in Nat
  BY PotsFacts DEF PotsTypeOK
<1>2. /\ {pots, changeDetect, value, position} \subseteq [Pots -> Positions]
      /\ Positions \subseteq Nat
  BY PotsFacts DEF PotsTypeOK
<1> QED
  BY <1>1, <1>2

\* What the interrupt does leaves every reading followed when none was to be.
LEMMA SetNoActivePotFollows ==
  ASSUME PotsTypeOK, FollowInv, SetNoActivePot, ~Race,
         mode' = "live" => \A p \in Params : follows'[p],
         \A p \in Params : follows'[p] =>
           \/ follows[p] /\ value'[p] = value[p]
           \/ value'[p] = pots[p]
  PROVE  FollowInv'
<1>1. /\ pc = 0 /\ pc' = 0 /\ pots' = pots /\ changeDetect' = changeDetect
  BY DEF SetNoActivePot
<1>2. ASSUME NEW p \in Params, follows'[p]
      PROVE  Distance(value'[p], changeDetect'[p]) <= Threshold
  <2>1. pots[p] \in Nat /\ changeDetect[p] \in Nat
    BY FollowTypes, PotsFacts
  <2>2. CASE follows[p] /\ value'[p] = value[p]
    BY <1>1, <2>2, PotsFacts DEF FollowInv
  <2>3. CASE value'[p] = pots[p]
    <3>1. Distance(changeDetect[p], pots[p]) <= Threshold
      BY PotsFacts DEF FollowInv
    <3> QED
      BY <1>1, <2>1, <2>3, <3>1, Distances
  <2> QED
    BY <1>2, <2>2, <2>3
<1> QED
  BY <1>1, <1>2 DEF FollowInv

LEMMA ReadPotFollows ==
  ASSUME PotsTypeOK, FollowInv, ReadPot
  PROVE  FollowInv'
<1> USE PotsFacts
<1>1. /\ pc \in Pots /\ pc' = pc + 1 /\ pc' \in 1 .. Follow /\ pc \in Nat
      /\ mode' = mode /\ value' = value /\ follows' = follows /\ position' = position
  BY FollowTypes DEF ReadPot, presetVars
<1>2. \A p \in Pots \ {pc} : pots'[p] = pots[p] /\ changeDetect'[p] = changeDetect[p]
  BY <1>1 DEF ReadPot, Read, PotsTypeOK
<1>3. \A p \in changed : pc # 0 => p \in changed'
  BY <1>1 DEF ReadPot, Read
<1>4. \/ pots'[pc] = pots[pc] /\ changeDetect'[pc] = changeDetect[pc]
      \/ pots'[pc] = position[pc] /\ changeDetect'[pc] = changeDetect[pc] /\ ~Noticed(pc)
      \/ pots'[pc] = position[pc] /\ changeDetect'[pc] = position[pc] /\ pc \in changed'
  BY <1>1 DEF ReadPot, Read, PotsTypeOK
<1>5. ASSUME NEW p \in Pots PROVE Distance(changeDetect'[p], pots'[p]) <= Threshold
  <2>1. Distance(changeDetect[p], pots[p]) <= Threshold
    BY DEF FollowInv
  <2>2. Distance(changeDetect[p], position[p]) \in Nat /\ Distance(position[p], position[p]) = 0
    BY FollowTypes, Distances
  <2>3. CASE p # pc
    BY <1>2, <2>1, <2>3
  <2>4. CASE p = pc
    BY <1>4, <2>1, <2>2, <2>4, PotsAssumption DEF Noticed
  <2> QED
    BY <2>3, <2>4
<1>6. ASSUME NEW p \in Params, follows'[p]
      PROVE  \/ Distance(value'[p], changeDetect'[p]) <= Threshold
             \/ pc' \in 1 .. Follow /\ p \in changed'
  <2>1. \/ Distance(value[p], changeDetect[p]) <= Threshold
        \/ pc # 0 /\ p \in changed
    BY <1>1, <1>6 DEF FollowInv
  <2>2. CASE p \in changed /\ pc # 0
    BY <1>1, <1>3, <2>2
  <2>3. CASE Distance(value[p], changeDetect[p]) <= Threshold
    BY <1>1, <1>2, <1>4, <2>3
  <2> QED
    BY <2>1, <2>2, <2>3
<1> QED
  BY <1>1, <1>5, <1>6 DEF FollowInv

LEMMA FollowPotsFollows ==
  ASSUME PotsTypeOK, FollowInv, FollowPots
  PROVE  FollowInv'
<1> USE PotsFacts
<1> DEFINE set == {p \in Touched : ~Held(p)}
<1>1. /\ pc = Follow /\ pc' = Apply /\ mode' = mode
      /\ pots' = pots /\ changeDetect' = changeDetect /\ changed' = changed
      /\ \A p \in Pots : value'[p] = IF p \in set THEN pots[p] ELSE value[p]
      /\ \A p \in Params : follows'[p] <=> follows[p] \/ p \in set
  BY DEF FollowPots, muxVars
<1>2. \A p \in Params : follows[p] /\ p \in changed => p \in set
  BY DEF Touched, Held
<1> HIDE DEF set
<1>3. ASSUME NEW p \in Params, follows'[p]
      PROVE  Distance(value'[p], changeDetect'[p]) <= Threshold
  <2>1. /\ pots[p] \in Nat /\ changeDetect[p] \in Nat
        /\ Distance(changeDetect[p], pots[p]) <= Threshold
    BY FollowTypes DEF FollowInv
  <2>2. CASE p \in set
    BY <1>1, <2>1, <2>2, Distances
  <2>3. CASE p \notin set
    <3>1. follows[p] /\ p \notin changed /\ value'[p] = value[p]
      BY <1>1, <1>2, <1>3, <2>3
    <3> QED
      BY <1>1, <3>1 DEF FollowInv
  <2> QED
    BY <2>2, <2>3
<1> QED
  BY <1>1, <1>3 DEF FollowInv

\* When the interrupt comes between two turns of the loop only, no noticed change of a pot
\* whose parameter follows it gets lost: between the turns the parameter is within two
\* thresholds of the reading, whichever pots move and whatever is selected, loaded or left.
THEOREM PotsReadingsFollowed == ~Race => (PotsSpec => []ReadingsFollowed)
<1> SUFFICES ASSUME ~Race PROVE PotsSpec => []ReadingsFollowed
  OBVIOUS
<1> USE PotsFacts
<1>1. PotsInit => FollowInv
  <2> SUFFICES ASSUME PotsInit PROVE FollowInv
    OBVIOUS
  <2>1. \A p \in Pots : position[p] \in Nat
    BY DEF PotsInit
  <2>2. ASSUME NEW p \in Pots PROVE Distance(position[p], position[p]) <= Threshold
    <3>1. Distance(position[p], position[p]) = 0
      BY <2>1, Distances
    <3> QED
      BY <3>1, PotsAssumption
  <2> QED
    BY <2>2 DEF PotsInit, FollowInv
<1>2. PotsTypeOK /\ FollowInv /\ [PotsNext]_potsVars => FollowInv'
  <2> SUFFICES ASSUME PotsTypeOK, FollowInv, [PotsNext]_potsVars PROVE FollowInv'
    OBVIOUS
  <2>1. CASE ReadPot
    BY <2>1, ReadPotFollows
  <2>2. CASE CheckLast
    <3>1. pc = Check /\ pc \in 1 .. Follow /\ pc' \in 1 .. Follow
      BY <2>2, PotsAssumption DEF CheckLast, Check, Follow
    <3> QED
      BY <2>2, <3>1 DEF CheckLast, FollowInv, muxVars, presetVars
  <2>3. CASE FollowPots
    BY <2>3, FollowPotsFollows
  <2>4. CASE ApplyLast
    <3>1. /\ pc \notin 1 .. Follow
          /\ \A p \in Params : value'[p] = value[p]
      BY <2>4 DEF ApplyLast, Params, PotsTypeOK
    <3> QED
      BY <2>4, <3>1 DEF ApplyLast, FollowInv, muxVars
  <2>5. CASE SelectParameter
    BY <2>5, SetNoActivePotFollows DEF SelectParameter, presetVars, FollowInv
  <2>6. CASE ButtonToTape
    <3>1. mode' # "live" /\ value' = value /\ follows' = follows
      BY <2>6 DEF ButtonToTape
    <3> QED
      BY <2>6, <3>1, SetNoActivePotFollows DEF ButtonToTape
  <2>7. ASSUME NEW to \in {"select", "edit"}, Load(to) PROVE FollowInv'
    <3>1. mode' # "live" /\ \A p \in Params : ~follows'[p]
      BY <2>7 DEF Load
    <3> QED
      BY <2>7, <3>1, SetNoActivePotFollows DEF Load
  <2>8. CASE SelectPreset
    BY <2>7, <2>8 DEF SelectPreset
  <2>9. CASE ProgramChange
    BY <2>7, <2>9 DEF ProgramChange
  <2>10. CASE GoLive
    <3>1. \A p \in Params : value'[p] = pots[p] /\ follows'[p]
      BY <2>10 DEF GoLive
    <3> QED
      BY <2>10, <3>1, SetNoActivePotFollows DEF GoLive
  <2>11. ASSUME NEW p \in Pots, Move(p) PROVE FollowInv'
    BY <2>11 DEF Move, FollowInv, muxVars, presetVars
  <2>12. CASE UNCHANGED potsVars
    BY <2>12 DEF FollowInv, potsVars, muxVars, presetVars
  <2> QED
    BY <2>1, <2>2, <2>3, <2>4, <2>5, <2>6, <2>8, <2>9, <2>10, <2>11, <2>12
    DEF PotsNext, Loop, Interrupt
<1>3. PotsTypeOK /\ FollowInv => ReadingsFollowed
  <2> SUFFICES ASSUME PotsTypeOK, FollowInv, pc = 0,
                      NEW p \in Params, mode = "live" \/ follows[p]
               PROVE  Distance(value[p], pots[p]) <= 2 * Threshold
    BY DEF ReadingsFollowed
  <2>1. /\ Distance(value[p], changeDetect[p]) <= Threshold
        /\ Distance(changeDetect[p], pots[p]) <= Threshold
    BY DEF FollowInv
  <2>2. value[p] \in Nat /\ changeDetect[p] \in Nat /\ pots[p] \in Nat
    BY FollowTypes
  <2>3. /\ Distance(value[p], changeDetect[p]) \in Nat
        /\ Distance(changeDetect[p], pots[p]) \in Nat /\ Distance(value[p], pots[p]) \in Nat
        /\ Distance(value[p], pots[p])
              <= Distance(value[p], changeDetect[p]) + Distance(changeDetect[p], pots[p])
    BY <2>2, Distances
  <2> QED
    BY <2>1, <2>3, PotsAssumption
<1> QED
  BY <1>1, <1>2, <1>3, PotsTypes, PTL DEF PotsSpec

=============================================================================
