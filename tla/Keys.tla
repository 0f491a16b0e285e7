-------------------------------- MODULE Keys --------------------------------
(***************************************************************************)
(* Where a key's press and its release go (synth_keyEvent of common/synth.c *)
(* with the buttons of ui.c, the MIDI messages of midi.c and the           *)
(* arpeggiator around it): to the assigner, to the arpeggiator, to MIDI    *)
(* out, to the transposition or nowhere. The two are routed by what is     *)
(* switched on when each comes. All of it runs in the timer interrupt.     *)
(*                                                                         *)
(* Of the assigner only its key bits are kept; the arpeggiator is the      *)
(* abstract one. The sequencer's share is in Seq. Notes are counted from   *)
(* SCANNER_C2, the key that transposes by nothing.                         *)
(***************************************************************************)
EXTENDS Integers, Sequences

CONSTANTS
  Keyboard,      \* keys of the instrument
  External,      \* keys of what is connected to MIDI in
  Stimuli        \* "swallow": keys that play are let go while shifted, or held
                 \*            over a change of the local mode

Transposes == {0} \cup Keyboard \cup External
KeyPitches == {k + x : k \in Keyboard, x \in Transposes}
ArpKeys    == Keyboard \cup External \cup KeyPitches

ASSUME KeysAssumption == Keyboard \subseteq Int /\ External \subseteq Int

VARIABLES
  isShifted, isDoubleClicked,
  doubleClickTimer,     \* whether it runs
  prevMiscButton,       \* whether the local mode is on display
  transpose,
  localOn,              \* settings.midiMode = 0
  noteStates,           \* the assigner's key bits
  running, latch, held, latched, last, sounding,   \* see Arpeggio
  down, midiDown,       \* keys that are down, here and at MIDI in
  loop,                 \* whether what is connected to MIDI out plays it back
                        \* to MIDI in, faster than fingers and the clock
  line,                 \* messages to be played back
  left                  \* history: bits that were on for a key of the keyboard when
                        \* another one transposed, which its release does not find

panelVars == <<isShifted, isDoubleClicked, doubleClickTimer, prevMiscButton>>
arpVars   == <<running, latch, held, latched, last, sounding>>
keyVars   == <<down, midiDown>>
outVars   == <<loop, line>>
vars == <<panelVars, transpose, localOn, noteStates, arpVars, keyVars, outVars, left>>

Arpeggiator == INSTANCE Arpeggio WITH Keys <- ArpKeys, Transposes <- Transposes

Message == [note : Int, on : BOOLEAN]

TypeOK ==
  /\ Arpeggiator!TypeOK
  /\ {isShifted, isDoubleClicked, doubleClickTimer, prevMiscButton, localOn} \subseteq BOOLEAN
  /\ down \subseteq Keyboard
  /\ noteStates \cup midiDown \subseteq {k + x : k \in ArpKeys, x \in Transposes}
  /\ loop \in BOOLEAN /\ line \in Seq(Message)
  /\ left \subseteq noteStates

Init ==
  /\ Arpeggiator!Init
  /\ isShifted = FALSE /\ isDoubleClicked = FALSE
  /\ doubleClickTimer = FALSE /\ prevMiscButton = FALSE
  /\ localOn = TRUE
  /\ noteStates = {}
  /\ down = {} /\ midiDown = {}
  /\ loop \in BOOLEAN /\ line = <<>>
  /\ left = {}

-----------------------------------------------------------------------------
(* MIDI out *)

SetBit(set, note, on) == IF on THEN set \cup {note} ELSE set \ {note}

\* Sends the notes of `offs` off, then those of `ons` on; `queued` waits before.
Send(queued, offs, ons) ==
  LET played(notes, on) == IF notes = {} THEN <<>>
                           ELSE <<[note |-> CHOOSE n \in notes : TRUE, on |-> on]>>
  IN
  /\ line' = IF loop THEN queued \o played(offs, FALSE) \o played(ons, TRUE) ELSE queued
  /\ UNCHANGED loop

\* Fingers and the clock wait for what is played back.
Quiet == line = <<>>

\* What nothing but a later event would turn off.
Pending == ~(noteStates \subseteq sounding /\ held = {})

\* A key that plays `note`, here or in the arpeggiator, is let go before FROM
\* TAPE swallows its release.
LetGo(key, note) ==
  (isShifted \/ isDoubleClicked) /\ (note \in noteStates \ sounding \/ held \cap {key, note} # {})
    => "swallow" \in Stimuli

-----------------------------------------------------------------------------
(* Keys *)

PlaysSynth(fromKeyboard) == IF fromKeyboard THEN localOn /\ ~running ELSE localOn \/ ~running

\* Mutant: MIDI keys enter the arpeggiator in local on as well.
PlaysArpAlways(fromKeyboard) == running /\ (fromKeyboard => localOn)

PlaysArp(fromKeyboard)   == running /\ (fromKeyboard <=> localOn)

SendsMidi(fromKeyboard)  == fromKeyboard /\ (~running \/ ~localOn)

\* Mutant: a key transposes from where the last one left off.
TransposingFurther(key, pressed, fromKeyboard) ==
  LET sets == pressed /\ (fromKeyboard \/ ~localOn) IN
  /\ isShifted \/ isDoubleClicked
  /\ transpose' = IF sets THEN transpose + key ELSE transpose
  /\ isDoubleClicked' = (isDoubleClicked /\ ~(sets /\ isShifted))
  /\ UNCHANGED <<noteStates, arpVars, loop>>

\* A key while shifted: it transposes or goes nowhere.
Transposing(key, pressed, fromKeyboard) ==
  LET sets == pressed /\ (fromKeyboard \/ ~localOn) IN
  /\ isShifted \/ isDoubleClicked
  /\ transpose' = IF sets THEN key ELSE transpose
  /\ isDoubleClicked' = (isDoubleClicked /\ ~(sets /\ isShifted))
  /\ UNCHANGED <<noteStates, arpVars, loop>>

\* A key that plays. The arpeggiator's last note ends with its last key.
Playing(key, pressed, fromKeyboard, queued) ==
  LET note == IF fromKeyboard THEN key + transpose ELSE key
      sent == IF SendsMidi(fromKeyboard) THEN {note} ELSE {}
      ends == IF ~pressed /\ PlaysArp(fromKeyboard) /\ Arpeggiator!Empties(key) THEN last ELSE {}
  IN
  /\ ~isShifted /\ ~isDoubleClicked
  /\ IF PlaysArp(fromKeyboard)
     THEN /\ IF pressed THEN Arpeggiator!Press(key) ELSE Arpeggiator!Release(key)
          /\ noteStates' = noteStates \ ends
     ELSE /\ noteStates' = IF PlaysSynth(fromKeyboard)
                           THEN SetBit(noteStates, note, pressed) ELSE noteStates
          /\ UNCHANGED <<arpVars, transpose>>
  /\ Send(queued, (IF localOn THEN ends ELSE {}) \cup (IF pressed THEN {} ELSE sent),
          IF pressed THEN sent ELSE {})
  /\ UNCHANGED isDoubleClicked

\* synth_keyEvent, for a key here or at MIDI in.
KeyEvent(key, pressed, fromKeyboard, queued) ==
  /\ \/ Transposing(key, pressed, fromKeyboard) /\ line' = queued
     \/ Playing(key, pressed, fromKeyboard, queued)
  /\ UNCHANGED <<isShifted, doubleClickTimer, prevMiscButton, localOn>>

Key(k, pressed) ==
  /\ Quiet
  /\ pressed <=> k \notin down
  /\ ~pressed => LetGo(k, k + transpose)
  /\ down' = SetBit(down, k, pressed)
  /\ KeyEvent(k, pressed, TRUE, <<>>)
  /\ UNCHANGED midiDown

ExternalKey(n, pressed) ==
  /\ Quiet
  /\ pressed <=> n \notin midiDown
  /\ ~pressed => LetGo(n, n)
  /\ midiDown' = SetBit(midiDown, n, pressed)
  /\ KeyEvent(n, pressed, FALSE, <<>>)
  /\ UNCHANGED down

PlayedBack ==
  /\ line # <<>>
  /\ midiDown' = SetBit(midiDown, Head(line).note, Head(line).on)
  /\ KeyEvent(Head(line).note, Head(line).on, FALSE, Tail(line))
  /\ UNCHANGED down

-----------------------------------------------------------------------------
(* Panel and messages *)

\* FROM TAPE shifts while it is down; two clicks within a second lock it, the
\* next one unlocks. Locking turns the keys off.
FromTape(pressed) ==
  LET locks == pressed /\ ~isDoubleClicked /\ doubleClickTimer IN
  /\ Quiet
  /\ pressed <=> ~isShifted
  /\ isShifted' = pressed
  /\ IF ~pressed THEN UNCHANGED <<isDoubleClicked, doubleClickTimer>>
     ELSE /\ isDoubleClicked' = locks
          /\ doubleClickTimer' = IF isDoubleClicked THEN doubleClickTimer ELSE ~doubleClickTimer
  /\ noteStates' = IF locks THEN {} ELSE noteStates
  /\ prevMiscButton' = FALSE
  /\ UNCHANGED <<transpose, localOn, arpVars, keyVars, outVars>>

\* ui_update counts the second down.
DoubleClickTimeout ==
  /\ doubleClickTimer
  /\ doubleClickTimer' = FALSE
  /\ UNCHANGED <<isShifted, isDoubleClicked, prevMiscButton, transpose, localOn, noteStates,
                 arpVars, keyVars, outVars>>

\* Button 0 while shifted shows the local mode, and changes it when it shows.
\* Local off frees the voices and the keys.
LocalButton ==
  /\ Quiet
  /\ isShifted \/ isDoubleClicked
  /\ doubleClickTimer' = FALSE
  /\ prevMiscButton' = TRUE
  /\ IF prevMiscButton
     THEN /\ held # {} => "swallow" \in Stimuli
          /\ localOn' = ~localOn
          /\ noteStates' = IF localOn' THEN noteStates ELSE {}
     ELSE UNCHANGED <<localOn, noteStates>>
  /\ UNCHANGED <<isShifted, isDoubleClicked, transpose, arpVars, keyVars, outVars>>

\* MIDI CC 122 (ui_setLocalMode), which frees nothing.
LocalControl(on) ==
  /\ Quiet
  /\ Pending => "swallow" \in Stimuli
  /\ localOn' = on
  /\ UNCHANGED <<panelVars, transpose, noteStates, arpVars, keyVars, outVars>>

\* MIDI CC 123.
AllNotesOff ==
  /\ Quiet
  /\ noteStates' = {}
  /\ UNCHANGED <<panelVars, transpose, localOn, arpVars, keyVars, outVars>>

\* Note-offs for the arpeggiator's last note, once more if it has had one.
ArpOff == IF localOn THEN last ELSE {}

\* Mutant: the keys of the synth stay on when the arpeggiator takes over.
ArpPatternKeysStay(on) ==
  /\ Quiet
  /\ running \/ on
  /\ Arpeggiator!SetPattern(on, latch)
  /\ noteStates' = noteStates \ last
  /\ Send(<<>>, ArpOff, {})
  /\ UNCHANGED <<panelVars, localOn, keyVars>>

\* The arpeggiator's buttons: another pattern, or off. The keys go.
ArpPattern(on) ==
  /\ Quiet
  /\ running \/ on
  /\ Arpeggiator!SetPattern(on, latch)
  /\ noteStates' = {}
  /\ Send(<<>>, ArpOff, {})
  /\ UNCHANGED <<panelVars, localOn, keyVars>>

\* Its latch, by the record button or the pedal.
ArpLatch(on) ==
  LET ends == IF latch /\ ~on /\ held = {} THEN last ELSE {} IN
  /\ Quiet
  /\ Arpeggiator!SetLatch(on)
  /\ noteStates' = noteStates \ ends
  /\ Send(<<>>, IF localOn THEN ends ELSE {}, {})
  /\ UNCHANGED <<panelVars, localOn, keyVars>>

\* Mutant: the notes are sent in local off as well.
ArpBeatSent ==
  /\ Quiet
  /\ Arpeggiator!Beat
  /\ noteStates' = (noteStates \ last) \cup last'
  /\ Send(<<>>, last, last')
  /\ UNCHANGED <<panelVars, localOn, keyVars>>

\* A beat of the arpeggiator. Its notes are sent in local on only: "in local off
\* mode external MIDI plays into arp so if MIDI out is connected (via MIDI
\* recording tools) to MIDI in we would get an infinite loop".
ArpBeat ==
  /\ Quiet
  /\ Arpeggiator!Beat
  /\ noteStates' = (noteStates \ last) \cup last'
  /\ Send(<<>>, ArpOff, IF localOn THEN last' ELSE {})
  /\ UNCHANGED <<panelVars, localOn, keyVars>>

-----------------------------------------------------------------------------
\* Shift locks.
Locks == isDoubleClicked' /\ ~isDoubleClicked

\* assigner_allKeysOff: at a change of pattern, MIDI CC 123 and when shift locks.
KeysOff ==
  \/ \E on \in BOOLEAN : ArpPattern(on)
  \/ AllNotesOff
  \/ FromTape(TRUE) /\ Locks

KeysStay ==
  \/ \E k \in Keyboard, pressed \in BOOLEAN : Key(k, pressed)
  \/ \E n \in External, pressed \in BOOLEAN : ExternalKey(n, pressed)
  \/ \E pressed \in BOOLEAN : FromTape(pressed) /\ ~Locks
  \/ \E on \in BOOLEAN : LocalControl(on)
  \/ ArpLatch(~latch) \/ ArpBeat \/ DoubleClickTimeout \/ PlayedBack

\* A transposition leaves the keys that play where they were.
Leave ==
  LET moved == IF transpose' = transpose THEN {} ELSE {k + transpose : k \in down}
  IN  left' = (left \cup moved) \cap noteStates'

Next == (KeysOff \/ KeysStay \/ LocalButton) /\ Leave

Spec == Init /\ [][Next]_vars

-----------------------------------------------------------------------------
(* Properties *)

\* A key the assigner believes down is down, here at the transposition in force
\* or at MIDI in, is the arpeggiator's note, or one that played when another key
\* transposed, whose release turns off another note: whatever else is locked,
\* switched to the arpeggiator or to local off between its press and its
\* release, no note is left behind in the synthesizer.
BitsHaveCauses ==
  noteStates \subseteq {k + transpose : k \in down} \cup midiDown \cup sounding \cup left

\* What the arpeggiator holds without latch comes from a key that is down, of
\* the keyboard that plays it.
ArpKeysDown == held \subseteq IF localOn THEN down ELSE midiDown

\* With MIDI out connected to MIDI in, the arpeggiator still plays what keys of
\* the keyboard entered, and is not entered its own notes.
NotFedBack == held \cup latched \subseteq KeyPitches \cup External

=============================================================================
