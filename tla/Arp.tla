-------------------------------- MODULE Arp --------------------------------
(***************************************************************************)
(* The arpeggiator (common/arp.c) with the keys, the buttons, the          *)
(* footswitch, the clock beats and the MIDI START that reach it. All of    *)
(* its callers run in the timer interrupt, one handler at a time. The      *)
(* sequencer is not recording (the buttons are its own then), and keys     *)
(* that play are let go before FROM TAPE shifts them away (see Keys).      *)
(***************************************************************************)
EXTENDS Integers, FiniteSets

CONSTANTS
  Memory,        \* ARP_NOTE_MEMORY
  Keys,          \* keys that get pressed, numbered from SCANNER_BASE_NOTE
  Transposes,    \* transpositions that get set
  Stimuli        \* "start": MIDI START arrives

Places == 0 .. Memory - 1
Modes  == {"off", "updown", "random", "assign"}

\* A place of the note memory. An empty one, ASSIGNER_NO_NOTE, carries the
\* flag of the held ones (bit 7) like any byte from 128 on.
Place == [note : 0 .. 127, held : BOOLEAN]
Empty == [note |-> 127, held |-> TRUE]
Down(k) == [note |-> k, held |-> FALSE]
Held(k) == [note |-> k, held |-> TRUE]

\* The up/down pattern keeps a key's note at the key's place and at its mirror
\* place; the keyboard fits in the lower half.
Mirror(i) == Memory - 1 - i

ASSUME MemoryAssumption     == Memory \in 2 .. 128 /\ Memory % 2 = 0
ASSUME KeysAssumption       == \A k \in Keys : k \in Places /\ k < Mirror(k)
ASSUME TransposesAssumption == Transposes \subseteq Int /\ 0 \in Transposes

VARIABLES
  notes, noteIndex, previousIndex, previousNote, transpose, previousTranspose, hold, mode,
  keys,         \* keys that are down
  sounding      \* pitches the arpeggiator has turned on and not off

vars == <<notes, noteIndex, previousIndex, previousNote, transpose, previousTranspose, hold,
          mode, keys, sounding>>

TypeOK ==
  /\ notes \in [Places -> Place]
  /\ noteIndex \in -1 .. Memory - 1 /\ previousIndex \in -1 .. Memory - 1
  /\ previousNote \in Place
  /\ transpose \in Transposes /\ previousTranspose \in Transposes
  /\ hold \in BOOLEAN /\ mode \in Modes
  /\ keys \subseteq Keys
  /\ sounding \subseteq {k + x : k \in Keys, x \in Transposes}

Init ==
  /\ notes = [i \in Places |-> Empty]
  /\ noteIndex = -1 /\ previousIndex = 0 /\ previousNote = Empty
  /\ transpose = 0 /\ previousTranspose = 0
  /\ hold = FALSE /\ mode = "off"
  /\ keys = {}
  /\ sounding = {}

Filled(ns) == {i \in Places : ns[i] # Empty}
isEmpty(ns) == Filled(ns) = {}

\* Mutant: the note is turned off at the pitch it would have now.
FinishedTransposed ==
  IF previousNote = Empty THEN sounding ELSE sounding \ {previousNote.note + transpose}

\* What sounds after finishPreviousNote. It leaves previousNote as it is.
Finished ==
  IF previousNote = Empty THEN sounding
  ELSE sounding \ {previousNote.note + previousTranspose}

-----------------------------------------------------------------------------
(* Modes and latch *)

\* Mutant: the keys that are still down go with the latched ones.
WithoutNotes(ns) == [i \in Places |-> Empty]

\* killHeldNotes clears what carries the flag.
WithoutHeld(ns) == [i \in Places |-> IF ns[i].held THEN Empty ELSE ns[i]]

\* arp_setMode. Between random and assign the notes stay, else all are killed.
\* Latch turned off drops the held notes.
SetMode(m, h) ==
  LET kills  == m # mode /\ {m, mode} # {"random", "assign"}
      kept   == IF kills THEN [i \in Places |-> Empty] ELSE notes
      drops  == ~h /\ hold
      left   == IF drops THEN WithoutHeld(kept) ELSE kept
  IN
  /\ mode' = m
  /\ hold' = (m # "off" /\ h)
  /\ notes' = left
  /\ noteIndex' = IF kills THEN -1 ELSE noteIndex
  /\ previousIndex' = IF kills THEN -1 ELSE previousIndex
  /\ previousNote' = IF kills THEN Empty ELSE previousNote
  /\ sounding' = IF kills \/ (drops /\ isEmpty(left)) THEN Finished ELSE sounding
  /\ UNCHANGED <<transpose, previousTranspose, keys>>

ButtonUpDown == SetMode(IF mode = "updown" THEN "off" ELSE "updown", hold)

ButtonAssign ==
  SetMode(CASE mode = "assign" -> "random" [] mode = "random" -> "off" [] OTHER -> "assign", hold)

\* The record button, while the arpeggiator runs.
ButtonRecord == mode # "off" /\ SetMode(mode, ~hold)

Footswitch(down) == mode # "off" /\ SetMode(mode, down)

SetTranspose(x) ==
  /\ transpose' = x
  /\ UNCHANGED <<notes, noteIndex, previousIndex, previousNote, previousTranspose, hold, mode,
                 keys, sounding>>

\* MIDI START, with the clock synchronised to MIDI: arp_resetCounter.
MidiStart ==
  /\ "start" \in Stimuli
  /\ noteIndex' = -1
  /\ UNCHANGED <<notes, previousIndex, previousNote, transpose, previousTranspose, hold, mode,
                 keys, sounding>>

-----------------------------------------------------------------------------
(* Keys *)

\* The first place that holds p, if any.
FirstWith(p) ==
  LET with == {i \in Places : notes[i] = p}
  IN  {i \in with : \A j \in with : i <= j}

\* The memory with a key's note put at the places of P.
Put(P, p) == [i \in Places |-> IF i \in P THEN p ELSE notes[i]]

KeyPlaces(k) == {k, Mirror(k)}

\* Mutant: every key starts the pattern over.
StartsOver(ns) == TRUE

\* The first key starts the pattern over: "if this is the first note, make
\* sure the arp will start on it".
StartsOn(ns) == isEmpty(ns)

KeyPress(k) ==
  /\ k \notin keys
  /\ keys' = keys \cup {k}
  /\ IF mode = "off" THEN UNCHANGED <<notes, noteIndex>>
     ELSE /\ noteIndex' = IF StartsOn(notes) THEN -1 ELSE noteIndex
          /\ notes' = Put(IF mode = "updown" THEN KeyPlaces(k) ELSE FirstWith(Empty), Down(k))
  /\ UNCHANGED <<previousIndex, previousNote, transpose, previousTranspose, hold, mode,
                 sounding>>

\* Mutant: in up/down, the mirror place is forgotten.
ReleasedUpOnly(k) ==
  IF mode # "updown" THEN Put(FirstWith(Down(k)), IF hold THEN Held(k) ELSE Empty)
  ELSE Put({k}, IF hold THEN Held(k) ELSE Empty)

\* The note of a released key stays, flagged, in latch mode and else goes.
Released(k) ==
  IF mode # "updown" THEN Put(FirstWith(Down(k)), IF hold THEN Held(k) ELSE Empty)
  ELSE IF hold
  THEN [i \in Places |-> IF i \in KeyPlaces(k) THEN Held(notes[i].note) ELSE notes[i]]
  ELSE Put(KeyPlaces(k), Empty)

KeyRelease(k) ==
  /\ k \in keys
  /\ keys' = keys \ {k}
  /\ IF mode = "off" THEN UNCHANGED <<notes, sounding>>
     ELSE /\ notes' = Released(k)
          /\ sounding' = IF ~hold /\ isEmpty(notes') THEN Finished ELSE sounding
  /\ UNCHANGED <<noteIndex, previousIndex, previousNote, transpose, previousTranspose, hold,
                 mode>>

-----------------------------------------------------------------------------
(* Beats *)

\* How many steps forward from place i the place j is, 1 .. Memory.
Ahead(i, j) == ((j - i - 1) % Memory) + 1

\* The places of S in front of j, coming from i.
Between(S, i, j) == {c \in S : Ahead(i, c) < Ahead(i, j)}

\* Mutant: the end notes of the up/down pattern play twice.
PlayableTwice == Filled(notes)

\* The places a beat stops at: in up/down not the mirror of the last one played.
Playable ==
  {i \in Filled(notes) : mode = "updown" => previousIndex # Mirror(i)}

\* The places that may play next. At random, the 1st .. (count - 1)th note
\* ahead; from an emptied place the only note is reached by counting n, a byte,
\* down through zero.
Choices ==
  LET count == Cardinality(Filled(notes))
      start == IF noteIndex < 0 THEN 0 ELSE noteIndex
  IN
  CASE mode # "random" ->
         {i \in Playable : Between(Playable, noteIndex, i) = {}}
    [] mode = "random" /\ count > 1 ->
         {i \in Filled(notes) : Cardinality(Between(Filled(notes), start, i)) < count - 1}
    [] mode = "random" /\ count = 1 -> Filled(notes)

\* A beat of the clock: arp_update.
Update ==
  /\ mode # "off" /\ ~isEmpty(notes)
  /\ \E n \in Choices :
       LET played == notes[n] IN
       /\ noteIndex' = n
       /\ previousIndex' = n
       /\ previousNote' = played
       /\ previousTranspose' = transpose
       /\ sounding' = Finished \cup {played.note + transpose}
  /\ UNCHANGED <<notes, transpose, hold, mode, keys>>

-----------------------------------------------------------------------------
Key(k) == KeyPress(k) \/ KeyRelease(k)

Controls ==
  \/ ButtonUpDown
  \/ ButtonAssign
  \/ ButtonRecord
  \/ \E down \in BOOLEAN : Footswitch(down)
  \/ \E x \in Transposes : SetTranspose(x)
  \/ MidiStart

Next == Controls \/ Update \/ \E k \in Keys : Key(k)

Spec == Init /\ [][Next]_vars

\* The clock keeps beating.
FairSpec == Spec /\ WF_vars(Update)

-----------------------------------------------------------------------------
(* Properties *)

\* At most the last note sounds, at the pitch it was played at, and only while
\* the arpeggiator runs and has notes: whatever ends it (the last key, latch,
\* another mode), a note-off for what was turned on has been sent.
NothingLeftOn ==
  sounding \subseteq IF mode = "off" \/ isEmpty(notes) THEN {}
                     ELSE {previousNote.note + previousTranspose}

\* What plays is latched or has its key down: each key whose release arrives
\* takes its note along or leaves it latched, and once only.
NotesHaveKeys ==
  \A i \in Filled(notes) :
    IF notes[i].held THEN hold
    ELSE /\ notes[i].note \in keys
         /\ \A j \in Filled(notes) \ {i} :
              notes[j] = notes[i] => mode = "updown" /\ j = Mirror(i)

\* "the lowest and highest note in the up/down pattern [...] are only played
\* once" and at random "a note is never repeated (unless there is only one note
\* to play)" (arp.tex): as long as the pattern is not started over, a beat
\* moves on, in up/down to another note, else to another place.
NoRepeat ==
  [][Update /\ noteIndex = previousIndex =>
       IF mode = "updown"
       THEN (\E i \in Filled(notes) : notes[i].note # previousNote.note)
              => previousNote'.note # previousNote.note
       ELSE Cardinality(Filled(notes)) > 1 => previousIndex' # previousIndex
    ]_vars

\* Every note that keeps its place in an up/down or assign pattern gets its
\* turn again and again, whatever keys come and go around it, unless MIDI START
\* comes again and again.
EveryNotePlays ==
  <>[][~MidiStart]_vars =>
    \A k \in Keys, i \in Places :
      <>[](mode \in {"updown", "assign"} /\ notes[i].note = k) => []<>(previousNote.note = k)

\* The notes of the places that have the flag of the held ones, or not.
Entered(ns, flag) == {ns[i].note : i \in {j \in Filled(ns) : ns[j].held = flag}}

LastPitch ==
  IF previousNote = Empty THEN {} ELSE {previousNote.note + previousTranspose}

Arpeggiator == INSTANCE Arpeggio WITH
  running   <- mode # "off",
  latch     <- hold,
  held      <- Entered(notes, FALSE),
  latched   <- Entered(notes, TRUE),
  last      <- LastPitch

\* The patterns, their memory with flags and mirrored places and the byte
\* arithmetic on it implement an arpeggio: what a key entered it takes along or
\* latches, one note sounds at a time and none when there is nothing to play,
\* and as long as there is something it does play.
Arpeggiates == Arpeggiator!FairSpec

=============================================================================
