-------------------------------- MODULE Seq --------------------------------
(***************************************************************************)
(* The two-track polyphonic step sequencer (common/seq.c) with the keys,   *)
(* buttons, clock beats and MIDI real-time bytes that reach it. All of its *)
(* callers run in the timer interrupt, one handler at a time. A track that *)
(* is off keeps in `events` what storage holds for it: it is loaded from   *)
(* there when it leaves "off" and saved when its recording ends.           *)
(***************************************************************************)
EXTENDS Integers, FiniteSets, Sequences

CONSTANTS
  MaxEvents,     \* SEQ_NOTE_MEMORY
  Keys,          \* keys that get pressed, numbered from SCANNER_BASE_NOTE: 0 .. 60
                 \* on the keyboard, -36 .. 91 over MIDI
  Transposes,    \* transpositions that get set
  Recordable,    \* tracks that the user records
  MaxNoteOns,    \* bound on the count of keys down (a byte)
  Stored,        \* sequences found in storage
  Stimuli        \* "stop": MIDI STOP arrives
                 \* "stale": recording ends or shift is held with keys down
                 \* "both": both tracks record at once
                 \* "edit": steps are erased with keys down

\* How a key is stored: six bits, and a key below the keyboard wraps to a byte
\* that has the continuation bit set.
Coded(k) == k % 64

Tracks == {0, 1}
Modes  == {"off", "waiting", "playing", "recording"}

Note(k, cont) == [kind |-> "note", note |-> k, cont |-> cont]
Rest == [kind |-> "rest", note |-> 0, cont |-> FALSE]
Tie  == [kind |-> "tie", note |-> 0, cont |-> FALSE]

Event == [kind : {"note", "rest", "tie"}, note : 0 .. 63, cont : BOOLEAN]

\* A sequence as the header describes it: only notes continue a step, and
\* only one that a note has begun.
WellFormed(ev) ==
  \A i \in DOMAIN ev : ev[i].cont => /\ ev[i].kind = "note"
                                     /\ i > 1 /\ ev[i - 1].kind = "note"

ASSUME KeysAssumption       == Keys \subseteq (-36 .. 91) \ {-2, -1, 62, 63}
ASSUME TransposesAssumption == Transposes \subseteq Int /\ 0 \in Transposes
ASSUME EventsAssumption     == MaxEvents \in Nat \ {0} /\ MaxNoteOns \in Nat
ASSUME StoredAssumption     ==
  \A ev \in Stored : ev \in Seq(Event) /\ Len(ev) <= MaxEvents /\ WellFormed(ev)

VARIABLES
  mode, events, eventIndex, prevEventIndex, stepCount, previousTranspose, \* per track
  transpose,
  addTies,      \* ties to add once the keys are up
  noteOns,      \* how many keys are down, as counted while recording
  keys,         \* keys that are down
  sounding,     \* per track, the pitches it has turned on and not off
  dead          \* an endless loop or a write past the track has been entered

vars == <<mode, events, eventIndex, prevEventIndex, stepCount, previousTranspose,
          transpose, addTies, noteOns, keys, sounding, dead>>
positionVars == <<eventIndex, prevEventIndex, previousTranspose, sounding>>
entryVars    == <<addTies, noteOns>>

\* The pitches that stored notes can be played at.
Pitches == {k + x : k \in 0 .. 63, x \in Transposes}

TypeOK ==
  /\ mode \in [Tracks -> Modes]
  /\ events \in [Tracks -> Seq(Event)]
  /\ \A t \in Tracks : /\ Len(events[t]) <= MaxEvents
                       /\ eventIndex[t] \in 0 .. MaxEvents - 1
                       /\ prevEventIndex[t] \in -1 .. MaxEvents - 1
                       /\ stepCount[t] \in 0 .. MaxEvents
                       /\ previousTranspose[t] \in Transposes
                       /\ sounding[t] \subseteq Pitches
  /\ transpose \in Transposes
  /\ addTies \in 0 .. MaxEvents /\ noteOns \in 0 .. MaxNoteOns
  /\ keys \subseteq Keys
  /\ dead \in BOOLEAN

Init ==
  /\ mode = [t \in Tracks |-> "off"]
  /\ events \in [Tracks -> Stored]
  /\ eventIndex = [t \in Tracks |-> 0] /\ prevEventIndex = [t \in Tracks |-> 0]
  /\ stepCount = [t \in Tracks |-> 0] /\ previousTranspose = [t \in Tracks |-> 0]
  /\ transpose = 0
  /\ addTies = 0 /\ noteOns = 0
  /\ keys = {}
  /\ sounding = [t \in Tracks |-> {}]
  /\ dead = FALSE

-----------------------------------------------------------------------------
(* Steps of a sequence: an event and the continuations that follow it,      *)
(* going round. Indexes are those of the C array.                           *)

At(ev, i) == ev[(i % Len(ev)) + 1]

\* The loops over a step never end if every event is a continuation.
Endless(ev) == \A i \in DOMAIN ev : ev[i].cont

StepLength(ev, i) ==
  CHOOSE d \in 1 .. Len(ev) :
    ~At(ev, i + d).cont /\ \A c \in 1 .. d - 1 : At(ev, i + c).cont

StepNotes(ev, i) ==
  {At(ev, i + d).note : d \in {d \in 0 .. StepLength(ev, i) - 1 : At(ev, i + d).kind = "note"}}

Steps(ev) == Cardinality({i \in DOMAIN ev : ~ev[i].cont})

AnyPlaying == \E t \in Tracks : mode[t] = "playing"
Recording  == {t \in Tracks : mode[t] = "recording"}

\* Where track t stands among the recording ones: both take each input in turn.
Before(t) == {u \in Recording : u < t}

-----------------------------------------------------------------------------
(* Playing *)

\* finishPreviousNotes from position p: it has notes to turn off, which those
\* are, and where it leaves the position, past the step.
Finishes(t, p) == events[t] # <<>> /\ p >= 0 /\ At(events[t], p).kind = "note"

Finished(t, p) ==
  IF Finishes(t, p) THEN {n + previousTranspose[t] : n \in StepNotes(events[t], p)} ELSE {}

AfterFinish(t, p) ==
  IF Finishes(t, p) THEN (p + StepLength(events[t], p)) % Len(events[t]) ELSE p

\* Mutant: a tie becomes the step to finish.
AfterStepTied(t, i, p) == IF At(events[t], i).kind = "rest" THEN AfterFinish(t, p) ELSE i

\* The position of the notes to finish once the step at i has been played. A
\* tie leaves it where it was.
AfterStep(t, i, p) ==
  CASE At(events[t], i).kind = "note" -> i
    [] At(events[t], i).kind = "rest" -> AfterFinish(t, p)
    [] OTHER -> p

\* playStep of the tracks of S, from position i[t] and with the notes of
\* position p[t] still to be finished.
PlaySteps(S, i, p) ==
  LET active   == {t \in S : events[t] # <<>>}
      kind(t)  == At(events[t], i[t]).kind
      ended(t) == IF kind(t) = "tie" THEN {} ELSE Finished(t, p[t])
  IN
  IF \E t \in active : Endless(events[t])
  THEN /\ dead' = TRUE
       /\ UNCHANGED positionVars
  ELSE /\ eventIndex' = [t \in Tracks |->
            IF t \in active THEN (i[t] + StepLength(events[t], i[t])) % Len(events[t]) ELSE i[t]]
       /\ prevEventIndex' = [t \in Tracks |-> IF t \in active THEN AfterStep(t, i[t], p[t]) ELSE p[t]]
       /\ previousTranspose' = [t \in Tracks |->
            IF t \in active /\ kind(t) = "note" THEN transpose
            ELSE previousTranspose[t]]
       /\ sounding' = [t \in Tracks |->
            IF t \in active
            THEN (sounding[t] \ ended(t)) \cup {n + transpose : n \in StepNotes(events[t], i[t])}
            ELSE sounding[t]]
       /\ UNCHANGED dead

\* A beat of the clock: seq_update.
Update ==
  /\ PlaySteps({t \in Tracks : mode[t] = "playing"}, eventIndex, prevEventIndex)
  /\ UNCHANGED <<mode, events, stepCount, transpose, entryVars, keys>>

\* setMode(t, smPlaying) for the tracks of S, in order. Those of `early`, which
\* find another track playing, play their first step at once when the clock is
\* in the first half of a beat.
StartPlaying(S, early) ==
  /\ mode' = [t \in Tracks |-> IF t \in S THEN "playing" ELSE mode[t]]
  /\ \A t \in early : AnyPlaying \/ \E u \in S : u < t
  /\ PlaySteps(early, [t \in Tracks |-> IF t \in S THEN 0 ELSE eventIndex[t]],
                      [t \in Tracks |-> IF t \in S THEN -1 ELSE prevEventIndex[t]])

Start(t, early) ==
  /\ mode[t] \in {"off", "waiting", "recording"}
  /\ mode[t] = "recording" /\ keys # {} => "stale" \in Stimuli
  /\ early \subseteq {t}
  /\ StartPlaying({t}, early)
  /\ stepCount' = IF mode[t] = "off" THEN [stepCount EXCEPT ![t] = Steps(events[t])]
                  ELSE stepCount
  /\ UNCHANGED <<events, transpose, entryVars, keys>>

\* The track's button with shift: it starts with the next key.
Wait(t) ==
  /\ mode[t] = "off"
  /\ mode' = [mode EXCEPT ![t] = "waiting"]
  /\ stepCount' = [stepCount EXCEPT ![t] = Steps(events[t])]
  /\ UNCHANGED <<events, positionVars, transpose, entryVars, keys, dead>>

Stop(t) ==
  /\ mode[t] = "playing"
  /\ IF Finishes(t, prevEventIndex[t]) /\ Endless(events[t])
     THEN dead' = TRUE /\ UNCHANGED <<mode, prevEventIndex, sounding>>
     ELSE /\ mode' = [mode EXCEPT ![t] = "off"]
          /\ sounding' = [sounding EXCEPT ![t] = @ \ Finished(t, prevEventIndex[t])]
          /\ prevEventIndex' = [prevEventIndex EXCEPT ![t] = AfterFinish(t, prevEventIndex[t])]
          /\ UNCHANGED dead
  /\ UNCHANGED <<events, eventIndex, stepCount, previousTranspose, transpose, entryVars, keys>>

\* MIDI START and STOP turn the notes of the playing tracks off.
Silence(prev) ==
  LET playing == {t \in Tracks : mode[t] = "playing"} IN
  IF \E t \in playing : Finishes(t, prevEventIndex[t]) /\ Endless(events[t])
  THEN dead' = TRUE /\ UNCHANGED <<sounding, prevEventIndex>>
  ELSE /\ sounding' = [t \in Tracks |->
            IF t \in playing THEN sounding[t] \ Finished(t, prevEventIndex[t]) ELSE sounding[t]]
       /\ prevEventIndex' = prev
       /\ UNCHANGED dead

MidiStart ==
  /\ Silence([t \in Tracks |-> -1])
  /\ eventIndex' = [t \in Tracks |-> 0]
  /\ UNCHANGED <<mode, events, stepCount, previousTranspose, transpose, entryVars, keys>>

MidiStop ==
  /\ "stop" \in Stimuli
  /\ Silence([t \in Tracks |->
       IF mode[t] = "playing" /\ ~Endless(events[t]) THEN AfterFinish(t, prevEventIndex[t])
       ELSE prevEventIndex[t]])
  /\ UNCHANGED <<mode, events, eventIndex, stepCount, previousTranspose, transpose,
                 entryVars, keys>>

\* A key pressed while shifted sets the transposition.
SetTranspose(x) ==
  /\ transpose' = x
  /\ UNCHANGED <<mode, events, positionVars, stepCount, entryVars, keys, dead>>

-----------------------------------------------------------------------------
(* Recording *)

StartRecording(t) ==
  /\ mode[t] = "off" /\ t \in Recordable
  /\ Recording # {} => "both" \in Stimuli
  /\ mode' = [mode EXCEPT ![t] = "recording"]
  /\ stepCount' = [stepCount EXCEPT ![t] = Steps(events[t])]
  /\ addTies' = 0
  /\ UNCHANGED <<events, positionVars, transpose, noteOns, keys, dead>>

\* The search for a note in the last step. It ends with the event that begins
\* the step; of a track without events it reads the byte before the array,
\* which is the mode, smRecording = 3.
Known(t, k) ==
  IF events[t] = <<>> THEN k = 3
  ELSE \E i \in DOMAIN events[t] :
         /\ \A j \in i + 1 .. Len(events[t]) : events[t][j].cont
         /\ events[t][i] \in {Note(k, cont) : cont \in BOOLEAN}

\* Mutant: the space that the pending ties need is forgotten.
SpaceAvailForNotes(t, ties) == Len(events[t]) < MaxEvents

SpaceAvail(t, ties) == Len(events[t]) + ties < MaxEvents

\* What a key adds to track t: nothing without space, or if the step has it.
Added(t, k) ==
  LET first == noteOns + Cardinality(Before(t)) = 0
  IN  IF ~SpaceAvail(t, addTies) \/ (~first /\ Known(t, k)) THEN <<>>
      ELSE <<Note(Coded(k), ~first \/ k < 0)>>

\* A key goes down: waiting tracks start, those that record take it.
KeyPress(k, early) ==
  LET waiting == {t \in Tracks : mode[t] = "waiting"} IN
  /\ k \notin keys
  /\ noteOns + Cardinality(Recording) <= MaxNoteOns
  /\ keys' = keys \cup {k}
  /\ early \subseteq waiting
  /\ StartPlaying(waiting, early)
  /\ events' = [t \in Tracks |->
       IF t \in Recording THEN events[t] \o Added(t, k) ELSE events[t]]
  /\ stepCount' = [t \in Tracks |->
       IF /\ t \in Recording /\ Added(t, k) # <<>>
          /\ noteOns + Cardinality(Before(t)) = 0
       THEN stepCount[t] + 1 ELSE stepCount[t]]
  /\ noteOns' = noteOns + Cardinality(Recording)
  /\ UNCHANGED <<transpose, addTies>>

\* The key goes up. The first recording track that counts no key left gets
\* the ties.
KeyRelease(k) ==
  LET left(t) == noteOns - Cardinality(Before(t)) - 1
      tied == {t \in Recording : left(t) <= 0 /\ \A u \in Before(t) : left(u) > 0}
  IN
  /\ k \in keys
  /\ keys' = keys \ {k}
  /\ noteOns' = IF noteOns > Cardinality(Recording) THEN noteOns - Cardinality(Recording) ELSE
                IF Recording = {} THEN noteOns ELSE 0
  /\ IF \E t \in tied : Len(events[t]) + addTies > MaxEvents
     THEN dead' = TRUE /\ UNCHANGED <<events, addTies>>
     ELSE /\ events' = [t \in Tracks |->
               IF t \in tied THEN events[t] \o [i \in 1 .. addTies |-> Tie] ELSE events[t]]
          /\ addTies' = IF tied = {} THEN addTies ELSE 0
          /\ UNCHANGED dead
  /\ UNCHANGED <<mode, positionVars, stepCount, transpose>>

\* The release of a key while shifted goes nowhere.
KeyReleaseShifted(k) ==
  /\ "stale" \in Stimuli
  /\ k \in keys
  /\ keys' = keys \ {k}
  /\ UNCHANGED <<mode, events, positionVars, stepCount, transpose, entryVars, dead>>

\* Button 0 (SEQ_NOTE_CLEAR).
Clear ==
  /\ Recording # {}
  /\ keys # {} => "edit" \in Stimuli
  /\ events' = [t \in Tracks |-> IF t \in Recording THEN <<>> ELSE events[t]]
  /\ stepCount' = [t \in Tracks |-> IF t \in Recording THEN 0 ELSE stepCount[t]]
  /\ addTies' = 0
  /\ UNCHANGED <<mode, positionVars, transpose, noteOns, keys, dead>>

\* Mutant: a chord loses only its last note.
WithoutLastEvent(ev) == IF ev = <<>> THEN <<>> ELSE SubSeq(ev, 1, Len(ev) - 1)

\* All events before the last that begins a step, and that one's continuations.
WithoutLastStep(ev) ==
  LET heads == {i \in DOMAIN ev : ~ev[i].cont}
  IN  IF heads = {} THEN <<>>
      ELSE SubSeq(ev, 1, (CHOOSE h \in heads : \A i \in heads : i <= h) - 1)

\* Mutant: a track without steps is not left alone.
RecordingAll == Recording

\* The tracks that have a step to undo.
Undoable == {t \in Recording : stepCount[t] > 0}

\* Button 1 (SEQ_NOTE_UNDO): a pending tie, else the last step.
Undo ==
  LET undoing   == Undoable
      tiesAt(t) == addTies - Cardinality(undoing \cap Before(t))
  IN
  /\ Recording # {}
  /\ keys # {} /\ addTies = 0 => "edit" \in Stimuli
  /\ stepCount' = [t \in Tracks |-> IF t \in undoing THEN stepCount[t] - 1 ELSE stepCount[t]]
  /\ events' = [t \in Tracks |->
       IF t \in undoing /\ tiesAt(t) <= 0 THEN WithoutLastStep(events[t]) ELSE events[t]]
  /\ addTies' = IF addTies > Cardinality(undoing) THEN addTies - Cardinality(undoing) ELSE
                IF undoing = {} THEN addTies ELSE 0
  /\ UNCHANGED <<mode, positionVars, transpose, noteOns, keys, dead>>

\* Mutant: a tie is stored at once, with its keys still down.
StepTiedAtOnce ==
  LET spacious == {t \in Recording : SpaceAvail(t, addTies)} IN
  /\ Recording # {}
  /\ stepCount' = [t \in Tracks |-> IF t \in spacious THEN stepCount[t] + 1 ELSE stepCount[t]]
  /\ events' = [t \in Tracks |->
       IF t \in spacious THEN Append(events[t], IF noteOns = 0 THEN Rest ELSE Tie)
       ELSE events[t]]
  /\ UNCHANGED <<mode, positionVars, transpose, entryVars, keys, dead>>

\* Button 2 (SEQ_NOTE_STEP): a rest, or a tie if a key is down.
Step ==
  LET tied(t)  == IF noteOns = 0 THEN 0
                   ELSE Cardinality({u \in Before(t) : SpaceAvail(u, addTies)})
      spacious == {t \in Recording : SpaceAvail(t, addTies + tied(t))}
  IN
  /\ Recording # {}
  /\ stepCount' = [t \in Tracks |-> IF t \in spacious THEN stepCount[t] + 1 ELSE stepCount[t]]
  /\ IF noteOns = 0
     THEN /\ events' = [t \in Tracks |->
               IF t \in spacious THEN Append(events[t], Rest) ELSE events[t]]
          /\ UNCHANGED addTies
     ELSE /\ addTies' = addTies + Cardinality(spacious)
          /\ UNCHANGED events
  /\ UNCHANGED <<mode, positionVars, transpose, noteOns, keys, dead>>

-----------------------------------------------------------------------------
TrackButton(t) ==
  \/ \E early \in SUBSET {t} : Start(t, early)
  \/ Wait(t)
  \/ Stop(t)
  \/ StartRecording(t)

Key(k) ==
  \/ \E early \in SUBSET Tracks : KeyPress(k, early)
  \/ KeyRelease(k)
  \/ KeyReleaseShifted(k)

Next ==
  /\ ~dead
  /\ \/ Update
     \/ MidiStart
     \/ MidiStop
     \/ Clear
     \/ Undo
     \/ Step
     \/ \E x \in Transposes : SetTranspose(x)
     \/ \E t \in Tracks : TrackButton(t)
     \/ \E k \in Keys : Key(k)

Spec == Init /\ [][Next]_vars

-----------------------------------------------------------------------------
(* Properties *)

\* Sequences stay well formed: "event is a continuation of previous event -
\* only used for notes" (seq.h). Playing one that is all continuations never
\* leaves the interrupt.
SequencesWellFormed == \A t \in Tracks : WellFormed(events[t])

\* The count the display shows is "the current length of the recorded sequence
\* including rests and ties" (seq.tex), through chords, ties and undo.
StepsCounted == \A t \in Recording : stepCount[t] = Steps(events[t]) + addTies

\* There is always space for the pending ties: "We know there's space for
\* these, as spaceAvail() during note entry takes it into account" (seq.c).
TiesFit == \A t \in Recording : Len(events[t]) + addTies <= MaxEvents

\* What a track sounds is what finishPreviousNotes will turn off, at the pitch
\* it was played at, whatever rests, ties, transpositions and resets come
\* between; a track that is not playing sounds nothing.
NothingLeftOn ==
  \A t \in Tracks :
    sounding[t] \subseteq (IF mode[t] = "playing" /\ ~Endless(events[t]) THEN Finished(t, prevEventIndex[t]) ELSE {})

=============================================================================
