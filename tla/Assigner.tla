------------------------------ MODULE Assigner ------------------------------
(***************************************************************************)
(* The voice assigner (common/assigner.c) with the part of the envelopes   *)
(* and of synth.c that it lives on: which voice plays which key, stealing, *)
(* restoring stolen notes, unison and chord memory, the hold pedal.        *)
(*                                                                         *)
(* Everything that calls the assigner runs in the timer interrupt, one     *)
(* handler at a time, except refreshFullState, which the main loop also    *)
(* calls with interrupts enabled (a data pot or the preset dial moved):    *)
(* its steps are the Main... actions, one for every read and every write   *)
(* of what a handler uses too, and handlers run between them. (The four    *)
(* bytes of a timestamp are written together.)                             *)
(* Velocity and CVs are left out.                                          *)
(***************************************************************************)
EXTENDS Integers, FiniteSets, Sequences

CONSTANTS
  N,         \* SYNTH_VOICE_COUNT
  Notes,     \* the MIDI notes the callers play
  Presets,   \* [mono, pattern, priority] of the presets that can be loaded
  Masks,     \* values settings.voiceMask can take, as sets of enabled voices
  Stimuli,   \* optional events: "unison", "mask", "soundoff", "hold", "main"
  MaxTick    \* bound of the model on currentTick

Voices     == 0 .. N - 1
Priorities == {"last", "low", "high"}
NoNote     == 255                       \* ASSIGNER_NO_NOTE

\* A pattern ends where ASSIGNER_NO_NOTE stands; the root has offset 0.
IsOffsets(p) == p \in Seq(0 .. NoNote - 1) /\ Len(p) \in 0 .. N
IsPattern(p) == p \in Seq(0 .. NoNote - 1) /\ Len(p) \in 1 .. N /\ p[1] = 0
IsPreset(p)  == /\ p = [mono |-> p.mono, pattern |-> p.pattern, priority |-> p.priority]
                /\ p.mono \in BOOLEAN
                /\ IsOffsets(p.pattern)
                /\ p.priority \in Priorities

\* The pattern refreshAssignerSettings hands over: the preset's in unison,
\* else the one of setPoly.
PatternOf(mode, p) == IF mode THEN p.pattern ELSE <<0>>

ASSUME NAssumption       == N \in Nat \ {0}
ASSUME NotesAssumption   == Notes \subseteq 0 .. 127
ASSUME MasksAssumption   == Masks \subseteq SUBSET Voices
ASSUME PresetsAssumption == \A p \in Presets : IsPreset(p)
ASSUME TickAssumption    == MaxTick \in Nat

VARIABLES
  noteStates,      \* keys that are down, as the assigner believes
  allocation,      \* what each voice plays
  patternOffsets,  \* notes a key plays, relative to it, up to the first
                   \* ASSIGNER_NO_NOTE (what lies beyond is not told apart)
  priority, voiceMask, mono, hold,
  currentPreset,   \* the settings of the assigner in the current preset
  currentTick,
  ampEnv,          \* amplifier envelope: "wait", "on" (attack to sustain), "release"
  mainRefresh,     \* what refreshAssignerSettings has left to do in the main loop
  hung             \* the loop over disabled voices never ends

vars == <<noteStates, allocation, patternOffsets, priority, voiceMask, mono,
          hold, currentPreset, currentTick, ampEnv, mainRefresh, hung>>
settingVars == <<patternOffsets, priority, voiceMask, mono, currentPreset>>

Allocation == [timestamp : 0 .. MaxTick, rootNote : 0 .. 255, note : 0 .. 255,
               assigned : BOOLEAN, gated : BOOLEAN, keyPressed : BOOLEAN]
InitPreset == [mono |-> FALSE, pattern |-> <<>>, priority |-> "last"]

\* Where the main loop is in refreshAssignerSettings, the mode and priority it
\* has read, and how far its loop has come.
MainIdle == [pc |-> "idle", mono |-> FALSE, priority |-> "last", at |-> 0]
MainPCs  == {"idle", "mode", "pattern", "switch", "clear", "write mode", "erase", "copy",
             "root", "fill", "read priority", "priority", "clear all", "keys", "write"}

\* The places where a handler may find the pattern half written.
Rewriting == mainRefresh.pc \in {"erase", "copy", "root", "fill"}

\* voicesDone clears this many fields of each voice, one after the other.
DoneFields == 5
DoneWrites == DoneFields * N

MainOK ==
  /\ mainRefresh \in [pc : MainPCs, mono : BOOLEAN, priority : Priorities, at : Nat]
  /\ mainRefresh.pc \in {"clear", "clear all"} => mainRefresh.at < DoneWrites
  /\ mainRefresh.pc \in {"erase", "fill"} => mainRefresh.at \in 1 .. N
  /\ mainRefresh.pc = "copy" => mainRefresh.at \in 1 .. N + 1

\* The pattern has a root, of offset 0, but for that.
PatternOK ==
  /\ IsOffsets(patternOffsets)
  /\ ~Rewriting \/ (mainRefresh.pc = "fill" /\ mainRefresh.at > 1) => IsPattern(patternOffsets)
  /\ mainRefresh.pc = "root" \/ (mainRefresh.pc = "copy" /\ mainRefresh.at > 1)
       => patternOffsets # <<>>

TypeOK ==
  /\ noteStates \subseteq Notes
  /\ allocation \in [Voices -> Allocation]
  /\ priority \in Priorities
  /\ voiceMask \subseteq Voices
  /\ mono \in BOOLEAN /\ hold \in BOOLEAN /\ hung \in BOOLEAN
  /\ currentTick \in 0 .. MaxTick
  /\ ampEnv \in [Voices -> {"wait", "on", "release"}]
  /\ IsPreset(currentPreset)
  /\ MainOK /\ PatternOK

Init ==
  /\ noteStates = {}
  /\ allocation = [v \in Voices |->
       [timestamp |-> 0, rootNote |-> 0, note |-> 0,
        assigned |-> FALSE, gated |-> FALSE, keyPressed |-> FALSE]]
  /\ patternOffsets = <<0>>
  /\ priority = "last"
  /\ voiceMask = Voices
  /\ mono = FALSE /\ hold = FALSE /\ hung = FALSE
  /\ currentPreset = InitPreset
  /\ currentTick = 0
  /\ ampEnv = [v \in Voices |-> "wait"]
  /\ mainRefresh = MainIdle

-----------------------------------------------------------------------------
(* Choosing a voice *)

First(S) == CHOOSE v \in S : \A w \in S : v <= w

\* Lowest numbered voice among those of S with the oldest timestamp.
Oldest(S) ==
  First({v \in S : \A w \in S : allocation[v].timestamp <= allocation[w].timestamp})

\* Mutant: a free voice is taken whether it is enabled or not.
AvailableVoicesUnmasked(note, cycle) ==
  LET free == {v \in Voices : ~allocation[v].assigned}
  IN  IF free = {} THEN {} ELSE {IF cycle THEN Oldest(free) ELSE First(free)}

\* The enabled voice that best fits `note`, if any; `cycle` is spAssign.
AvailableVoices(note, cycle) ==
  LET same == {v \in voiceMask : /\ allocation[v].assigned
                                 /\ allocation[v].timestamp < currentTick
                                 /\ allocation[v].note = note}
      free == {v \in voiceMask : ~allocation[v].assigned}
  IN  IF same # {} THEN {First(same)}
      ELSE IF free = {} THEN {}
      ELSE {IF cycle THEN Oldest(free) ELSE First(free)}

\* Mutant: the priority rules come first, released voices or not.
DispensableVoicesByPriority(note, held) ==
  LET higher == {v \in voiceMask : allocation[v].note > note}
  IN  IF priority = "last" THEN IF voiceMask = {} THEN {} ELSE {Oldest(voiceMask)}
      ELSE IF higher = {} THEN {} ELSE {First(higher)}

\* The voice to steal for `note`: the oldest released one, else by priority.
\* `held` are the keys that are down.
DispensableVoices(note, held) ==
  LET released == {v \in voiceMask : allocation[v].rootNote \notin held}
      higher == {v \in voiceMask : allocation[v].note > note}
      lower  == {v \in voiceMask : allocation[v].note < note}
  IN  IF released # {} THEN {Oldest(released)}
      ELSE CASE priority = "last" ->
                  IF voiceMask = {} THEN {} ELSE {Oldest(voiceMask)}
             [] priority = "low" ->
                  IF higher = {} THEN {} ELSE
                  {First({v \in higher :
                          \A w \in higher : allocation[v].note >= allocation[w].note})}
             [] priority = "high" ->
                  IF lower = {} THEN {} ELSE
                  {First({v \in lower :
                          \A w \in lower : allocation[v].note <= allocation[w].note})}

\* In unison a key outside the priority is ignored.
Ignored(note, held) ==
  \/ priority = "low"  /\ \E n \in held : n < note
  \/ priority = "high" /\ \E n \in held : n > note

\* The voices a note-on of `note` starts on: at most one.
StartVoices(note, held, cycle) ==
  IF mono THEN IF Ignored(note, held) THEN {} ELSE {0}
  ELSE IF AvailableVoices(note, cycle) # {} THEN AvailableVoices(note, cycle)
  ELSE DispensableVoices(note, held)

\* How many voices, disabled or not, lie between v and the next turn of w.
Distance(v, w) == (w - v - 1) % N

\* Positions of the pattern that land on voice w when it starts on voice v:
\* the first goes to v even if v is disabled, the others to the enabled
\* voices after it, round and round.
StepsOn(pattern, v, w) ==
  {k \in 1 .. Len(pattern) :
     IF k = 1 THEN w = v
     ELSE /\ w \in voiceMask
          /\ (k - 2) % Cardinality(voiceMask)
               = Cardinality({u \in voiceMask : Distance(v, u) < Distance(v, w)})}

\* What a voice plays after getting those positions, the last one to stay.
Sounding(note, pattern, steps) ==
  LET last == CHOOSE k \in steps : \A j \in steps : j <= k
  IN  [timestamp |-> currentTick, rootNote |-> note,
       note |-> (note + pattern[last]) % 256,
       assigned |-> TRUE, gated |-> TRUE, keyPressed |-> TRUE]

\* reassign: the pattern of `note` from voice v on, the voices being as in
\* `alloc` and `env`. synth_assignerEvent retriggers the envelope unless
\* legato with the arpeggiator off. With every voice disabled the step to the
\* next one never ends.
PlayPattern(alloc, env, pattern, note, v, retrigger) ==
  IF voiceMask = {}
  THEN /\ hung' = TRUE
       /\ allocation' = alloc /\ ampEnv' = env
  ELSE /\ allocation' = [w \in Voices |->
            LET steps == StepsOn(pattern, v, w)
            IN  IF steps = {} THEN alloc[w] ELSE Sounding(note, pattern, steps)]
       /\ ampEnv' = [w \in Voices |->
            IF retrigger /\ StepsOn(pattern, v, w) # {} THEN "on" ELSE env[w]]
       /\ UNCHANGED hung

\* assignNote for a key that gets the voices `starts`: none or one of them.
Play(note, starts, retrigger) ==
  \/ /\ starts = {} \/ patternOffsets = <<>>
     /\ UNCHANGED <<allocation, ampEnv, hung>>
  \/ /\ patternOffsets # <<>>
     /\ \E v \in starts : PlayPattern(allocation, ampEnv, patternOffsets, note, v, retrigger)

\* A legato note, with other keys down in unison, leaves the envelopes alone
\* unless the arpeggiator runs.
Retriggers(mode, note, held, arpOn) ==
  arpOn \/ ~(mode /\ priority # "last" /\ held # {note})

\* The envelopes after the gates of the voices of `off` went down.
EnvGatedOff(off) == [v \in Voices |-> IF v \in off THEN "release" ELSE ampEnv[v]]

-----------------------------------------------------------------------------
(* Handlers *)

\* A key pressed while it is down, or twice in one tick.
Repeated(note) ==
  \/ note \in noteStates
  \/ \E v \in Voices : /\ allocation[v].assigned /\ allocation[v].rootNote = note
                      /\ allocation[v].timestamp = currentTick

NoteOn(note, cycle, arpOn) ==
  LET held == noteStates \cup {note} IN
  /\ Repeated(note) => "repeat" \in Stimuli
  /\ noteStates' = held
  /\ Play(note, StartVoices(note, held, cycle), Retriggers(mono, note, held, arpOn))
  /\ UNCHANGED <<settingVars, hold, currentTick, mainRefresh>>

\* Keys that are down and play on no voice: they were stolen or ignored.
Unplayed(held) ==
  {n \in held : \A v \in Voices : ~(allocation[v].assigned /\ allocation[v].rootNote = n)}

\* The note a release brings back.
Restored(missing) ==
  IF priority = "high" THEN CHOOSE n \in missing : \A m \in missing : m <= n
  ELSE First(missing)

KeyUp(a)        == [a EXCEPT !.keyPressed = FALSE]
KeyUpGateOff(a) == [a EXCEPT !.keyPressed = FALSE, !.gated = FALSE]

\* Voices a release of `note` turns off.
ReleasedBy(note) ==
  {v \in Voices : allocation[v].assigned /\ allocation[v].rootNote = note}

NoteOff(note, cycle, arpOn) ==
  LET held == noteStates \ {note}
      missing == Unplayed(held)
  IN
  /\ note \notin noteStates => "repeat" \in Stimuli
  /\ noteStates' = held
  /\ IF missing # {}
     THEN LET back == Restored(missing)
          IN  Play(back, StartVoices(back, held, cycle), arpOn)
     ELSE LET off == IF hold /\ ~mono THEN {} ELSE ReleasedBy(note) IN
          /\ allocation' = [v \in Voices |->
               IF v \in off THEN KeyUpGateOff(allocation[v])
               ELSE IF v \in ReleasedBy(note) THEN KeyUp(allocation[v])
               ELSE allocation[v]]
          /\ ampEnv' = EnvGatedOff(off)
          /\ UNCHANGED hung
  /\ UNCHANGED <<settingVars, hold, currentTick, mainRefresh>>

AllKeysOff ==
  LET off == {v \in voiceMask : allocation[v].gated} IN
  /\ allocation' = [v \in Voices |->
       IF v \in off THEN KeyUpGateOff(allocation[v]) ELSE allocation[v]]
  /\ ampEnv' = EnvGatedOff(off)
  /\ noteStates' = {}
  /\ hold' = FALSE
  /\ UNCHANGED <<settingVars, currentTick, mainRefresh, hung>>

\* Mutant: the test of the key is inverted.
PedalHeldDown(alloc) == {v \in voiceMask : alloc[v].gated /\ alloc[v].keyPressed}

\* assigner_holdEvent(0): the voices whose key is up are gated off.
PedalHeld(alloc) == {v \in voiceMask : alloc[v].gated /\ ~alloc[v].keyPressed}

PedalUp(alloc) ==
  [v \in Voices |-> IF v \in PedalHeld(alloc) THEN [alloc[v] EXCEPT !.gated = FALSE]
                    ELSE alloc[v]]

\* Mutant: the gate flags are cleared without the gate events.
HoldEventSilent(down) ==
  /\ "hold" \in Stimuli
  /\ ~currentPreset.mono
  /\ hold' = down
  /\ allocation' = IF down THEN allocation ELSE PedalUp(allocation)
  /\ UNCHANGED <<noteStates, settingVars, currentTick, mainRefresh, ampEnv, hung>>

\* The pedal or MIDI CC 64 while the preset is not in unison.
HoldEvent(down) ==
  /\ "hold" \in Stimuli
  /\ ~currentPreset.mono
  /\ hold' = down
  /\ IF down THEN UNCHANGED <<allocation, ampEnv>>
     ELSE /\ allocation' = PedalUp(allocation)
          /\ ampEnv' = EnvGatedOff(PedalHeld(allocation))
  /\ UNCHANGED <<noteStates, settingVars, currentTick, mainRefresh, hung>>

VoiceDone(a) == [a EXCEPT !.assigned = FALSE, !.keyPressed = FALSE,
                          !.note = NoNote, !.rootNote = NoNote]
DoneAll(alloc) == [v \in Voices |-> [VoiceDone(alloc[v]) EXCEPT !.timestamp = 0]]
VoicesDone == DoneAll(allocation)

\* MIDI CC 120, all sound off.
AllSoundOff ==
  /\ "soundoff" \in Stimuli
  /\ allocation' = [v \in Voices |-> VoiceDone(allocation[v])]
  /\ UNCHANGED <<noteStates, settingVars, hold, currentTick, ampEnv, mainRefresh, hung>>

\* Switching to local off.
AllVoicesDone ==
  /\ "soundoff" \in Stimuli
  /\ allocation' = VoicesDone
  /\ noteStates' = {}
  /\ UNCHANGED <<settingVars, hold, currentTick, ampEnv, mainRefresh, hung>>

\* setPattern: the root note always has offset 0; no pattern means unison.
Normalised(p) == IF p = <<>> THEN [k \in 1 .. N |-> 0] ELSE [p EXCEPT ![1] = 0]

NewPattern(p) ==
  IF p.mono = mono /\ PatternOf(p.mono, p) = patternOffsets THEN patternOffsets
  ELSE Normalised(PatternOf(p.mono, p))

\* refreshAssignerSettings in the interrupt, after a preset load or a switch:
\* setPattern (which clears the voices when unison changes), setVoiceMask and
\* setPriority (which clear the voices and the keys when they change).
RefreshSettings(p, mask) ==
  LET clearKeys == mask # voiceMask \/ p.priority # priority IN
  /\ mask = voiceMask \/ "mask" \in Stimuli
  /\ allocation' = IF clearKeys \/ p.mono # mono THEN VoicesDone ELSE allocation
  /\ noteStates' = IF clearKeys THEN {} ELSE noteStates
  /\ mono' = p.mono /\ patternOffsets' = NewPattern(p)
  /\ voiceMask' = mask /\ priority' = p.priority
  /\ currentPreset' = p
  /\ UNCHANGED <<hold, currentTick, ampEnv, mainRefresh, hung>>

\* keys lists the lowest keys that are down from the lowest, at most N.
AreLowestKeys(keys) ==
  /\ \A i, j \in DOMAIN keys : i < j => keys[i] < keys[j]
  /\ \A n \in noteStates : \/ \E i \in DOMAIN keys : keys[i] = n
                           \/ Len(keys) = N /\ keys[N] < n

KeyLists == UNION {[1 .. k -> noteStates] : k \in 0 .. N}

\* The pattern latchPattern hands over: the lowest key, the others' offsets.
LatchedPattern(keys) ==
  [k \in 1 .. Len(keys) |-> IF k = 1 THEN keys[1] ELSE keys[k] - keys[1]]

\* The unison switch: chord memory. refreshPresetButton has already applied
\* the preset with unison on, and its priority if the main loop has not got to
\* it yet, when latchPattern(0) runs.
UnisonOn ==
  LET clearKeys == currentPreset.priority # priority
      before == IF mono /\ ~clearKeys THEN allocation ELSE VoicesDone
  IN
  /\ "unison" \in Stimuli
  /\ noteStates' = IF clearKeys THEN {} ELSE noteStates
  /\ \E keys \in KeyLists : /\ IF clearKeys THEN keys = <<>> ELSE AreLowestKeys(keys)
                            /\ patternOffsets' = Normalised(LatchedPattern(keys))
  /\ currentPreset' = [currentPreset EXCEPT !.mono = TRUE, !.pattern = patternOffsets']
  /\ mono' = TRUE
  /\ priority' = currentPreset.priority
  /\ hold' = FALSE
  /\ allocation' = PedalUp(before)
  /\ ampEnv' = EnvGatedOff(PedalHeld(before))
  /\ UNCHANGED <<voiceMask, currentTick, mainRefresh, hung>>

\* The foot switch in unison, latchPattern(1): the pattern is taken from the
\* keys that are down, the lowest of them plays it, and the preset keeps it.
\* (The preset is in unison; the assigner may not be yet.)
FootLatch(arpOn) ==
  LET lowest == First(noteStates)
      starts == IF Ignored(lowest, noteStates) THEN {} ELSE {0}
      env    == EnvGatedOff(PedalHeld(allocation))
      before == IF mono THEN PedalUp(allocation) ELSE DoneAll(PedalUp(allocation))
  IN
  /\ "unison" \in Stimuli
  /\ currentPreset.mono
  /\ hold' = FALSE
  /\ mono' = TRUE
  /\ \E keys \in KeyLists :
       /\ AreLowestKeys(keys)
       /\ patternOffsets' = Normalised(LatchedPattern(keys))
       /\ \/ /\ noteStates = {} \/ starts = {}
             /\ allocation' = before /\ ampEnv' = env
             /\ UNCHANGED hung
          \/ /\ noteStates # {}
             /\ \E v \in starts : PlayPattern(before, env,
                                            Normalised(LatchedPattern(keys)), lowest, v,
                                            Retriggers(TRUE, lowest, noteStates, arpOn))
  /\ currentPreset' = [currentPreset EXCEPT !.pattern = patternOffsets']
  /\ UNCHANGED <<noteStates, priority, voiceMask, currentTick, mainRefresh>>

UnisonOff ==
  /\ "unison" \in Stimuli
  /\ RefreshSettings([currentPreset EXCEPT !.mono = FALSE, !.pattern = <<0>>], voiceMask)

\* Mutant: only the voices that are free already are looked after.
HandleUnassignedVoices ==
  /\ ampEnv' = [v \in Voices |-> IF allocation[v].assigned THEN ampEnv[v] ELSE "wait"]
  /\ UNCHANGED <<allocation, noteStates, settingVars, hold, currentTick, mainRefresh, hung>>

\* 63 Hz: a voice whose envelope ended is free, one that is free is silenced.
HandleFinishedVoices ==
  /\ allocation' = [v \in Voices |->
       IF allocation[v].assigned /\ ampEnv[v] = "wait"
       THEN VoiceDone(allocation[v]) ELSE allocation[v]]
  /\ ampEnv' = [v \in Voices |-> IF allocation[v].assigned THEN ampEnv[v] ELSE "wait"]
  /\ UNCHANGED <<noteStates, settingVars, hold, currentTick, mainRefresh, hung>>

EnvelopeEnds(v) ==
  /\ ampEnv[v] = "release"
  /\ ampEnv' = [ampEnv EXCEPT ![v] = "wait"]
  /\ UNCHANGED <<noteStates, allocation, settingVars, hold, currentTick, mainRefresh, hung>>

Tick ==
  /\ currentTick < MaxTick
  /\ currentTick' = currentTick + 1
  /\ UNCHANGED <<noteStates, allocation, settingVars, hold, ampEnv, mainRefresh, hung>>

-----------------------------------------------------------------------------
(* refreshAssignerSettings in the main loop, preempted between its steps    *)

\* The rest of mainRefresh stays.
MainAt(pc, at) == [mainRefresh EXCEPT !.pc = pc, !.at = at]

\* The dial has loaded p, or a pot moved; spUnison is read.
MainRefresh(p) ==
  /\ "main" \in Stimuli
  /\ mainRefresh.pc = "idle"
  /\ currentPreset' = p
  /\ mainRefresh' = [MainIdle EXCEPT !.pc = "mode", !.mono = p.mono]
  /\ UNCHANGED <<noteStates, allocation, patternOffsets, priority, voiceMask, mono, hold,
                 currentTick, ampEnv, hung>>

\* What setPattern and setPriority compare and read before they write.
MainCompare ==
  /\ \/ /\ mainRefresh.pc = "mode"
        /\ mainRefresh' = MainAt(IF mainRefresh.mono = mono THEN "pattern" ELSE "switch", 0)
     \/ /\ mainRefresh.pc = "pattern"
        /\ mainRefresh' = MainAt(IF PatternOf(mainRefresh.mono, currentPreset) = patternOffsets
                                 THEN "read priority" ELSE "switch", 0)
     \/ /\ mainRefresh.pc = "switch"
        /\ mainRefresh' = MainAt(IF mainRefresh.mono = mono THEN "write mode" ELSE "clear", 0)
     \/ /\ mainRefresh.pc = "read priority"
        /\ mainRefresh' = [MainAt("priority", 0) EXCEPT !.priority = currentPreset.priority]
     \/ /\ mainRefresh.pc = "priority"
        /\ mainRefresh' = IF mainRefresh.priority = priority THEN MainIdle
                          ELSE MainAt("clear all", 0)
  /\ UNCHANGED <<noteStates, allocation, settingVars, hold, currentTick, ampEnv, hung>>

\* One field of a voice as voicesDone clears it.
FieldDone(a, field) ==
  CASE field = 0 -> [a EXCEPT !.assigned = FALSE]
    [] field = 1 -> [a EXCEPT !.keyPressed = FALSE]
    [] field = 2 -> [a EXCEPT !.note = NoNote]
    [] field = 3 -> [a EXCEPT !.rootNote = NoNote]
    [] field = 4 -> [a EXCEPT !.timestamp = 0]

\* voicesDone, field by field and voice by voice; called by setPattern it
\* leaves the keys alone, called by setPriority it goes on to them.
MainVoicesDone ==
  /\ mainRefresh.pc \in {"clear", "clear all"}
  /\ allocation' = [allocation EXCEPT ![mainRefresh.at \div DoneFields] =
                      FieldDone(@, mainRefresh.at % DoneFields)]
  /\ mainRefresh' = IF mainRefresh.at + 1 < DoneWrites
                    THEN MainAt(mainRefresh.pc, mainRefresh.at + 1)
                    ELSE MainAt(IF mainRefresh.pc = "clear" THEN "write mode" ELSE "keys", 0)
  /\ UNCHANGED <<noteStates, settingVars, hold, currentTick, ampEnv, hung>>

MainWriteMode ==
  /\ mainRefresh.pc = "write mode"
  /\ mono' = mainRefresh.mono
  /\ mainRefresh' = MainAt("erase", 1)
  /\ UNCHANGED <<noteStates, allocation, patternOffsets, priority, voiceMask, hold,
                 currentPreset, currentTick, ampEnv, hung>>

\* The pattern with offset k written: beyond the end nobody sees it.
Written(k, offset) ==
  IF k <= Len(patternOffsets) THEN [patternOffsets EXCEPT ![k] = offset]
  ELSE IF k = Len(patternOffsets) + 1 THEN Append(patternOffsets, offset)
  ELSE patternOffsets

\* setPattern's writes: the pattern is erased, copied up to its end from the
\* preset (a handler may load another meanwhile), and its root zeroed; if it
\* was empty, all offsets are.
MainWritePattern ==
  LET k == mainRefresh.at
      pattern == PatternOf(mainRefresh.mono, currentPreset)
  IN
  /\ \/ /\ mainRefresh.pc = "erase"
        /\ patternOffsets' = IF k <= Len(patternOffsets) THEN SubSeq(patternOffsets, 1, k - 1)
                             ELSE patternOffsets
        /\ mainRefresh' = IF k < N THEN MainAt("erase", k + 1) ELSE MainAt("copy", 1)
     \/ /\ mainRefresh.pc = "copy" /\ k <= N /\ k <= Len(pattern)
        /\ patternOffsets' = Written(k, pattern[k])
        /\ mainRefresh' = MainAt("copy", k + 1)
     \/ /\ mainRefresh.pc = "copy" /\ ~(k <= N /\ k <= Len(pattern))
        /\ mainRefresh' = IF k > 1 THEN MainAt("root", 0) ELSE MainAt("fill", 1)
        /\ UNCHANGED patternOffsets
     \/ /\ mainRefresh.pc = "root"
        /\ patternOffsets' = [patternOffsets EXCEPT ![1] = 0]
        /\ mainRefresh' = MainAt("read priority", 0)
     \/ /\ mainRefresh.pc = "fill"
        /\ patternOffsets' = Written(k, 0)
        /\ mainRefresh' = IF k < N THEN MainAt("fill", k + 1) ELSE MainAt("read priority", 0)
  /\ UNCHANGED <<noteStates, allocation, priority, voiceMask, mono, hold, currentPreset,
                 currentTick, ampEnv, hung>>

\* The memset of voicesDone(1) over the keys, eight to a byte.
MainClearKeys ==
  LET left == {n \div 8 : n \in Notes} \ 0 .. mainRefresh.at - 1 IN
  /\ mainRefresh.pc = "keys"
  /\ noteStates' = IF left = {} THEN noteStates
                   ELSE {n \in noteStates : n \div 8 # First(left)}
  /\ mainRefresh' = IF left = {} THEN MainAt("write", 0) ELSE MainAt("keys", First(left) + 1)
  /\ UNCHANGED <<allocation, settingVars, hold, currentTick, ampEnv, hung>>

MainWritePriority ==
  /\ mainRefresh.pc = "write"
  /\ priority' = mainRefresh.priority
  /\ mainRefresh' = MainIdle
  /\ UNCHANGED <<noteStates, allocation, patternOffsets, voiceMask, mono, hold, currentPreset,
                 currentTick, ampEnv, hung>>

-----------------------------------------------------------------------------
Key(note) ==
  \E cycle, arpOn \in BOOLEAN : NoteOn(note, cycle, arpOn) \/ NoteOff(note, cycle, arpOn)

Preset(p) ==
  \/ \E mask \in Masks : RefreshSettings(p, mask)
  \/ MainRefresh(p)

Controls == AllKeysOff \/ AllSoundOff \/ AllVoicesDone \/ UnisonOn \/ UnisonOff
            \/ \E down \in BOOLEAN : HoldEvent(down)
            \/ \E arpOn \in BOOLEAN : FootLatch(arpOn)

Main == MainCompare \/ MainVoicesDone \/ MainWriteMode \/ MainWritePattern \/ MainClearKeys
        \/ MainWritePriority

Next ==
  /\ ~hung
  /\ \/ \E note \in Notes : Key(note)
     \/ \E p \in Presets : Preset(p)
     \/ Controls
     \/ Main
     \/ HandleFinishedVoices
     \/ \E v \in Voices : EnvelopeEnds(v)
     \/ Tick

Spec == Init /\ [][Next]_vars

\* The envelopes and handleFinishedVoices run at a fixed rate in the timer
\* interrupt. Nothing obliges a key, a control or the main loop to act.
Fairness ==
  /\ WF_vars(~hung /\ HandleFinishedVoices)
  /\ \A v \in Voices : WF_vars(~hung /\ EnvelopeEnds(v))

FairSpec == Spec /\ Fairness

-----------------------------------------------------------------------------
(* Properties *)

\* No drone: a voice whose envelope is held up by its gate is one that some
\* key, pedal or switch can still gate off. assignNote, allKeysOff and
\* holdEvent each clear .gated and send the gate event on their own paths.
NoDrone ==
  \A v \in Voices : allocation[v].assigned /\ ampEnv[v] = "on" => allocation[v].gated

\* A disabled voice plays nothing, but for voice 0 in unison, which
\* assignNote starts on without looking at the mask. (A key pressed while the
\* main loop is in voicesDone(0) or before the new mode can leave it playing.)
MaskRespected ==
  \A v \in Voices : allocation[v].assigned =>
    v \in voiceMask \/ (v = 0 /\ (mono \/ "main" \in Stimuli))

\* No stuck note: with the pedal up, a voice is gated only while its key is
\* down, through every stealing and restoring of assignNote.
NoStuckNote ==
  ~hold => \A v \in Voices :
    allocation[v].assigned /\ allocation[v].gated
      => allocation[v].keyPressed /\ allocation[v].rootNote \in noteStates

\* A key that is down is silent only if every enabled voice plays a key that
\* is down: a release gives its voice to a stolen note.
NoStarvedKey ==
  Unplayed(noteStates) # {} =>
    \A v \in voiceMask : allocation[v].assigned /\ allocation[v].rootNote \in noteStates

\* A voice whose gate is off comes back to the pool (or is played again):
\* handleFinishedVoices sees the end of the envelope that the gate started.
ReleasedVoiceFreed ==
  \A v \in Voices :
    (allocation[v].assigned /\ ~allocation[v].gated)
      ~> (~allocation[v].assigned \/ allocation[v].gated)

=============================================================================
