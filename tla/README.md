# A TLA+ development of the Prophet-600 firmware (p600fw)

This directory models the control logic of the firmware in `common/`, `firmware/` and
`xnormidi/`: which voice plays which key, the sequencer, the arpeggiator, MIDI in both
directions, presets and settings, keys and the ways they take, wheels and pots, the clock, the
scanner and the tuner. TLC checks small instances; TLAPS proves the properties named below for every
value of the constants. Signal computation (envelope levels, LFOs, control voltages) is
left out: it is numeric and has no control flow between actors.

## 1. Inventory

### Contexts of execution

| context | rate | calls | may be preempted by |
|---|---|---|---|
| main loop, `synth_update` | free running | pots, data dial, wheels, `refreshFullState`, MIDI out of wheels and program changes, `midi_update` through a full queue | both interrupts, between any two statements outside `BLOCK_INT` |
| timer interrupt, `synth_timerInterrupt` | 2 kHz, four phases of 500 Hz | finished voices and MIDI (phase 0), clock beats (1), LFO (2), keys, buttons and display (3), footswitch (all) | the UART interrupt (interrupts are enabled inside it); never by itself |
| UART interrupt, `uart_update` | per received byte | `midi_newData`: puts the byte in the input queue | nothing |

Nearly everything that changes musical state runs in the timer interrupt, one handler at a
time. The concurrency that matters is therefore (a) main loop against timer interrupt, for
the assigner's settings, the patch that plays, the pots, the clock's speed and the send queue, and (b) timer against UART interrupt, for the
input queue. The rest of the difficulty is *sequences*: long orders of legal key, button,
pedal and clock events after which a note is stuck, lost or doubled.

### Components

| component | source | state | operations | what makes it correct | module |
|---|---|---|---|---|---|
| voice assigner | `assigner.c` | key bits, allocation per voice, pattern, priority, mask, mono, hold | `assignNote`, `voiceDone`, `allKeysOff`, `setPriority`, `setVoiceMask`, `setPattern`, `latchPattern`, `setPoly`, `holdEvent` | no stuck note, no starved key, gate flags agree with envelopes, masked voices silent, voices come back | `Assigner` |
| amplifier envelopes | `adsr.c` | stage | `setGate`, `reset`, end of release | (part of the assigner's) | `Assigner` |
| sequencer | `seq.c` | mode, events, positions, step count per track; pending ties, keys counted, transposition | `setMode`, `inputNote` (notes, rest/tie, undo, clear), `update`, `silence`, `resetCounter` | sequences stay well formed, every note off sent, count and memory exact | `Seq` |
| arpeggiator | `arp.c` | 128 places, positions, last note, latch, mode | `setMode`, `assignNote`, `update`, `resetCounter` | one note at a time, notes belong to keys or latch, each note gets its turn | `Arp` |
| byte queue | `bytequeue.c` | circular array | enqueue, length, get, remove | first in, first out, at every position | `ByteQueue` |
| MIDI reception | `midi_device.c`, `midi.c` | queue, parser state, `tempBuffer` for system exclusive messages, which dumps and the display use as well | `newData`, `process`, callbacks | each message delivered once, in order, and whole unless its buffer was used meanwhile | `MidiIn`, `MidiChannel` |
| MIDI transmission | `common/midi.c`, `uart_6850.c` | send queue | `sendEnqueue`, `midi_update` | whole messages on the line | `MidiOut` |
| keys, transposition, local off | `synth.c`, `ui.c`, `midi.c` | shift and its lock, transposition, local mode, key bits | `synth_keyEvent` from the keyboard and MIDI in, FROM TAPE, local by button and by MIDI, all notes off | a release reaches what its press reached; nothing feeds back | `Keys`, on `Arpeggio` |
| wheels and pedal | `synth.c`, `midi.c`, `ui.c` | amounts, hold, wheel sent last, tuning of a note | `synth_wheelEvent`, `synth_holdEvent`, local off, unison | hold has a cause, the wheel acts once in both local modes | `Performance` |
| scanner | `scanner.c` | per contact: reported state and timeout | `scanner_update` at two rates | one event per move of a key, none missed | `Scanner` |
| panel | `ui.c` | digit entry, preset / store / patch management modes | `ui_handleButton`, data dial | what is shown, selected and stored agree | `Presets` (the buttons of the other components are actions of theirs) |
| storage | `storage.c`, `iic_24lc512.c`, `p600firmware.c` | pages of settings, presets, sequences; versions | load, save, import, export | what comes back is what was stored; settings span two pages, and a power cut must not mix two saves | `Presets` (`Seq` has the sequence pages) |
| patches over MIDI | `midi.c`, `import.c` | gathered message | program and bank change, control changes, import, dump | the selected preset plays as stored | `Presets` |
| clock | `clock.c`, `synth.c` | counter, speed, pending external clocks, place in the bar | `update`, `reset`, `setSpeed`, MIDI START and clocks, tape edges | beats stay in step with START and the clocks, the LFO with the beats; the internal clock never stops | `Clock` |
| tuner | `tuner.c` | voltage of each octave, search, timeouts | tuning, scaling adjustment | ends whatever the hardware does, and what is healthy is in tune | `Tuner`; with the scanner that starts it, `TuneButton` |
| pots | `potmux.c`, `synth.c`, `ui.c` | readings, change detectors, last pot | `potmux_update`, `refreshPresetPots`, `ui_setNoActivePot` | parameters end up where their pots do | `Pots` |
| sound engine, display, conversion tools, USB debug | `synth.c`, `lfo.c`, `sh.c`, `display.c`, `syxmgmt/`, `fw2syx/`, ... | | | numeric, output only, offline or third-party | not modelled |

`PROJECT.json` lists these with their status, and every hazard of the code that testing
would hardly reach, each at its line with the properties aimed at it.

## 2. Plan

1. Assigner with envelopes and the main loop's preemption; its invariants proved. *Done.*
2. Sequencer and arpeggiator. *Done; their invariants are proved, and that the arpeggiator
   implements the abstract one.*
3. Byte queue, MIDI reception as a refinement of a channel, MIDI transmission. *Done; the
   queue's operators and the refinement of the channel proved.*
4. Presets, settings and storage: live and preset mode, store and recall, imports, a power cut
   between page writes, the data dial in the main loop against buttons and program changes in
   the interrupt. *Done and proved; formats of old versions and per-note tunings left.*
5. Keys with shift, transposition, local off and the arpeggiator, MIDI out played back to MIDI
   in, then wheels and pedal over them. *Done and proved, but for the bender.*
6. Clock, scanner, tuner, pots; scanner and tuner composed. *Done; the scanner's events, their
   survival around tunings, the beats and the tunings proved.*
7. `NoStuckNote` in unison; what reception keeps when bytes are lost; transmission. *Done.*

How the modules hang together:

    Arpeggio  <-- implemented by --  Arp
       ^---- instantiated by ------  Keys   <-- extended by --  Performance
    MidiChannel <-- implemented by - MidiIn --- extends --> ByteQueue <-- extends --- MidiOut
    Scanner, Tuner <-- extended by - TuneButton   (implements Scanner)

`Assigner`, `Seq`, `Clock`, `Pots` and `Presets` meet every sequence of calls their callers can make.

## 3. Modules and their correspondence to the code

**Assigner** (`MCAssigner` instantiates it). One action per
call that reaches `assigner.c` in the interrupt: `NoteOn`/`NoteOff` are the two halves of
`assigner_assignNote`, `HandleFinishedVoices` the 63 Hz scan of `synth.c`, `RefreshSettings` is
`refreshAssignerSettings` with its three setters, `UnisonOn`/`UnisonOff`/`FootLatch` the unison
switch and the foot switch with all the calls they make. The same
`refreshAssignerSettings` called from the main loop is cut at each read and write of what a handler uses too,
and `mainRefresh` says where it is: `MainRefresh` reads the preset's mode, `MainCompare` is what `setPattern` and
`setPriority` compare first, `MainVoicesDone` clears one field of one voice, `MainWriteMode`, `MainWritePattern` erases, copies
or fills in one offset, `MainClearKeys` clears eight key bits (a byte), `MainWritePriority`. The order of writes is the source's; the four bytes of a
timestamp are written together, and what stands in the pattern beyond its end is not told apart. `currentPreset` is what
both sides read the settings from. The loop that
places a pattern on voices is a function of the pattern position (`StepsOn`) instead of a loop.
With all voices masked that loop never ends; the model then sets `hung` and stops. Envelopes
have three states: waiting, gate up (attack to sustain), releasing. Timestamps are kept,
velocities and CVs are not.

**Seq** (`MCSeq`). Both tracks with shared `noteOns`, `addTies` and transposition. The events
of a track are a sequence of notes (six bits and the continuation bit), rests and ties.
`PlaySteps` is `playStep` for a set of tracks, used by a beat (`Update`) and by tracks started in
the first half of a beat. A track that is off keeps in `events` what storage holds. `dead`
records that an endless loop or a write past the track was entered. `sounding` is the history of
note-ons and offs sent. Stored sequences are well formed (`Stored`).

**Arp**. The note memory with the two places a key has in up/down, the latch flag being bit 7
of a place (an empty place carries it as well, as 255 does). `Update` chooses the place that the
`do ... while` of each pattern stops at.
`sounding` again is the history of what was sent. **Arpeggio** is the abstract arpeggiator: sets of
held and latched notes, the pitch played last and what sounds; no places, flags or order. The
mapping (`Arpeggiates`) reads the sets off the memory by the latch flag, and the last pitch off
`previousNote` and `previousTranspose`. A press may find the memory full, so it may be lost;
a latched note pressed again is one note or two.

**ByteQueue** has no state: operators on the structure `byteQueue_t`, instantiated by two
modules that extend it.

**MidiIn** (`MCMidiIn`). `NewData`/`NewRealtime` are the UART interrupt; `Process`,
`ProcessByte`, `RemoveByte` are the steps of `midi_device_process` between which it may come.
`ProcessByte` is `midi_process_byte` with the callback it makes, including `midi_sysexEvent` and
`sysexReceiveByte`. The sender (`Begin`) is external: it may omit the status byte when running status
allows, cut a channel message off with a new one, or put realtime bytes anywhere. What it sends is MIDI as
far as the synthesizer knows it (`IsMidi`, an assumption about `Messages`): each message has the length of its
status byte, its data bytes are data, and a system exclusive message fits the buffer.
`BufferUsed` is what else `tempBuffer` serves in the timer interrupt, between two calls of the parser: it leaves one of `Scratch` there,
anything in the theorems. `used` and `spoilt` are histories: whether that has happened since the message under way began, and
which of the messages received were gathered in a buffer it happened to.
`MidiChannel` is the abstract specification: messages arrive once, in order, unchanged, and in
the end they do. `MessagesArrive` is its `Spec` with `received` mapped to `Heard`, which has the spoilt messages as they were
sent: they have to come in their place, but what is in them is left open.

**MidiOut** (`MCMidiOut`). The main loop's `sendEnqueue` and the `midi_update` it calls with a
full queue, one action per queue operation; the timer interrupt whole.

**Presets** (`MCPresets`). A patch is a setting of the panel's controls and one of the additional
parameters; `panel` is where the controls stand, `sound` what plays (`currentPreset`). `memory` maps
half pages of the EEPROM, its unit of writing, to what they hold: a preset's parameters fill the first
half of its page (the second holds the name), while the settings put their magic number in the first half
page, tunings in all three and the preset number and mode in the third. A handler hands its writes
to `Commit`, which makes them all or stops after some with the power off; `Boot` is `synth_init`. One action per
button (`EnterTens` and `EnterUnit` are the digits) and per MIDI message is a whole handler of the
timer interrupt, `RefreshPresetMode` being the function of that name. The main loop's dial
and pots are cut where the interrupt may come between their steps: `PotMoves`/`PotApplied`,
`ParameterEdited`/`Checked`/`Saved`/`Marked`, `DialTurned`/`Loaded`/`Selected`, with
`main.pc` between them. Choices stand for a pot's having met the patch's value, for whether a
track of the sequencer records, and for what is found on a page beyond the EEPROM. `live` is a history:
the additional parameters last set in live mode, or, where the code leaves that mode without a save
(bank select, dump of the bank, basic patch), those of the manual page. `SelectParameter` displays a parameter, for which the code sets
it to each value that has a name: one whose value has none (not in `Tabled`) is left with the last. `FootLatch` stores the
chord latched by the foot switch in the patch, `ChangeLayout` is the layout setting, which works the mixer, glide and drive
out anew; a later reading of one pot or switch does not put the rest right (`Read`). Two histories record what the code
does not: `unmarked`, that what plays in preset mode, or what is stored of it, changed without the dot, and `relaid`, that
the layout changed since the panel was read as a whole. The run's `VIEW` leaves the panel's part of the manual page out: live mode never takes it from there.

**Keys**. `KeyEvent` is `synth_keyEvent`, for keys here and at MIDI in: it transposes while shifted
(`Transposing`) or goes to the arpeggiator, the assigner and MIDI out (`Playing`) by what is switched on
now. Of the assigner only the key bits are kept (`noteStates`), the arpeggiator is `Arpeggio`, whose
notes enter the assigner in `ArpBeat`. FROM TAPE shifts and, clicked twice in a second, locks;
`LocalButton` and `LocalControl` are the two ways to local off, which free different things.
`loop` is chosen at the start: whatever is sent then comes back through MIDI in (`line`), before
fingers and the clock go on. `left` is a history: the bits of keys that were down when another key transposed. Their release
turns off another note, so they stay on.

**Performance** (`MCPerformance`) extends `Keys` by the modulation wheel and the foot switch with what changes their meaning:
local mode, arpeggiator, unison, the tuning of a note. `KeysOnly`, `EndHold` and `ChangeLocal` are the steps of
`Keys` with what they do to the hold and the wheel. `strayed` is a history: the last move of the wheel was not sent.

**Clock** (`MCClock`). `Count` is the 500 Hz phase with `clock_update` and the place in the bar. The main
loop writes the two bytes of the speed without a lock: `Seen` has the torn values an interrupt may find
when the counter is in `TornCounters`. `song` and `lfoBeats` are histories: clocks and beats since
MIDI START, beats since the LFO was reset. `Periods` and `Dividers` stand for the two tables of the setting.

**Scanner**. Contacts bounce for `MaxBounce` scans at most; `Scan` is `scanner_update` for the keys or
for keys and buttons. `reported` and `timeout` are the two parts of a byte of `scanner.state`.

**Tuner**. `Search`, `Adjust`, `GiveUp`, `NextCv` are `tuneOffset` and the loops around it, `Measure` one
`measureAudioPeriod`, of which the model keeps whether the period was too long and how many of its waits
timed out (oscillators in `Faulty` only). `Bits` are the halving steps of the search. Where the hardware reaches a pitch
is `Pitch`; `PitchAssumption` says of it what makes the instrument one that can be tuned. Interrupts are blocked meanwhile. `ScalingRound` and
`ScalingSelect` are the scaling adjustment. `missed` is a history of the timeouts.

**TuneButton** (`MCTuneButton`) composes the two: the scan that sees TUNE go down tunes before it returns
(`AllScanned`), no scan comes until that is done, and contacts bounce out unseen (`Unseen`, which is
`Settle` of `Scanner`).

**Pots**. One turn of the main loop: `ReadPot` for each pot that is due (`updatePot`, at its own rate),
`CheckLast`, `FollowPots` (`refreshPresetPots`), `ApplyLast` (the wheels in `synth_update`). What the interrupt does
to them when a button or a message selects or loads something is `SetNoActivePot` with the change of
the parameters it comes with, between two turns or (`Race`) anywhere. A reading is one step and exact.

**AssignerProofs**, **ArpProofs**, **SeqProofs**, **MidiInProofs** (of `ByteQueue` and `MidiOut` as well), **PresetsProofs**, **PerformanceProofs** (of
`Keys` and `Pots` as well), **TuneButtonProofs** (of `Scanner` and `Tuner` as well) and **ClockProofs** hold the proofs.

## 4. Runs

| run | shows | bounds and why they are enough |
|---|---|---|
| `assigner_poly` | `NoStuckNote`, `NoStarvedKey`, `ReleasedVoiceFreed` | 2 voices, 4 keys: two keys can be without a voice at once, so which one is restored matters; 3 timestamps order two voices and a newer note; all priorities; pedal |
| `assigner_unison` | `NoDrone`, `MaskRespected` | 2 voices, a key whose chord takes both, poly and unison with different priorities, masks with both voices, one and none, all sound off, the main loop preempted between any two reads or writes; that keys compete for voices is `assigner_poly`'s and the theorems' |
| `seq_play` | `SequencesWellFormed`, `NothingLeftOn` | memory of 3 events, a stored chord and rest, one recordable track, 2 keys, 2 transpositions: chords, ties over the end of the sequence and both tracks overlap |
| `seq_record` | `TypeOK`, `StepsCounted`, `TiesFit` | memory of 3 events is full after a chord and a tie; 2 keys down; keys left down across recordings |
| `arp` | `NothingLeftOn`, `NotesHaveKeys`, `NoRepeat`, `EveryNotePlays`, `Arpeggiates` | 4 places, 2 keys: each key has its place and its mirror, both patterns wrap; 2 transpositions; MIDI START at any time; a fair clock |
| `performance` | `AllTypeOK`, `BitsHaveCauses`, `ArpKeysDown`, `NotFedBack`, `HoldHasCause`, `WheelNotDoubled` | a key that plays, the same at MIDI in, so that the two meet on one bit, and one that transposes back while it plays (`Hands`: that one is only pressed while shifted, and a hand is on the keys or on the wheel, which share no state); the first key is also the transposition, so its pitch moves by 1 or not; the wheel at rest or not; connected or not |
| `clock` | `InStep`, `LfoOnBeat`, `KeepsBeating` | two tempos with dividers 2 and 3, and stopped; a speed is torn at a counter of 1 and past a reset; 3 clocks wait, 6 in a song are two beats or three; `spLFOSync` off, too short to matter and 4 |
| `tune_button` | `TunerTypeOK`, `TunedOrTheory`, `HealthyTuned`, `OneEventPerMove`, `EachMoveReported`, `TunesOncePerPress` | a key and TUNE, a bounce of two scans against a timeout of one; a failing and a sound oscillator and a filter, two octaves measured of each, 6 bits and 5 steps: every branch of the search, two timeouts give it up |
| `pots` | `ReadingsFollowed`, `ParamsFollow` | a pot and the bender; 3 positions, of which two are within the threshold of each other and two of them more than twice the threshold apart; read every second loop unless excited |
| `presets` | `TypeOK`, `DotHonest`, `LiveIsPanel`, `LiveKept`, `EntryConsistent`, `SettingsWhole` | 2 presets, so that the selected one and another are stored and loaded, 2 settings of the panel and 2 of the additional parameters, so that stored, playing and live patches all differ, one of each in unison and with a value that has no name, a patch that arrives; any number of handlers and power cuts |
| `midi_in` | `TypeOK`, `MessagesArrive` | queue of 3 (2 bytes of room), so it is full and wraps inside every message; one message per class of length; system exclusive messages of 3 and 5 bytes, so that they end inside and at the end of one filling of the three-byte buffer; their buffer used for something else at any time; 3 messages in a row |
| `midi_out` | mixed messages on the line | one message each |

Bounds named in the modules: `MaxTick` (timestamps), `MaxEvents` (the track's memory),
`MaxNoteOns` (the byte that counts keys), `Memory` (the arpeggiator's places), `Length` and
`MaxSysex` (queue and buffer), `MaxSent` and `MaxMessages` (messages of a behaviour), `MaxBounce` (scans),
`Scratch` (what else the buffer of system exclusive messages is left with), `TornCounters` (where a speed is read torn), `MaxPending` and `MaxReceived` (clocks waiting, clocks of a song).
The arithmetic of the tuner is small in `Size` and `Steps` (16 and 14 bits in the code).
`Stimuli` of a module turns optional events on: events after which a property is known not to
hold, because the code lets it fail and no document says otherwise, are left out of that
property's run and named here:

- `NoStuckNote` and `NoStarvedKey` need every press to have its release ("repeat" off), no
  all sound off or unison switch in between (these clear voices and keep keys, on purpose:
  `assigner.c:472-477`) and no refresh by the main loop ("main" off): a key that comes while it clears the voices
  (`assigner.c:196-219`) may keep its voice but lose its root note or its bit, and its release no longer finds it.
  "main" is on in `assigner_unison`, whose properties hold all the same. In unison `NoStuckNote` is proved for chords changed at rest (section 7).
- `SequencesWellFormed` needs keys of the keyboard (`MidiKeys` of `MCSeq` are not), one track recording at a
  time and no key down when a recording ends ("both", "stale" off): with both recording, the second
  track sees each key already counted in `noteOns` and records continuations only.
- `BitsHaveCauses` and `ArpKeysDown` need a key that plays not to be let go while FROM TAPE is held, nor held over a change of the
  local mode ("swallow" off): a release while shifted is swallowed by `synth_keyEvent`. Other keys, also those that transpose, come and
  go while shifted. A note whose key is down while another key transposes stays on in the code; `BitsHaveCauses` allows for those
  in `left` and for no others.
- `HoldHasCause` needs the pedal up when a preset in unison is loaded ("preset" off): the hold stays then.
- `ReadingsFollowed` and `ParamsFollow` need the interrupt not to come between a pot's reading and its use (`Race` off).
- `HoldHasCause` and `WheelNotDoubled` say something while MIDI out is played back; without,
  in local off nothing reaches the synthesizer at all.
- `MessagesArrive` needs room in the queue ("overrun" off) and system exclusive messages that
  are not cut off by another status byte ("abort" off): the parser keeps the old count then and
  the next message loses bytes. It leaves open what is in a system exclusive message whose buffer was used meanwhile (`spoilt`). What is delivered is MIDI all the same, which is proved (section 7).
- The properties of `Presets` need the interrupt not to come between a check of the main loop and what
  it does about it ("race" off; `DotHonest`, `LiveIsPanel` and `LiveKept` fail with
  it); `EntryConsistent` no patch between two typed digits ("entry" off: `storage.c:666` forgets
  the first digit, and the next one selects preset 65526 and up). `DotHonest` says nothing once one of the four changes that the code
  does not mark has come (`unmarked`), until the next load or marked change: a displayed parameter that loses its value, the foot
  switch in unison, unison set again over MIDI, a patch of the original firmware over the selected one. `LiveIsPanel` says nothing
  between a change of the layout and the next reading of the whole panel (`relaid`). The
  first boot is not cut short: settings whose tunings were never written would pass for good.

`CHECK_DEADLOCK FALSE` stands where the model really stops: the interrupt hangs with every
voice masked (`assigner_unison`), a track was written past its end or loops (`seq_record`), the sender has sent its
bound of messages (`midi_in`, `midi_out`), or a song its bound of clocks (`clock`).

## 5. Fairness

| module | weakly fair | because |
|---|---|---|
| `Assigner` | `HandleFinishedVoices`, the end of a release | the timer interrupt drives both at a fixed rate |
| `Arp` | a beat (`Update`) | the clock runs in the timer interrupt; a stopped clock (speed 0) is a setting under which nothing is promised |
| `Clock` | `SetSpeed`; `Counts` | the main loop calls `clock_setSpeed` in every turn; the counting phase comes every 2 ms |
| `MidiIn` | the timer's steps | the timer interrupt |
| `TuneButton` | both scans; the tuner's steps | the scans are phases of the timer interrupt; a tuning blocks interrupts and waits no longer than its timeouts |
| `Pots` | the main loop's steps | nothing blocks the main loop for good |

`Arpeggio`'s own fairness, that something plays as long as there are notes, is shown of `Arp` from the
beats. `EveryNotePlays` also asks that MIDI START does not come again and again, as each starts the
pattern over. No key, button, pedal, wheel, pot, sender or external clock is ever assumed to move or come.

## 6. Findings

- `midi_out`: messages of the main loop and the interrupt mix, against the advice of the library's
  header.

What follows was met on the way. Each needs an event that the passing runs leave out (section 4), or
was seen while reading; none has a run of its own.

| where | what | how it shows |
|---|---|---|
| `assigner.c:413` | of several stolen notes a release restores the lowest, the manual says the oldest | reading; `NoStarvedKey` holds for either |
| `assigner.c:404` | with every voice masked a key in unison never leaves the interrupt | `hung` of `Assigner` |
| `assigner.c:472` | a voice stays gated without a key after unison is switched with keys down: a later release gives a free voice to a key that was left without one and forgets its own; a smaller chord latched while one sounds leaves voices of the old one behind | `NoStuckNote` with "unison" |
| `assigner.c:196` | a key that comes while the main loop clears the voices, after a dial or a pot has changed the priority or unison, plays on without a root note, or is left silent | `NoStuckNote`, `NoStarvedKey` with "main" |
| `assigner.c:238` | all keys off passes over voice 0 when it is masked, which unison plays on all the same | `NoStuckNote` with "mask" |
| `assigner.c:306` | the search for the latest note begins with a comparison with voice -1, outside the array | reading |
| `seq.c:302` | a MIDI key below the keyboard is recorded as a continuation of nothing; played alone it hangs the timer interrupt | `SequencesWellFormed` with `Keys <- MidiKeys` |
| `ui.c:489` | a bank select between the dial's check of the mode and its load puts a stored preset into live mode | `LiveIsPanel` with "race" |
| `storage.c:666` | a patch between two typed digits forgets the first one; the next selects preset 65526 and up | `EntryConsistent` with "entry" |
| `midi.c:389`, `import.c:146` | a unison control change, or an imported patch, leaves the dot wrong | `unmarked` of `Presets` |
| `ui.c:365` | a custom parameter is displayed by setting it to each value that has a name: the default bend range 5 has none, so that looking at it sets another, and the dot stays off | `SelectParameter`, `unmarked` of `Presets` |
| `synth.c:1881` | the foot switch in unison stores the latched chord in the patch, and the dot stays off | `FootLatch`, `unmarked` of `Presets` |
| `ui.c:165` | in live mode the layout setting works mixer, glide and drive out from the volumes, so that they are not where the pots are | `ChangeLayout`, `relaid` of `Presets` |
| `synth.c:1679` | a key that is down while another one transposes turns off another note when it is let go, and its own stays on | `left` of `Keys` |
| `synth.c:1664` | keys that play and are let go while shifted stay on, in the synthesizer or the arpeggiator | `BitsHaveCauses` with "swallow" |
| `synth.c:1664` | with the arpeggiator switched on between a key's press and its release, MIDI out gets no note-off | reading; what the receiver keeps is not followed |
| `synth.c:1875` | a preset in unison that is loaded with the pedal down keeps the hold | `HoldHasCause` with "preset" |
| `ui.c:453` | a button between a pot's reading and its use makes its move go unnoticed | `ReadingsFollowed` with `Race` |
| `synth.c:1298` | a wheel that comes to exactly the value the last pot had is not sent: the value compared with is not the wheel's own | `ApplyLast` of `Pots` |
| `synth.c:1298` | a wheel moved along with a pot applies only if it was the last to change | `ApplyLast` of `Pots` |
| `ui.c:184` | a bender held into local off is doubled when MIDI out is played back | reading; the bender is not modelled |
| `tuner.c:581` | after too many timeouts both measurements fail and the scaling adjustment shows 0, as if it were in tune | `ScalingRound` of `Tuner` |
| `ui.c:367`, `midi.c:515`, `:531` | displaying a parameter or a dump overwrites the buffer in which a system exclusive message is being gathered; the message is delivered with what is left of it | `BufferUsed`, `spoilt` of `MidiIn` |
| `midi_device.c:64`, `:100` | bytes are dropped when the queue is full; a system exclusive message that is cut off spoils the next message | `MessagesArrive` with "overrun", "abort" |
| `arp.c:162`, `:263` | a MIDI key below the keyboard indexes past the memory; at random `n` may be decremented past zero | reading |
| `ui.c:526` | the LFO's value 8 cannot be set, though `lfo.tex` lists it and `synth.c` has a case for it | reading |

## 7. Proofs

All theorems hold for every value of the constants under the modules' named assumptions.

- `AssignerProofs`: `AssignerTypeOK`, `AssignerNoDrone`, `AssignerMaskRespected`, `AssignerNoStuckNote`,
  `AssignerNoStarvedKey`. `TypeOK` is inductive; the others are proved on top of it. Of the main loop's refresh it says where it can be
  (`MainOK`) and that the pattern has a root but for while it is copied or filled in (`PatternOK`): a handler may find it without.
  With it `NoDrone` and `MaskRespected` hold between any two writes of the main loop. `NoDrone` (an assigned voice whose envelope is
  up is gated) is inductive relative to `TypeOK`: lemmas say for each voice what playing a pattern,
  a note-off, the pedal and the setters do to it (`PlayEffect`, `NoteOffEffect`, `PedalUpEffect`,
  `VoicesDoneEffect`). `MaskRespected` needs the strengthening `MaskInv`, which adds `MainOnly`:
  a refresh of the main loop is under way only when the main loop is among the stimuli, for it is
  what lets a voice of the old mode survive the change. `StartIsEnabled` carries the argument: every
  voice `assignNote` may start on is in the mask, but for voice 0 in unison. The choices among voices
  (lowest, oldest, highest note) rest on the lemmas at the head of the module: a non-empty set of numbers has a
  smallest member, a bounded one a largest.
  `NoStuckNote` and `NoStarvedKey` are proved together for polyphonic presets (`OnlyPoly`: no preset
  or switch to unison, no all sound off, no press repeated before its release, no refresh by the main loop), with any number of voices, any
  keys, mask changes, pedal and presets loaded by a handler. With the main loop's refresh both are false of the code (section 6).
  Neither is inductive. `PolyInv` adds to the
  two that a voice takes its key to be down if and only if it is (`VoicesAgree`), which is what a
  release searches by, and that no two voices have the same key (`OneVoiceEach`), or a release would have
  two voices to give to one stolen note. The former needs the latter: a key pressed again finds the
  voice that still releases it. `PolyPlay`, `PolyStart` say which one voice a note changes and that, when none
  is free or released, all enabled voices play keys that are down; with it a starved key means that all voices are busy.
  `AssignerNoStuckNoteInUnison` is about unison as well as play outside and the switch between them, for any chord, priority and number of voices. A key
  then plays on many voices and a voice gets many keys, so that `OneVoiceEach` has no meaning; what takes its place is that all voices that
  play have one root (`OneRoot`) and are of the chord (`ChordKeys`): a key that is played takes over all of them (`ChordPlay`), one
  that is ignored leaves them to a key that is down (`ChordIgnored`: the lowest or highest key plays already), and a release with none
  to restore gates them all off. `UnisonInv` is `ChordInv` in unison and `PolyInv` outside. The hypotheses are
  what TLC finds necessary, each by a counterexample with two or three voices: `Rested` (unison is switched with no key down, the chord is changed when
  nothing sounds either), or voices of the old chord are left behind and keys without a voice take those of a release;
  voice 0 in every mask, or all keys off passes over it; presses with their release and no all sound off, as
  before, and no refresh by the main loop (`KeysOnly`).
  `AssignerReleaseGoesOn`, from `PolyInv` and `NoDrone`, is the safety kernel of `ReleasedVoiceFreed`: a voice whose gate is off
  belongs to no key that is down (`VoicesAgree`), so no release finds it again and starts its envelope's release over; TLC shows that a
  release given twice would.
- `ArpProofs`: `ArpTypeOK`, `ArpNothingLeftOn`, from the invariant `ArpInv`. Besides the two it says
  that the memory holds only notes of keys (`NotesKnown`), so that no note is mistaken for the empty
  place, and that nothing sounds while no last note is remembered (`SoundingKnown`); without these
  the note-off of the last note could not be shown to be the one that sounds.
  `ArpNotesHaveKeys` needs `PlacesInv` on top: each note is latched or has its key down (`Caused`), in
  up/down it is at the two places of its key and nowhere else (`Mirrored`), in the other patterns a key
  that is down has one place (`Single`). Both are what makes a release take along what a press put down.
  `ArpNoRepeat` adds that the last note is one of the place it was played at (`Remembered`), which is what makes "not the
  mirror of the last place" mean "not the last note", and that a place is the last one comes to from itself
  (`LastIsOneself`, on the arithmetic modulo the memory's size).
  `ArpNoneOvertaken`, the safety kernel of `EveryNotePlays`, uses all three: counted in places from the last one played, no beat passes over a note that
  waits but the one that is skipped as just played in up/down, so it has at most as many beats to wait as the memory has places.
  From the first two invariants `ArpImplementsArpeggio` follows: `Arp` implements the safety part of `Arpeggio`, the arpeggiator
  `Keys` is built on, under the mapping of `Arpeggiates`, for every memory, keyboard and transposition. Its lemmas
  read the places as sets (`EnteredNotes`) and say which step of the arpeggio each handler is (`SetModeMaps`,
  `KeyPressMaps`, `KeyReleaseMaps`, `UpdateMaps`).
- `SeqProofs`: `SeqTypeOK`, `SeqStepsCounted`, `SeqTiesFit` with one track recording at a time (`OneRecorder`);
  `SeqSequencesWellFormed`, `SeqAlwaysReturns`, `SeqNothingLeftOn` when besides no key is down as a recording ends
  or a step is erased (`KeysUp`). All hold for tracks of any length and any transpositions and stored sequences. `RecordInv`
  carries the first group: recording keeps room for the ties it owes, whatever is undone or cleared.
  `FormInv` says what a continuation relies on: keys counted are keys down (`KeysCounted`), ties are owed only while
  keys are (`TiesHeld`), and while a key is counted the track ends in a note, or is full
  (`NotesHeld`). A well-formed sequence that is not empty has the head of a step, so the loops that look for the
  next step end: this is `SeqAlwaysReturns` (never `dead`). `Quiet` then says that what is on is what
  `finishPreviousNotes` turns off, with the transposition it was turned on with; this needs the positions to be inside
  the sequence (`InTrack`), which erasing and recording keep.
- `PresetsProofs`: `PresetsTypeOK`, `PresetsSettingsWhole` for every stimulus; `PresetsLiveIsPanel`, `PresetsLiveKept` and
  `PresetsDotHonest` without "race"; `PresetsEntryConsistent` without "entry" (with
  them the properties are false, section 4). `LiveIsPanel` and `DotHonest` make their exceptions themselves (`relaid`, `unmarked`). They hold for any presets, panels and pages and for power cuts anywhere. `PresetsInv` says what is stored
  (`MemoryTyped`) and that an instrument that is on has its settings and manual page (`BootInv`), so that a
  power cut between two writes leaves something to start from. `ModeInv` says which steps of the dial and the digits
  wait in which mode; without it a load begun in preset mode could end in live mode. `LiveInv` and `DotInv` are the
  properties for the states in the middle of a step of the main loop. For `EntryConsistent`,
  the other modes a step may enter are `Home(mode)` or the second half of a store, and `HomeWaitsForNone` says the former waits for
  no second digit.
- `PerformanceProofs`: `KeysNotFedBack`, `KeysHaveCauses` of `Keys`; `PerformanceImplementsKeys`, every step with wheels and
  pedal is one of `Keys` or leaves it alone, from which `PerformanceNotFedBack`, `PerformanceBitsHaveCauses`,
  `PerformanceArpKeysDown` follow; `PerformanceTypeOK`, `PerformanceHoldHasCause`, `PerformanceWheelNotDoubled`. The two
  about causes need "swallow" to be no stimulus (no key that plays is let go while shifted or held over a change of local mode), `HoldHasCause` "preset". `KeysInv` says what can be on the
  line: in local off only keys' notes, and nothing while keys are swallowed (`LineInv`). `Causes` says that each bit that is
  on can be turned off by a key as things are switched now, or is in `left` (`Releasable`), that one in `left` remains there as long as it is on (`LeftStays`), and that a note-off still under way while keys are
  swallowed is for a bit that is off already (`OffsAreOff`): it will be swallowed as well. `HoldInv` and `WheelInv` state the properties while
  a message is on its way: it brings what the pedal or wheel stands at.
  Of the pots `PotsTypes` and, without `Race`, `PotsReadingsFollowed`, the safety kernel of `ParamsFollow`, for any number of pots, positions
  and thresholds and any rate of reading. What is compared at a read is not the last reading but the last one noticed, and
  that is the middle term `FollowInv` needs: the detector is within a threshold of the reading, and the parameter within one of the
  detector, unless the pot is among those noticed in this turn. `SetNoActivePot` empties that set, so it must find none whose
  change is still to be followed: this is where `Race` breaks it.
- `TuneButtonProofs`: of the scanner `ScannerTypeOK`, `ScannerOneEventPerMove`, for any keys, any timeout and every bounce it outlasts
  (`BounceAssumption`). The invariant says of each contact that it rests once it has bounced out, and that
  the timeout outlasts what is left of the bounce once its event is made (`Settled`); without the latter
  a bounce would make a second event. `TuneButtonScans`: each step of the composition is one of `Scanner` or leaves it alone, for
  any tuner; `TuneButtonOneEventPerMove` follows. Of the tuner `TunerKeepsTypes`, `TunerTunedOrTheory`, `TunerHealthyTuned`,
  for any number of oscillators, filters and octaves and any width of the search (`BitsAssumption`: each bit is
  half of the one before). `Halving` is the search: the estimate is at most two of the present bits from the pitch,
  unless a measurement was missed, and never leaves the range; `Octavewise` and `Finished` say what is done so far.
  `PitchAssumption` is needed for the extrapolated octaves: two octaves found with the search's error are still in
  order, and continuing from them stays in range.
  `TuneButtonTuningsPressed`, `TuneButtonTuningAdvances` are the safety kernels of `TunesOncePerPress`: a tuning starts at an event of TUNE
  that goes down, and as TUNE was last reported released each has a press that no other had; each of its steps goes to a later bit, octave or
  voltage or ends it, so what is left to TLC is that the steps are taken. `TuneButtonReportedInTime` is the same of `EachMoveReported`: what
  is left of bounce and timeout, whichever is more (`Waiting`), falls at each scan of a contact whose move is not reported, and the scan after makes
  the event.
- `ClockProofs`: `ClockTypeOK`, `ClockInStep`, `ClockLfoOnBeat`, from one invariant. `SongRuns` says that a song has
  counted nothing and its counter stands where the first clock makes a beat, or has counted the dividers of
  its beats but the first and what is in the counter; that the division in `InStep` comes out then is
  the lemma `Quotient`. While a song runs the speed is the one that is set, so no tear of it differs (`SongSeesSpeed`).
  `LfoRuns` says that the beats since the last reset are the place in the bar. `ClockNearsBeat`, the safety kernel of `KeepsBeating`, says
  that once the main loop has written the speed (`Steady`) a count comes one nearer to the beat or makes it, even from
  a counter beyond a speed that was lowered. The bounds of the model
  (`TornCounters`, `MaxPending`, `MaxReceived`) are constants: the theorems hold for all of them.
- `MidiInProofs`: `EnqueueAppends`, `RemoveTakesHead`: on the sequence `Contents(q)` the circular
  array is a queue, for all lengths and positions. `MidiInTypeOK` and `MidiInImplementsChannel` hold for any messages of MIDI,
  any length of the queue and of system exclusive messages, with "overrun" and "abort" no stimuli (a byte that
  is dropped, or a system exclusive message that never ends, loses a message: no order of steps could
  deliver it). The buffer of system exclusive messages may be overwritten with anything at any time (`ScratchAssumption`); a message that
  this befell is delivered in its place, and its contents are excepted (`Heard`). The proof follows a byte from the sender to the parser. `Prefix(p)` is what has come of the message
  under way, `After` and `Completed` what a byte makes of it and which message it completes: the grammar,
  without buffers. `Agrees` says how the parser holds a prefix, a channel message in its three bytes, a system exclusive
  one in threes gathered up to the last whole three (of which, once their buffer has been used for something else, only the number is
  known: `Holds`), and `ParsedRight` that `midi_process_byte` with its callbacks does
  to it what the grammar says, for every byte that may come. `SenderAt` is the same of the sender
  (`SenderGoesOn`). `OnWay`, the heart of `ReceptionInv`, joins the two through the queue: parsing the bytes queued leads
  from the prefix of the parser to that of the sender, and from the messages received to those sent. It has to speak of
  each queued byte, because the UART interrupt adds to one end (`WayAdded`) while the parser takes from the other
  (`WayTaken`); a byte that is parsed but not yet removed is not counted again (`Unparsed`).
  `MidiInReceivesMidi` and `MidiInInBounds` have no hypothesis on `Stimuli`: bytes are dropped, system exclusive messages cut off. Nothing
  relates the parser to the sender then, so `SafetyInv` is about the parser alone. `Sane` says what a cut-off system exclusive message
  may leave in the three bytes: its own bytes, never the status byte of the message that cut it off; with it a count that is too high
  spoils that message without making a data byte of a status byte, and the gathered bytes stay data within the buffer, but for those of a message whose buffer was used meanwhile.
  Of transmission, `MidiOutTypes` holds for any race of main loop and timer. `MidiOutTimerWhole` says that without the main loop's
  messages those of the timer leave whole, even when the queue runs over in the middle of one and `sendEnqueue` gives bytes to the line to make room:
  `WholeFlow`, that what has left followed by what waits is whole messages, is kept by taking a byte from the one to the other. With the
  run `midi_out` it shows that the finding of section 6 has the main loop for its sole cause. Both ask that messages have three bytes,
  as `MidiOut` sends them (`ThreeBytes`).

Only model-checked: liveness (`ReleasedVoiceFreed`, `EveryNotePlays`, `EachMoveReported`, `TunesOncePerPress`,
`KeepsBeating`, `ParamsFollow`, the liveness halves of `MessagesArrive` and `Arpeggiates`) and anything about ENABLED, which are out
of the prover's reach. Of the first six the safety kernels are proved, that no step goes away from what is to happen
(`AssignerReleaseGoesOn`, `ArpNoneOvertaken`, `TuneButtonReportedInTime`, `TuneButtonTuningsPressed` with `TuneButtonTuningAdvances`,
`ClockNearsBeat`, `PotsReadingsFollowed`); that the steps are taken is TLC's part. What a recursive definition computes for
every input would need induction over data, which the installed provers cannot instantiate; the
models use no recursive operators. The type invariants of the assigner, the arpeggiator, the scanner, the clock and the pots are
proved and therefore in no run.

## 8. Not modelled

- Velocities, control voltages, envelope levels, LFO, glide, vibrato and the curves of wheels and pots: numeric
  signal computation without control flow between actors.
- The bender: it takes the modulation wheel's way with two amounts that add up, and its range and target are numeric.
- Display and texts: output only. Which parameter a control change sets: tables.
- How a pot is read (successive approximation) and an oscillator's period measured: one step each.
  Voltages of notes between the octaves, tuning dumps, per-note tunings.
- Formats of old versions in storage, and how a patch of the original firmware is converted.
- What MIDI out makes a receiver keep, beyond what is played back to MIDI in.
- The conversion tools (offline), USB debug output and the parts of the MIDI library that the firmware does not
  call.
