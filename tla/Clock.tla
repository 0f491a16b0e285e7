------------------------------- MODULE Clock -------------------------------
(***************************************************************************)
(* The clock of the sequencer and the arpeggiator (common/clock.c) with    *)
(* its sources, the beats it gives them and the synchronisation of the LFO *)
(* (common/synth.c, seq.c, arp.c). The main loop sets the speed, in two    *)
(* bytes, while the timer interrupt counts against it: of the two bytes an *)
(* interrupt may find one written.                                         *)
(***************************************************************************)
EXTENDS Integers

CONSTANTS
  Settings,       \* settings.seqArpClock, 0 standing for values below 1024
  Periods,        \* Periods[s]: the internal clock's period in ticks
  Dividers,       \* Dividers[s]: the external clocks of a beat
  LfoSyncs,       \* values of spLFOSync that get set
  TornCounters,   \* bound of the model on the counters that meet a torn speed
  MaxPending,     \* bound of the model on clocks that wait
  MaxReceived     \* bound of the model on the clocks of a song

SyncModes == {"internal", "midi", "tape"}
Stopped   == 65535
AtOnce    == 32767                  \* INT16_MAX, past any period
Players   == {"seq", "arp"}
BarLength == 9
NoSong    == [received |-> 0, beats |-> 0, divider |-> 0]

ASSUME SettingsAssumption == Settings \subseteq Nat /\ 0 \in Settings
ASSUME SpeedsAssumption   == \A s \in Settings \ {0} :
                               Periods[s] \in 2 .. AtOnce /\ Dividers[s] \in 2 .. 192
ASSUME LfoAssumption      == LfoSyncs \subseteq 0 .. 7
ASSUME BoundsAssumption   == TornCounters \subseteq 0 .. AtOnce /\ MaxPending \in 1 .. 255 /\ MaxReceived \in Nat

VARIABLES
  syncMode, seqArpClock,
  speed, counter,        \* the clock
  pendingExtClock,
  playing,               \* whether a track, whether the arpeggiator runs
  clockBar, lfoSync,
  song,                  \* history: clocks since MIDI START and beats they made
  lfoBeats               \* history: beats since the LFO was reset, -1 if unknown

clockVars == <<speed, counter>>
lfoVars   == <<clockBar, lfoSync, lfoBeats>>
vars == <<syncMode, seqArpClock, clockVars, pendingExtClock, playing, lfoVars, song>>

\* What clock_setSpeed makes of a setting.
SpeedOf(s, mode) ==
  IF s = 0 THEN Stopped ELSE IF mode = "internal" THEN Periods[s] ELSE Dividers[s]

Speeds == {SpeedOf(s, mode) : s \in Settings, mode \in SyncModes}

SpeedSet == SpeedOf(seqArpClock, syncMode)

\* A speed of two bytes, of which one is written.
Torn(old, new) ==
  {256 * (new \div 256) + (old % 256), 256 * (old \div 256) + (new % 256)}

TypeOK ==
  /\ syncMode \in SyncModes /\ seqArpClock \in Settings
  /\ speed \in Speeds
  /\ counter \in 0 .. AtOnce + 1
  /\ pendingExtClock \in 0 .. MaxPending
  /\ playing \subseteq Players
  /\ clockBar \in 0 .. BarLength /\ lfoSync \in LfoSyncs
  /\ lfoBeats \in -1 .. BarLength
  /\ song.received \in 0 .. MaxReceived /\ song.beats \in 0 .. MaxReceived

Init ==
  /\ syncMode = "internal"
  /\ seqArpClock \in Settings
  /\ speed = SpeedOf(seqArpClock, "internal") /\ counter = 0
  /\ pendingExtClock = 0
  /\ playing = {}
  /\ clockBar = 0 /\ lfoSync \in LfoSyncs
  /\ song = NoSong /\ lfoBeats = -1

-----------------------------------------------------------------------------
(* Main loop *)

\* clock_setSpeed, which the main loop calls again and again.
SetSpeed ==
  /\ speed' = SpeedSet
  /\ UNCHANGED <<syncMode, seqArpClock, counter, pendingExtClock, playing, lfoVars, song>>

\* The data dial, or MIDI CC 45.
ChangeSetting(s) ==
  /\ s # seqArpClock
  /\ seqArpClock' = s
  /\ song' = NoSong
  /\ UNCHANGED <<syncMode, clockVars, pendingExtClock, playing, lfoVars>>

ChangeLfoSync(n) ==
  /\ n # lfoSync
  /\ lfoSync' = n
  /\ lfoBeats' = -1
  /\ UNCHANGED <<syncMode, seqArpClock, clockVars, pendingExtClock, playing, clockBar,
                 song>>

-----------------------------------------------------------------------------
(* Timer interrupt *)

\* Button 8 while shifted.
SyncButton ==
  /\ syncMode' = CASE syncMode = "internal" -> "midi"
                   [] syncMode = "midi" -> "tape"
                   [] syncMode = "tape" -> "internal"
  /\ song' = NoSong
  /\ UNCHANGED <<seqArpClock, clockVars, pendingExtClock, playing, lfoVars>>

\* A track or the arpeggiator starts, or the first key enters an arpeggiator
\* that is empty (`p` runs already). What starts alone starts with a beat.
Play(p) ==
  LET fresh == IF p = "seq" THEN playing = {} ELSE "seq" \notin playing
      now   == fresh /\ syncMode = "internal"
      bar   == IF p = "seq" THEN fresh ELSE now
  IN
  /\ p = "seq" => p \notin playing
  /\ playing' = playing \cup {p}
  /\ counter' = IF now THEN AtOnce ELSE counter
  /\ clockBar' = IF bar THEN BarLength ELSE clockBar
  /\ lfoBeats' = -1
  /\ UNCHANGED <<syncMode, seqArpClock, speed, pendingExtClock, lfoSync, song>>

Stop(p) ==
  /\ p \in playing
  /\ playing' = playing \ {p}
  /\ lfoBeats' = -1
  /\ UNCHANGED <<syncMode, seqArpClock, clockVars, pendingExtClock, clockBar, lfoSync,
                 song>>

\* External clocks arrive: a MIDI clock, or an edge of the tape input, which
\* counts for two.
ExternalClock(mode, n) ==
  /\ syncMode = mode
  /\ pendingExtClock + n <= MaxPending
  /\ pendingExtClock' = pendingExtClock + n
  /\ song' = IF song = NoSong THEN NoSong ELSE [song EXCEPT !.received = @ + n]
  /\ song'.received <= MaxReceived
  /\ UNCHANGED <<syncMode, seqArpClock, clockVars, playing, lfoVars>>

\* The history of a song starts at START if the speed is the one set.
NewSong ==
  IF seqArpClock # 0 /\ speed = SpeedSet
  THEN [received |-> 0, beats |-> 0, divider |-> speed] ELSE NoSong

\* Mutant: clocks from before START still count.
MidiStartKeepsPending ==
  /\ syncMode = "midi"
  /\ counter' = AtOnce
  /\ clockBar' = IF playing = {} THEN BarLength ELSE clockBar
  /\ lfoBeats' = IF playing = {} THEN -1 ELSE lfoBeats
  /\ song' = NewSong
  /\ UNCHANGED <<syncMode, seqArpClock, speed, pendingExtClock, playing, lfoSync>>

\* MIDI START: seq_resetCounter, arp_resetCounter and clock_reset.
MidiStart ==
  /\ syncMode = "midi"
  /\ counter' = AtOnce
  /\ clockBar' = IF playing = {} THEN BarLength ELSE clockBar
  /\ lfoBeats' = IF playing = {} THEN -1 ELSE lfoBeats
  /\ pendingExtClock' = 0
  /\ song' = NewSong
  /\ UNCHANGED <<syncMode, seqArpClock, speed, playing, lfoSync>>

\* Whether clock_update gives a beat at the speed `seen`.
Beats(seen) == seen # Stopped /\ counter + 1 >= seen

\* What clock_update leaves in the counter.
Counted(seen) ==
  IF seen = Stopped THEN counter ELSE IF Beats(seen) THEN 0 ELSE counter + 1

\* Mutant: the LFO is reset a beat late.
ResetsLfoLate(bar) == lfoSync > 1 /\ playing # {} /\ bar = lfoSync

\* A beat resets the LFO, with `bar` the new place in the bar. (The code has a
\* case for a value of 8 that nothing sets.)
ResetsLfo(bar) == lfoSync > 1 /\ playing # {} /\ bar + 1 = lfoSync

\* Mutant: in internal mode too, only a waiting clock counts.
CountingWaiting == pendingExtClock > 0

Counting == syncMode = "internal" \/ pendingExtClock > 0

Taken == IF pendingExtClock > 0 THEN pendingExtClock - 1 ELSE 0

\* The 500 Hz phase that counts: internal ticks, or one waiting clock.
Count(seen) ==
  LET bar == (clockBar + 1) % BarLength IN
  /\ Counting
  /\ pendingExtClock' = Taken
  /\ speed' = IF seen = speed THEN speed ELSE SpeedSet
  /\ counter' = Counted(seen)
  /\ IF Beats(seen)
     THEN /\ clockBar' = IF ResetsLfo(bar) THEN 0 ELSE bar
          /\ lfoBeats' = IF ResetsLfo(bar) THEN 0
                         ELSE IF lfoBeats \in 0 .. 8 THEN lfoBeats + 1 ELSE lfoBeats
          /\ song' = IF song = NoSong THEN NoSong ELSE [song EXCEPT !.beats = @ + 1]
     ELSE UNCHANGED <<clockBar, lfoBeats, song>>
  /\ UNCHANGED <<syncMode, seqArpClock, playing, lfoSync>>

\* What the interrupt may find the speed to be.
Seen == {speed} \cup IF counter \in TornCounters THEN Torn(speed, SpeedSet) ELSE {}

Counts == \E seen \in Seen : Count(seen)

-----------------------------------------------------------------------------
Timer ==
  \/ Counts
  \/ MidiStart
  \/ ExternalClock("midi", 1)
  \/ ExternalClock("tape", 2)

User ==
  \/ \E s \in Settings : ChangeSetting(s)
  \/ \E n \in LfoSyncs : ChangeLfoSync(n)
  \/ SyncButton
  \/ \E p \in Players : Play(p) \/ Stop(p)

Next == SetSpeed \/ Timer \/ User

Spec == Init /\ [][Next]_vars

\* The main loop and the timer interrupt run on.
FairSpec == Spec /\ WF_vars(SetSpeed) /\ WF_vars(Counts)

-----------------------------------------------------------------------------
(* Properties *)

CeilingDiv(a, b) == (a + b - 1) \div b

\* From MIDI START on, as long as the divider is left alone, beats stay in
\* step with the clocks: the first clock after START makes the first beat and
\* each divider clocks one more, however late clocks are counted, and whatever
\* waited before START or the main loop writes meanwhile.
InStep ==
  song # NoSong =>
    song.beats = CeilingDiv(song.received - pendingExtClock, song.divider)

\* Between two resets of the LFO are the beats that spLFOSync sets, one less than
\* its value, wherever in the bar the players, the source or the speed changed,
\* and START came.
LfoOnBeat ==
  [][Counts /\ counter' < counter /\ lfoSync > 1 /\ playing # {} /\ lfoBeats \in 0 .. 8
       => (lfoBeats' = 0 <=> lfoBeats + 1 = lfoSync - 1)]_vars

\* The internal clock beats for ever while it is set to run, wherever the
\* change of source or of speed left the counter.
KeepsBeating ==
  <>[](syncMode = "internal" /\ seqArpClock # 0) => []<>(counter = 0)

=============================================================================
