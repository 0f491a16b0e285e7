---------------------------- MODULE ClockProofs ----------------------------
(***************************************************************************)
(* Theorems about Clock, for all settings, tempos and dividers, all places *)
(* where the speed is read torn and all bounds of the model.               *)
(***************************************************************************)
EXTENDS Clock, TLAPS

\* The clocks of a song that clock_update has counted.
CountedClocks == song.received - pendingExtClock

\* A song has counted nothing and the counter stands where its first clock
\* makes a beat, or has counted the dividers of its beats but the first and
\* what is in the counter.
SongRuns ==
  song # NoSong =>
    /\ syncMode = "midi" /\ seqArpClock # 0
    /\ speed = SpeedSet /\ song.divider = speed
    /\ \/ CountedClocks = 0 /\ song.beats = 0 /\ counter = AtOnce
       \/ /\ song.beats > 0 /\ counter < song.divider
          /\ CountedClocks = (song.beats - 1) * song.divider + counter + 1

\* While the beats since the LFO's reset are known they are the place in the
\* bar, before the one that resets it.
LfoRuns ==
  lfoBeats # -1 => /\ lfoSync > 1 /\ playing # {}
                   /\ clockBar = lfoBeats /\ lfoBeats + 1 < lfoSync

Song == [received : Nat, beats : Nat, divider : Nat]

IInv == TypeOK /\ song \in Song /\ SongRuns /\ LfoRuns

-----------------------------------------------------------------------------
(* Arithmetic *)

LEMMA OneMore ==
  ASSUME NEW d \in Int, NEW a \in Int
  PROVE  (a + 1) * d = a * d + d
BY SMT

LEMMA ProductGrows ==
  ASSUME NEW d \in Nat \ {0}, NEW a \in Nat
  PROVE  a * d >= a
BY SMT

\* A quotient is the one number whose multiple leaves less than the divisor.
LEMMA Quotient ==
  ASSUME NEW d \in Nat \ {0}, NEW b \in Nat, NEW q \in 0 .. d - 1
  PROVE  (b * d + q) \div d = b
BY SMT

LEMMA AtOnceIsLate ==
  AtOnce \in Nat /\ AtOnce > 192 /\ AtOnce + 1 < Stopped /\ Stopped \in Nat
BY DEF AtOnce, Stopped

LEMMA SpeedValues ==
  ASSUME NEW s \in Settings, NEW mode \in SyncModes
  PROVE  /\ SpeedOf(s, mode) \in Nat
         /\ s = 0 => SpeedOf(s, mode) = Stopped
         /\ s # 0 => SpeedOf(s, mode) \in 2 .. AtOnce
         /\ s # 0 /\ mode # "internal" => SpeedOf(s, mode) \in 2 .. 192
<1>1. CASE s = 0
  BY <1>1, AtOnceIsLate DEF SpeedOf
<1>2. CASE s # 0
  <2>1. Periods[s] \in 2 .. AtOnce /\ Dividers[s] \in 2 .. 192
    BY <1>2, SpeedsAssumption
  <2> QED
    BY <1>2, <2>1, AtOnceIsLate DEF SpeedOf
<1> QED
  BY <1>1, <1>2

\* Of two equal speeds no other is torn.
LEMMA TornFromItself ==
  ASSUME NEW s \in Nat
  PROVE  Torn(s, s) = {s}
BY DEF Torn

LEMMA SpeedSetKnown ==
  ASSUME TypeOK
  PROVE  /\ SpeedSet \in Speeds
         /\ seqArpClock # 0 => SpeedSet \in 2 .. AtOnce
         /\ seqArpClock # 0 /\ syncMode # "internal" => SpeedSet \in 2 .. 192
BY SpeedValues DEF TypeOK, SpeedSet, Speeds

LEMMA SpeedsKnown ==
  ASSUME NEW s \in Speeds
  PROVE  s = Stopped \/ s \in 2 .. AtOnce
BY SpeedValues DEF Speeds

-----------------------------------------------------------------------------
(* Beats *)

\* While a song runs the interrupt finds the speed that is set.
LEMMA SongSeesSpeed ==
  ASSUME TypeOK, SongRuns, song # NoSong, NEW seen \in Seen
  PROVE  seen = speed
<1>1. speed \in Nat
  BY SpeedSetKnown, AtOnceIsLate DEF SongRuns
<1> QED
  BY <1>1, TornFromItself DEF SongRuns, Seen

\* The counter passes AtOnce only on its way to a beat.
LEMMA CountedBounded ==
  ASSUME TypeOK, NEW seen \in Seen
  PROVE  Counted(seen) \in 0 .. AtOnce + 1
<1>1. counter \in Nat /\ counter <= AtOnce + 1
  BY AtOnceIsLate DEF TypeOK
<1>2. CASE seen = Stopped \/ Beats(seen)
  BY <1>1, <1>2, AtOnceIsLate DEF Counted
<1>3. CASE seen # Stopped /\ ~Beats(seen)
  <2>1. Counted(seen) = counter + 1
    BY <1>3 DEF Counted
  <2>2. CASE counter \in TornCounters
    BY <1>1, <2>1, <2>2, BoundsAssumption, AtOnceIsLate
  <2>3. CASE counter \notin TornCounters
    <3>1. seen \in 2 .. AtOnce
      BY <1>3, <2>3, SpeedsKnown DEF Seen, TypeOK
    <3>2. counter + 1 < seen
      BY <1>1, <1>3, <3>1, AtOnceIsLate DEF Beats
    <3> QED
      BY <1>1, <2>1, <3>1, <3>2, AtOnceIsLate
  <2> QED
    BY <2>2, <2>3
<1> QED
  BY <1>2, <1>3

\* There are not more beats than clocks.
LEMMA BeatsBounded ==
  ASSUME NEW b \in Nat \ {0}, NEW d \in Nat \ {0}, NEW c \in Nat
  PROVE  b <= (b - 1) * d + c + 1
<1> DEFINE before == (b - 1) * d
<1>1. before >= b - 1 /\ before \in Int
  BY ProductGrows
<1> HIDE DEF before
<1> QED
  BY <1>1

-----------------------------------------------------------------------------
(* The steps *)

LEMMA InitIInv == Init => IInv
<1> SUFFICES ASSUME Init PROVE IInv
  OBVIOUS
<1>1. TypeOK
  <2>1. speed \in Speeds
    BY DEF Init, Speeds, SyncModes
  <2>2. counter \in 0 .. AtOnce + 1 /\ pendingExtClock \in 0 .. MaxPending
    BY BoundsAssumption, AtOnceIsLate DEF Init
  <2>3. clockBar \in 0 .. BarLength /\ lfoBeats \in -1 .. BarLength
    BY DEF Init, BarLength
  <2>4. song.received \in 0 .. MaxReceived /\ song.beats \in 0 .. MaxReceived
    BY BoundsAssumption DEF Init, NoSong
  <2> QED
    BY <2>1, <2>2, <2>3, <2>4 DEF Init, TypeOK, SyncModes
<1>2. song \in Song /\ SongRuns /\ LfoRuns
  BY DEF Init, NoSong, Song, SongRuns, LfoRuns
<1> QED
  BY <1>1, <1>2 DEF IInv

LEMMA NoSongTypes ==
  NoSong \in Song /\ NoSong.received \in 0 .. MaxReceived /\ NoSong.beats \in 0 .. MaxReceived
BY BoundsAssumption DEF NoSong, Song

LEMMA SetSpeedIInv ==
  ASSUME IInv, SetSpeed
  PROVE  IInv'
<1>1. TypeOK'
  BY SpeedSetKnown DEF IInv, TypeOK, SetSpeed, lfoVars
<1>2. song' \in Song /\ SongRuns' /\ LfoRuns'
  BY DEF IInv, SetSpeed, SongRuns, LfoRuns, SpeedSet, CountedClocks, lfoVars
<1> QED
  BY <1>1, <1>2 DEF IInv

LEMMA ChangeSettingIInv ==
  ASSUME IInv, NEW s \in Settings, ChangeSetting(s)
  PROVE  IInv'
<1>1. TypeOK'
  BY NoSongTypes DEF IInv, TypeOK, ChangeSetting, clockVars, lfoVars
<1>2. song' \in Song /\ SongRuns' /\ LfoRuns'
  BY NoSongTypes DEF IInv, ChangeSetting, SongRuns, LfoRuns, lfoVars
<1> QED
  BY <1>1, <1>2 DEF IInv

LEMMA ChangeLfoSyncIInv ==
  ASSUME IInv, NEW n \in LfoSyncs, ChangeLfoSync(n)
  PROVE  IInv'
<1>1. TypeOK'
  BY DEF IInv, TypeOK, ChangeLfoSync, clockVars, BarLength
<1>2. song' \in Song /\ SongRuns' /\ LfoRuns'
  BY DEF IInv, ChangeLfoSync, SongRuns, LfoRuns, SpeedSet, CountedClocks, clockVars
<1> QED
  BY <1>1, <1>2 DEF IInv

LEMMA SyncButtonIInv ==
  ASSUME IInv, SyncButton
  PROVE  IInv'
<1>1. TypeOK'
  BY NoSongTypes DEF IInv, TypeOK, SyncButton, clockVars, lfoVars, SyncModes
<1>2. song' \in Song /\ SongRuns' /\ LfoRuns'
  BY NoSongTypes DEF IInv, SyncButton, SongRuns, LfoRuns, lfoVars
<1> QED
  BY <1>1, <1>2 DEF IInv

LEMMA PlayIInv ==
  ASSUME IInv, NEW p \in Players, Play(p)
  PROVE  IInv'
<1>1. counter' \in {counter, AtOnce} /\ (syncMode # "internal" => counter' = counter)
  BY DEF Play
<1>2. clockBar' \in {clockBar, BarLength} /\ lfoBeats' = -1
  BY DEF Play
<1>3. TypeOK'
  <2>1. counter' \in 0 .. AtOnce + 1
    BY <1>1, AtOnceIsLate DEF IInv, TypeOK
  <2>2. clockBar' \in 0 .. BarLength /\ lfoBeats' \in -1 .. BarLength
    BY <1>2 DEF IInv, TypeOK, BarLength
  <2> QED
    BY <2>1, <2>2 DEF IInv, TypeOK, Play
<1>4. song' \in Song /\ LfoRuns'
  BY <1>2 DEF IInv, Play, LfoRuns
<1>5. SongRuns'
  BY <1>1 DEF IInv, Play, SongRuns, SpeedSet, CountedClocks
<1> QED
  BY <1>3, <1>4, <1>5 DEF IInv

LEMMA StopIInv ==
  ASSUME IInv, NEW p \in Players, Stop(p)
  PROVE  IInv'
<1>1. TypeOK'
  BY DEF IInv, TypeOK, Stop, clockVars, BarLength
<1>2. song' \in Song /\ SongRuns' /\ LfoRuns'
  BY DEF IInv, Stop, SongRuns, LfoRuns, SpeedSet, CountedClocks, clockVars
<1> QED
  BY <1>1, <1>2 DEF IInv

LEMMA ExternalClockIInv ==
  ASSUME IInv, NEW mode, NEW n \in 1 .. 2, ExternalClock(mode, n)
  PROVE  IInv'
<1>1. pendingExtClock \in Nat /\ pendingExtClock' = pendingExtClock + n
      /\ pendingExtClock' \in 0 .. MaxPending
  BY BoundsAssumption DEF IInv, TypeOK, ExternalClock
<1>2. CASE song = NoSong
  <2>1. song' = NoSong
    BY <1>2 DEF ExternalClock
  <2>2. TypeOK'
    BY <1>1, <2>1, NoSongTypes DEF IInv, TypeOK, ExternalClock, clockVars, lfoVars
  <2> QED
    BY <2>1, <2>2, NoSongTypes DEF IInv, ExternalClock, SongRuns, LfoRuns, lfoVars
<1>3. CASE song # NoSong
  <2>1. /\ song' \in Song /\ song'.received = song.received + n
        /\ song'.beats = song.beats /\ song'.divider = song.divider
        /\ song'.received <= MaxReceived
    BY <1>3 DEF IInv, ExternalClock, Song
  <2>2. TypeOK'
    <3>1. song'.received \in 0 .. MaxReceived /\ song'.beats \in 0 .. MaxReceived
      BY <2>1, BoundsAssumption DEF IInv, TypeOK, Song
    <3> QED
      BY <1>1, <3>1 DEF IInv, TypeOK, ExternalClock, clockVars, lfoVars
  <2>3. CountedClocks' = CountedClocks
    BY <1>1, <2>1 DEF CountedClocks, IInv, Song
  <2>4. SongRuns'
    BY <1>3, <2>1, <2>3 DEF IInv, ExternalClock, SongRuns, SpeedSet, clockVars
  <2>5. LfoRuns'
    BY DEF IInv, ExternalClock, LfoRuns, lfoVars
  <2> QED
    BY <2>1, <2>2, <2>4, <2>5 DEF IInv
<1> QED
  BY <1>2, <1>3

LEMMA MidiStartIInv ==
  ASSUME IInv, MidiStart
  PROVE  IInv'
<1>1. /\ song' = NewSong /\ counter' = AtOnce /\ pendingExtClock' = 0
      /\ syncMode = "midi"
      /\ UNCHANGED <<syncMode, seqArpClock, speed, playing, lfoSync>>
  BY DEF MidiStart
<1>2. /\ song' \in Song /\ SongRuns'
      /\ song'.received \in 0 .. MaxReceived /\ song'.beats \in 0 .. MaxReceived
  <2>1. CASE seqArpClock # 0 /\ speed = SpeedSet
    <3>1. speed \in Nat
      BY <2>1, SpeedSetKnown DEF IInv
    <3>2. song' = [received |-> 0, beats |-> 0, divider |-> speed]
      BY <1>1, <2>1 DEF NewSong
    <3>3. song' \in Song /\ song'.received = 0 /\ song'.beats = 0 /\ song'.divider = speed
      BY <3>1, <3>2 DEF Song
    <3>4. SongRuns'
      BY <1>1, <2>1, <3>3 DEF SongRuns, SpeedSet, CountedClocks
    <3> QED
      BY <3>3, <3>4, BoundsAssumption
  <2>2. CASE ~(seqArpClock # 0 /\ speed = SpeedSet)
    BY <1>1, <2>2, NoSongTypes DEF NewSong, SongRuns
  <2> QED
    BY <2>1, <2>2
<1>3. /\ clockBar' \in {clockBar, BarLength} /\ lfoBeats' \in {lfoBeats, -1}
      /\ playing # {} => clockBar' = clockBar /\ lfoBeats' = lfoBeats
  BY DEF MidiStart
<1>4. TypeOK'
  <2>1. counter' \in 0 .. AtOnce + 1 /\ pendingExtClock' \in 0 .. MaxPending
    BY <1>1, AtOnceIsLate, BoundsAssumption
  <2>2. clockBar' \in 0 .. BarLength /\ lfoBeats' \in -1 .. BarLength
    BY <1>3 DEF IInv, TypeOK, BarLength
  <2> QED
    BY <1>1, <1>2, <2>1, <2>2 DEF IInv, TypeOK
<1>5. LfoRuns'
  BY <1>1, <1>3 DEF IInv, LfoRuns, MidiStart
<1> QED
  BY <1>2, <1>4, <1>5 DEF IInv

\* A count with a song running is of one clock: the next of its beat, or the
\* first of another.
LEMMA CountSong ==
  ASSUME IInv, NEW seen \in Seen, Count(seen), song # NoSong
  PROVE  song' \in Song /\ SongRuns' /\ song'.received = song.received
<1>1. seen = speed /\ speed = song.divider /\ syncMode = "midi"
  BY SongSeesSpeed DEF IInv, SongRuns
<1>2. speed \in 2 .. 192 /\ speed # Stopped
  BY SpeedSetKnown, AtOnceIsLate, <1>1 DEF IInv, SongRuns
<1>3. counter \in Nat /\ pendingExtClock \in Nat
  BY AtOnceIsLate, BoundsAssumption DEF IInv, TypeOK
<1>4. pendingExtClock > 0 /\ pendingExtClock' = pendingExtClock - 1
  BY <1>1, <1>3 DEF Count, Counting, Taken
<1>5. UNCHANGED <<syncMode, seqArpClock, speed>> /\ SpeedSet' = SpeedSet
  BY <1>1 DEF Count, SpeedSet
<1>6. CASE Beats(seen)
  <2>1. counter' = 0 /\ song' = [song EXCEPT !.beats = @ + 1]
    BY <1>1, <1>2, <1>6 DEF Count, Counted
  <2>2. /\ song' \in Song /\ song'.beats = song.beats + 1
        /\ song'.received = song.received /\ song'.divider = song.divider
    BY <2>1 DEF IInv, Song
  <2>3. CountedClocks' = CountedClocks + 1
    BY <1>3, <1>4, <2>2 DEF CountedClocks, IInv, Song
  <2>4. CountedClocks' = song.beats * song.divider + 1
    <3>1. CASE CountedClocks = 0 /\ song.beats = 0
      <4>1. song.beats * song.divider = 0
        BY <1>1, <1>2, <3>1
      <4> QED
        BY <2>3, <3>1, <4>1
    <3>2. CASE /\ song.beats > 0 /\ counter < song.divider
               /\ CountedClocks = (song.beats - 1) * song.divider + counter + 1
      <4>1. counter + 1 = song.divider
        BY <1>1, <1>2, <1>3, <1>6, <3>2 DEF Beats
      <4>2. song.beats - 1 \in Int /\ song.beats \in Int /\ song.divider \in Int
        BY <1>1, <1>2 DEF IInv, Song
      <4>3. (song.beats - 1 + 1) * song.divider = (song.beats - 1) * song.divider + song.divider
        BY <4>2, OneMore
      <4>4. song.beats - 1 + 1 = song.beats
        BY <4>2
      <4> DEFINE before == (song.beats - 1) * song.divider
      <4>5. before \in Int /\ CountedClocks = before + counter + 1
            /\ song.beats * song.divider = before + song.divider
        BY <3>2, <4>2, <4>3, <4>4
      <4> HIDE DEF before
      <4> QED
        BY <1>3, <2>3, <4>1, <4>2, <4>5
    <3> QED
      BY <3>1, <3>2 DEF IInv, SongRuns
  <2>5. (song'.beats - 1) * song'.divider = song.beats * song.divider
    BY <2>2 DEF IInv, Song
  <2>6. SongRuns'
    <3>1. /\ song'.beats > 0 /\ counter' < song'.divider
          /\ CountedClocks' = (song'.beats - 1) * song'.divider + counter' + 1
      <4>1. song.beats * song.divider \in Int
        BY <1>1, <1>2 DEF IInv, Song
      <4>2. counter' + 1 = 1
        BY <2>1
      <4>3. song'.beats > 0 /\ counter' < song'.divider
        BY <1>1, <1>2, <2>1, <2>2 DEF IInv, Song
      <4> QED
        BY <2>1, <2>4, <2>5, <4>1, <4>3
    <3> QED
      BY <1>1, <1>5, <2>2, <3>1 DEF IInv, SongRuns
  <2> QED
    BY <2>2, <2>6
<1>7. CASE ~Beats(seen)
  <2>1. counter' = counter + 1 /\ song' = song
    BY <1>1, <1>2, <1>7 DEF Count, Counted
  <2>2. counter + 1 < song.divider
    BY <1>1, <1>2, <1>3, <1>7 DEF Beats
  <2>3. CountedClocks' = CountedClocks + 1 /\ CountedClocks \in Int
    BY <1>3, <1>4, <2>1 DEF CountedClocks, IInv, Song
  <2>4. /\ song.beats > 0
        /\ CountedClocks = (song.beats - 1) * song.divider + counter + 1
    BY <1>1, <1>2, <2>2, AtOnceIsLate DEF IInv, SongRuns
  <2>5. (song.beats - 1) * song.divider \in Int
    BY <1>1, <1>2 DEF IInv, Song
  <2> DEFINE before == (song.beats - 1) * song.divider
  <2>6. CountedClocks' = before + counter' + 1
    <3>1. before \in Int /\ CountedClocks = before + counter + 1
      BY <2>4, <2>5
    <3> HIDE DEF before
    <3> QED
      BY <1>3, <2>1, <2>3, <3>1
  <2> QED
    BY <1>1, <1>5, <2>1, <2>2, <2>4, <2>6 DEF IInv, SongRuns
<1> QED
  BY <1>6, <1>7

\* A beat is the reset that is due, or one beat nearer to it.
LEMMA CountLfo ==
  ASSUME IInv, NEW seen \in Seen, Count(seen)
  PROVE  /\ clockBar' \in 0 .. BarLength /\ lfoBeats' \in -1 .. BarLength
         /\ LfoRuns'
<1> DEFINE bar == (clockBar + 1) % BarLength
<1>1. clockBar \in 0 .. 9 /\ lfoBeats \in -1 .. 9 /\ lfoSync \in 0 .. 7
  BY LfoAssumption DEF IInv, TypeOK, BarLength
<1>2. bar \in 0 .. 8 /\ (clockBar < 8 => bar = clockBar + 1)
  BY <1>1 DEF BarLength
<1>3. UNCHANGED <<playing, lfoSync>>
  BY DEF Count
<1>4. CASE Beats(seen) /\ ResetsLfo(bar)
  <2>1. clockBar' = 0 /\ lfoBeats' = 0
    BY <1>4 DEF Count
  <2>2. lfoSync > 1 /\ playing # {}
    BY <1>4 DEF ResetsLfo
  <2> QED
    BY <1>1, <1>3, <2>1, <2>2 DEF LfoRuns, BarLength
<1>5. CASE Beats(seen) /\ ~ResetsLfo(bar)
  <2>1. /\ clockBar' = bar
        /\ lfoBeats' = IF lfoBeats \in 0 .. 8 THEN lfoBeats + 1 ELSE lfoBeats
    BY <1>5 DEF Count
  <2> HIDE DEF bar
  <2>2. ~(lfoSync > 1 /\ playing # {} /\ bar + 1 = lfoSync)
    BY <1>5 DEF ResetsLfo
  <2>3. LfoRuns'
    <3>1. CASE lfoBeats = -1
      BY <2>1, <3>1 DEF LfoRuns
    <3>2. CASE lfoBeats # -1
      <4>1. /\ lfoSync > 1 /\ playing # {}
            /\ clockBar = lfoBeats /\ lfoBeats + 1 < lfoSync
        BY <3>2 DEF IInv, LfoRuns
      <4> QED
        BY <1>1, <1>2, <1>3, <2>1, <2>2, <4>1 DEF LfoRuns
    <3> QED
      BY <3>1, <3>2
  <2> QED
    BY <1>1, <1>2, <2>1, <2>3 DEF BarLength
<1>6. CASE ~Beats(seen)
  <2>1. UNCHANGED <<clockBar, lfoBeats>>
    BY <1>6 DEF Count
  <2> QED
    BY <1>3, <2>1 DEF IInv, TypeOK, LfoRuns
<1> QED
  BY <1>4, <1>5, <1>6

LEMMA CountIInv ==
  ASSUME IInv, NEW seen \in Seen, Count(seen)
  PROVE  IInv'
<1>1. /\ pendingExtClock' \in 0 .. MaxPending /\ pendingExtClock' \in Nat
  BY BoundsAssumption DEF IInv, TypeOK, Count, Taken
<1>2. speed' \in Speeds
  BY SpeedSetKnown DEF IInv, TypeOK, Count
<1>3. counter' \in 0 .. AtOnce + 1 /\ counter' \in Nat
  BY CountedBounded, AtOnceIsLate DEF IInv, Count
<1>4. song' \in Song /\ SongRuns' /\ song'.received = song.received
  <2>1. CASE song = NoSong
    <3>1. song' = NoSong
      BY <2>1 DEF Count
    <3> QED
      BY <2>1, <3>1, NoSongTypes DEF SongRuns
  <2>2. CASE song # NoSong
    BY <2>2, CountSong
  <2> QED
    BY <2>1, <2>2
<1>5. song'.beats <= song'.received
  <2>1. speed' \in Nat \ {0}
    BY <1>2, SpeedsKnown, AtOnceIsLate DEF Stopped
  <2> QED
    <3>1. CASE song' # NoSong /\ song'.beats > 0
      <4>1. /\ CountedClocks' = (song'.beats - 1) * song'.divider + counter' + 1
            /\ song'.divider = speed'
        BY <1>4, <3>1 DEF SongRuns, Song
      <4>2. song'.beats <= CountedClocks'
        BY <1>3, <1>4, <2>1, <3>1, <4>1, BeatsBounded DEF Song
      <4> QED
        BY <1>1, <1>4, <4>2 DEF CountedClocks, Song
    <3>2. CASE song' = NoSong \/ song'.beats = 0
      BY <1>4, <3>2 DEF NoSong, Song
    <3> QED
      BY <1>4, <3>1, <3>2 DEF Song
<1>6. song'.beats \in 0 .. MaxReceived /\ song'.received \in 0 .. MaxReceived
  BY <1>4, <1>5, BoundsAssumption DEF IInv, TypeOK, Song
<1>7. TypeOK'
  BY <1>1, <1>2, <1>3, <1>6, CountLfo DEF IInv, TypeOK, Count
<1> QED
  BY <1>4, <1>7, CountLfo DEF IInv

LEMMA NextIInv == IInv /\ [Next]_vars => IInv'
<1> SUFFICES ASSUME IInv, [Next]_vars PROVE IInv'
  OBVIOUS
<1>1. CASE SetSpeed
  BY <1>1, SetSpeedIInv
<1>2. CASE Timer
  <2>1. CASE Counts
    BY <2>1, CountIInv DEF Counts
  <2>2. CASE MidiStart
    BY <2>2, MidiStartIInv
  <2>3. CASE ExternalClock("midi", 1)
    BY <2>3, ExternalClockIInv
  <2>4. CASE ExternalClock("tape", 2)
    BY <2>4, ExternalClockIInv
  <2> QED
    BY <1>2, <2>1, <2>2, <2>3, <2>4 DEF Timer
<1>3. CASE User
  BY <1>3, ChangeSettingIInv, ChangeLfoSyncIInv, SyncButtonIInv, PlayIInv, StopIInv DEF User
<1>4. CASE UNCHANGED vars
  BY <1>4 DEF vars, clockVars, lfoVars, IInv, TypeOK, SongRuns, LfoRuns, SpeedSet, CountedClocks
<1> QED
  BY <1>1, <1>2, <1>3, <1>4 DEF Next

LEMMA AlwaysIInv == Spec => []IInv
BY InitIInv, NextIInv, PTL DEF Spec

-----------------------------------------------------------------------------
(* The theorems *)

\* The clock's state keeps its types: no clock is taken that does not wait, and
\* no torn speed drives the counter over what a signed 16 bit number holds by
\* more than one.
THEOREM ClockTypeOK == Spec => []TypeOK
<1>1. IInv => TypeOK
  BY DEF IInv
<1> QED
  BY <1>1, AlwaysIInv, PTL

\* clock_update keeps the beats of a song in step with the external clocks since
\* MIDI START, for every divider and however many clocks wait.
THEOREM ClockInStep == Spec => []InStep
<1>1. IInv => InStep
  <2> SUFFICES ASSUME IInv, song # NoSong
               PROVE  song.beats = CeilingDiv(CountedClocks, song.divider)
    BY DEF InStep, CountedClocks
  <2>1. /\ song.divider \in Nat \ {0} /\ song.beats \in Nat
        /\ counter \in Nat
    BY SpeedSetKnown, AtOnceIsLate DEF IInv, SongRuns, Song, TypeOK
  <2>2. CASE CountedClocks = 0 /\ song.beats = 0
    <3>1. (0 * song.divider + (song.divider - 1)) \div song.divider = 0
      BY <2>1, Quotient
    <3>2. 0 * song.divider + (song.divider - 1) = CountedClocks + song.divider - 1
      BY <2>1, <2>2
    <3> QED
      BY <2>2, <3>1, <3>2 DEF CeilingDiv
  <2>3. CASE /\ song.beats > 0 /\ counter < song.divider
             /\ CountedClocks = (song.beats - 1) * song.divider + counter + 1
    <3>1. (song.beats * song.divider + counter) \div song.divider = song.beats
      BY <2>1, <2>3, Quotient
    <3>2. song.beats * song.divider = (song.beats - 1) * song.divider + song.divider
      <4>1. (song.beats - 1 + 1) * song.divider = (song.beats - 1) * song.divider + song.divider
        BY <2>1, OneMore
      <4>2. song.beats - 1 + 1 = song.beats
        BY <2>1
      <4> QED
        BY <4>1, <4>2
    <3>3. CountedClocks + song.divider - 1 = song.beats * song.divider + counter
      <4> DEFINE before == (song.beats - 1) * song.divider
      <4>1. before \in Int /\ CountedClocks = before + counter + 1
            /\ song.beats * song.divider = before + song.divider
        BY <2>1, <2>3, <3>2
      <4> HIDE DEF before
      <4> QED
        BY <2>1, <4>1
    <3> QED
      BY <3>1, <3>3 DEF CeilingDiv
  <2> QED
    BY <2>2, <2>3 DEF IInv, SongRuns
<1> QED
  BY <1>1, AlwaysIInv, PTL

\* A beat resets the LFO if spLFOSync less one have come since its last reset,
\* and no other beat does, through all changes of source, players and speed.
THEOREM ClockLfoOnBeat == Spec => LfoOnBeat
<1>1. ASSUME IInv, [Next]_vars, Counts, counter' < counter,
             lfoSync > 1, playing # {}, lfoBeats \in 0 .. 8
      PROVE  lfoBeats' = 0 <=> lfoBeats + 1 = lfoSync - 1
  <2>1. PICK seen \in Seen : Count(seen)
    BY <1>1 DEF Counts
  <2> DEFINE bar == (clockBar + 1) % BarLength
  <2>2. Beats(seen)
    BY <1>1, <2>1, AtOnceIsLate DEF Count, Counted, IInv, TypeOK
  <2>3. clockBar = lfoBeats /\ lfoBeats + 1 < lfoSync /\ lfoSync \in 0 .. 7
    BY <1>1, LfoAssumption DEF IInv, TypeOK, LfoRuns
  <2>4. bar = lfoBeats + 1
    BY <1>1, <2>3 DEF BarLength
  <2>5. ResetsLfo(bar) <=> lfoBeats + 1 = lfoSync - 1
    BY <1>1, <2>3, <2>4 DEF ResetsLfo
  <2>6. lfoBeats' = IF ResetsLfo(bar) THEN 0 ELSE lfoBeats + 1
    BY <1>1, <2>1, <2>2 DEF Count
  <2> HIDE DEF bar
  <2> QED
    BY <1>1, <2>5, <2>6
<1>2. IInv /\ [Next]_vars =>
        [Counts /\ counter' < counter /\ lfoSync > 1 /\ playing # {} /\ lfoBeats \in 0 .. 8
           => (lfoBeats' = 0 <=> lfoBeats + 1 = lfoSync - 1)]_vars
  BY <1>1
<1> QED
  BY <1>2, AlwaysIInv, PTL DEF Spec, LfoOnBeat

\* The internal clock runs at the speed that is set.
Steady == syncMode = "internal" /\ seqArpClock # 0 /\ speed = SpeedSet

\* The safety kernel of KeepsBeating: once the main loop has written the speed, it stays until
\* source or setting change, the interrupt finds no other, each count comes nearer to a beat or
\* is one, and nothing else moves the counter but to where the next count beats at once.
NearsBeat ==
  [][Steady /\ UNCHANGED <<syncMode, seqArpClock>> =>
       /\ Steady'
       /\ counter' \in {counter, AtOnce} \/ Counts
       /\ Counts => counter' = IF counter + 1 < speed THEN counter + 1 ELSE 0]_vars

\* clock_update never loses a beat for good: whatever counter a torn speed or a change of
\* source left, it goes up by one or starts over at zero.
THEOREM ClockNearsBeat == Spec => NearsBeat
<1>1. ASSUME IInv, [Next]_vars, Steady, UNCHANGED <<syncMode, seqArpClock>>
      PROVE  /\ Steady'
             /\ counter' \in {counter, AtOnce} \/ Counts
             /\ Counts => counter' = IF counter + 1 < speed THEN counter + 1 ELSE 0
  <2>1. speed \in 2 .. AtOnce /\ speed \in Nat /\ counter \in Nat /\ SpeedSet' = SpeedSet
    BY <1>1, SpeedSetKnown, AtOnceIsLate DEF IInv, TypeOK, Steady, SpeedSet
  <2>2. Seen = {speed}
    BY <1>1, <2>1, TornFromItself DEF Seen, Steady
  <2>3. ASSUME Counts
        PROVE  speed' = speed /\ counter' = IF counter + 1 < speed THEN counter + 1 ELSE 0
    <3>1. Count(speed)
      BY <2>2, <2>3 DEF Counts
    <3>2. speed # Stopped
      BY <2>1, AtOnceIsLate
    <3>3. speed' = speed /\ counter' = Counted(speed)
      BY <3>1 DEF Count
    <3> QED BY <2>1, <3>2, <3>3 DEF Counted, Beats
  <2>4. SetSpeed \/ MidiStart \/ ExternalClock("midi", 1) \/ ExternalClock("tape", 2) \/ User \/ UNCHANGED vars
          => speed' \in {speed, SpeedSet} /\ counter' \in {counter, AtOnce}
    BY DEF SetSpeed, MidiStart, ExternalClock, User, ChangeSetting, ChangeLfoSync, SyncButton, Play, Stop,
           vars, clockVars
  <2>5. speed' = speed
    BY <1>1, <2>3, <2>4 DEF Next, Timer, Steady
  <2>6. Steady'
    BY <1>1, <2>1, <2>5 DEF Steady
  <2> QED BY <1>1, <2>3, <2>4, <2>6 DEF Next, Timer
<1>2. IInv /\ [Next]_vars =>
        [Steady /\ UNCHANGED <<syncMode, seqArpClock>> =>
           /\ Steady'
           /\ counter' \in {counter, AtOnce} \/ Counts
           /\ Counts => counter' = IF counter + 1 < speed THEN counter + 1 ELSE 0]_vars
  BY <1>1
<1> QED
  BY <1>2, AlwaysIInv, PTL DEF Spec, NearsBeat
=============================================================================
